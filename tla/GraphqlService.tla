---------------------------- MODULE GraphqlService ----------------------------
(***************************************************************************)
(* The GraphQL runtime over the life of a deployment: it becomes ready as  *)
(* in GraphqlArtifacts, requests are limited, executed and reported to     *)
(* on_event, and it is stopped.  Event hooks that raise change nothing and *)
(* are left out.  The depth and the complexity of a document are those of  *)
(* GraphqlLimits, handed in as a constant.                                 *)
(***************************************************************************)
EXTENDS GraphqlArtifacts

CONSTANTS
  Asked,       \* documents of requests that validate; or they send
  NoQuery, Unparsable,
  Measure,     \* of each document in Asked, its depth and complexity
  MaxDepth, MaxComplexity,
  Request      \* requests

ASSUME ServiceAssumption ==
  /\ MaxDepth \in Nat \ {0} /\ MaxComplexity \in Nat \ {0}
  /\ Measure \in [Asked -> [depth : Nat, complexity : Nat]]

VARIABLES
  events,    \* of each request, in order
  response   \* status of each request; Missing before

serviceVars == <<artifactVars, events, response>>
traffic == <<events, response>>

ServiceInit ==
  /\ ArtifactsInit
  /\ events = [r \in Request |-> << >>]
  /\ response = [r \in Request |-> Missing]

Started == [phase |-> "started"]
Completed(status) == [phase |-> "completed", status |-> status]

ReceiveRequest(r) ==
  /\ runtime = "ready" /\ events[r] = << >>
  /\ events' = [events EXCEPT ![r] = <<Started>>]
  /\ UNCHANGED <<artifactVars, response>>

Open(r) == events[r] = <<Started>> /\ response[r] = Missing
Respond(r, status, asked, executed) ==
  /\ events' = [events EXCEPT ![r] = Append(@, Completed(status))]
  /\ response' = [response EXCEPT ![r] = [status |-> status, asked |-> asked, executed |-> executed]]
  /\ UNCHANGED artifactVars

(* Mutant: the depth is not compared.                                      *)
WithinLimitsOfComplexity(asked) == Measure[asked].complexity <= MaxComplexity

WithinLimits(asked) == Measure[asked].depth <= MaxDepth /\ Measure[asked].complexity <= MaxComplexity

(* What is refused is answered with 200 and errors, but for a body without *)
(* a query.                                                                *)
Refuse(r, asked) ==
  /\ Open(r)
  /\ \/ asked = NoQuery /\ Respond(r, 400, asked, FALSE)
     \/ asked = Unparsable /\ Respond(r, 200, asked, FALSE)
     \/ asked \in Asked /\ ~WithinLimits(asked) /\ Respond(r, 200, asked, FALSE)

Execute(r, asked) ==
  /\ Open(r) /\ asked \in Asked /\ WithinLimits(asked)
  /\ Respond(r, 200, asked, TRUE)

(* Mutant: only a response is reported.                                    *)
RaisesSilently(r) ==
  /\ Open(r)
  /\ response' = [response EXCEPT ![r] = [status |-> 500, asked |-> Missing, executed |-> FALSE]]
  /\ UNCHANGED <<artifactVars, events>>

(* An exception is reported and raised again.  A cancellation passes the   *)
(* handler by, and may strike while the completion is being reported.      *)
Raises(r) == Open(r) /\ Respond(r, 500, Missing, FALSE)
Cancelled(r) ==
  /\ Open(r)
  /\ events' \in {events, [events EXCEPT ![r] = Append(@, Completed(200))]}
  /\ response' = [response EXCEPT ![r] = [status |-> Missing, asked |-> Missing, executed |-> FALSE]]
  /\ UNCHANGED artifactVars

(* The server stops once its requests are over.                            *)
StopServing ==
  /\ \A r \in Request : events[r] # << >> => response[r] # Missing
  /\ Shutdown
  /\ UNCHANGED traffic

ServiceNext ==
  \/ Deploy /\ UNCHANGED traffic
  \/ StopServing
  \/ \E r \in Request :
       \/ ReceiveRequest(r) \/ Raises(r) \/ Cancelled(r)
       \/ \E asked \in Asked \cup {NoQuery, Unparsable} : Refuse(r, asked) \/ Execute(r, asked)

ServiceSpec == ServiceInit /\ [][ServiceNext]_serviceVars

------------------------------------------------------------------------------
(* Every request is reported as started once, and as completed once with   *)
(* the status it is answered with; one that is cancelled, at most once.    *)
EventsArePaired ==
  \A r \in Request : response[r] # Missing =>
    IF response[r].status = Missing THEN Head(events[r]) = Started /\ Len(events[r]) <= 2
    ELSE events[r] = <<Started, Completed(response[r].status)>>
==============================================================================
