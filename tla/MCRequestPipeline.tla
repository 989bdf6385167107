------------------------- MODULE MCRequestPipeline -------------------------
(***************************************************************************)
(* One stack, where one middleware id is used twice.  In one behaviour a   *)
(* request goes through it on its own and every layer does whatever it     *)
(* may; in another all requests share the gauge, one status stands for     *)
(* those a use case chooses, and the layers inside the metrics middleware  *)
(* pass on what comes, so that neither has to be small for the other.      *)
(***************************************************************************)
EXTENDS RequestPipeline

CONSTANT First
VARIABLE part

Layers(kinds, ids) == [i \in 1 .. Len(kinds) |-> [kind |-> kinds[i], id |-> ids[i]]]

OuterPlugin == Layers(<<"plugin", "metrics", "custom", "plugin", "plugin">>,
                      <<2, 1, 0, 3, 2>>)

Outermost == Errors + 1
InsideOf(d) == \E m \in Metrics : m < d /\ d < Endpoint

PartsInit ==
  /\ Init
  /\ part \in {"alone", "together"}
  /\ part = "alone" => \A r \in Request \ {First} : handler[r] = "none"
  /\ part = "together" => handler[First] = "usecase"

(* One status beside those the framework sends, retries by the outermost   *)
(* middleware, and the layers inside the metrics middleware raise only     *)
(* once the bound keeps them from calling the next one.                    *)
Restrained(r) ==
  LET d == at[r].depth IN
    /\ seen'[r].log \in {200, 404, 500}
    /\ at'[r].dir = "caught" => d = Outermost
    /\ InsideOf(d) /\ at[r].dir = "run" /\ calls[r] < MaxCalls => at'[r].depth = d + 1
    /\ InsideOf(d) /\ at[r].dir = "out" => result'[r] = result[r]

Taken(r) ==
  /\ IF part = "alone" THEN r = First ELSE Restrained(r)
  /\ UNCHANGED part

PartsNext == \E r \in Request : (Step(r) \/ Cancel(r)) /\ Taken(r)

PartsSpec ==
  /\ PartsInit /\ [][PartsNext]_<<vars, part>>
  /\ \A r \in Request : WF_<<vars, part>>(Step(r) /\ Taken(r))
=============================================================================
