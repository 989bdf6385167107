--------------------------- MODULE RequestPipeline ---------------------------
(***************************************************************************)
(* Requests going through the middleware stack that build() assembles      *)
(* (core/modular_api.py): tracing, logging, error normalisation, the       *)
(* middlewares of plugins and application, and the endpoint.  Each request *)
(* is one coroutine; they interleave wherever one can await.               *)
(*                                                                         *)
(* A request is at a depth of the stack: going in, running the code of     *)
(* that layer, or coming out of the layer below with a result.  A layer    *)
(* answers by sending `http.response.start` outwards through the wrappers  *)
(* of the layers above it.                                                 *)
(***************************************************************************)
EXTENDS Naturals, Sequences, FiniteSets

CONSTANTS
  Request,   \* the requests of a behaviour
  Stack,     \* the middlewares inside error normalisation, outermost first
  Statuses,  \* statuses a middleware or an endpoint may answer with
  MaxCalls   \* bound: times user middlewares call the next layer, per request

Kinds == {"plugin", "custom", "metrics"}

ASSUME PipelineAssumption ==
  /\ IsFiniteSet(Request)
  /\ Stack \in Seq([kind : Kinds, id : Nat])
  /\ \A i, j \in 1 .. Len(Stack) :
       Stack[i].kind = "metrics" /\ Stack[j].kind = "metrics" => i = j
  /\ Statuses \subseteq Nat \ {0}
  /\ MaxCalls \in Nat

Tracing == 1
Logging == 2
Errors == 3
Endpoint == Len(Stack) + 4
Middleware == 4 .. Len(Stack) + 3
Layer(d) == Stack[d - 3]
Metrics == {d \in Middleware : Layer(d).kind = "metrics"}
Plugins == {d \in Middleware : Layer(d).kind # "custom"}
Users == {d \in Middleware : Layer(d).kind # "metrics"}

VARIABLES
  operational, \* the path is one of the excluded operational routes
  handler,     \* what the router finds for the path
  at,          \* depth and direction of every request
  result,      \* how the layer below ended
  stage,       \* step of usecase_handler
  calls,       \* calls of the next layer by user middlewares so far
  candidate,   \* audit.short_circuit: the depth of the middleware, 0 for None
  response,    \* what the client got: the first start message, its sender
  seen,        \* status_code of the send wrappers of logging, tracing, metrics
  span,        \* the server span
  journal,     \* the request's log lines
  inFlight,    \* the gauge http_requests_in_flight
  counted      \* status_code labels http_requests_total was incremented with

inputs == <<operational, handler>>
observers == <<span, journal, inFlight, counted>>
vars == <<inputs, at, result, stage, calls, candidate, response, seen, observers>>

Directions == {"in", "run", "caught", "out"}
Status == Statuses \cup {400, 404, 500}
NoLine == [line |-> "none", status |-> 0, audit |-> 0]

Init ==
  /\ handler \in [Request -> {"usecase", "plugin", "none"}]
  /\ operational \in [Request -> BOOLEAN]
  /\ \A r \in Request : operational[r] => handler[r] = "plugin"
  /\ at = [r \in Request |-> [depth |-> 0, dir |-> "in"]]
  /\ result = [r \in Request |-> "returned"]
  /\ stage = [r \in Request |-> "parse"]
  /\ calls = [r \in Request |-> 0]
  /\ candidate = [r \in Request |-> 0]
  /\ response = [r \in Request |-> [status |-> 0, sender |-> 0, direct |-> FALSE]]
  /\ seen = [r \in Request |-> [log |-> 500, trace |-> 0, metrics |-> 500]]
  /\ span = [r \in Request |-> [state |-> "none", error |-> FALSE]]
  /\ journal = [r \in Request |-> NoLine]
  /\ inFlight = 0
  /\ counted = [r \in Request |-> << >>]

------------------------------------------------------------------------------
(* Moving through the stack                                                *)

At(r, d, dir) == at[r] = [depth |-> d, dir |-> dir]
Observed(r) == ~operational[r]

GoTo(r, d, dir) == at' = [at EXCEPT ![r] = [depth |-> d, dir |-> dir]]

(* The layer at depth d ends; the layer above it continues.                *)
End(r, d, how) ==
  /\ GoTo(r, d - 1, "out")
  /\ result' = [result EXCEPT ![r] = how]

(* clear_short_circuit_candidate compares middleware ids, not middlewares. *)
Cleared(r, d) ==
  IF d \in Plugins /\ candidate[r] # 0 /\ Layer(candidate[r]).id = Layer(d).id
    THEN [candidate EXCEPT ![r] = 0] ELSE candidate

(* The layer at depth d sends a response, then ends as it does.  The       *)
(* wrappers above it note the status first; the server refuses a second    *)
(* start message, and the call raises.                                     *)
SendTo(wrappers, r, d, status, how) ==
  /\ seen' = IF operational[r] THEN seen
             ELSE [seen EXCEPT ![r].log = status, ![r].trace = status,
                               ![r].metrics = IF \E m \in wrappers : m < d
                                                THEN status ELSE @]
  /\ span' = IF operational[r] \/ status < 500 THEN span
             ELSE [span EXCEPT ![r].error = TRUE]
  /\ IF response[r].status = 0
       THEN /\ response' = [response EXCEPT ![r] =
                  [status |-> status, sender |-> d, direct |-> at[r].dir # "caught"]]
            /\ End(r, d, how)
       ELSE UNCHANGED response /\ End(r, d, "raised")

(* Mutant: the app is called with send, not with send_wrapper.             *)
SendPastMetrics(r, d, status, how) == SendTo({}, r, d, status, how)

Send(r, d, status, how) == SendTo(Metrics, r, d, status, how)

------------------------------------------------------------------------------
(* Going in                                                                *)

Arrive(r) ==
  /\ At(r, 0, "in")
  /\ GoTo(r, Tracing, "in")
  /\ UNCHANGED <<inputs, result, stage, calls, candidate, response, seen, observers>>

EnterTracing(r) ==
  /\ At(r, Tracing, "in")
  /\ GoTo(r, Logging, "in")
  /\ span' = IF operational[r] THEN span ELSE [span EXCEPT ![r].state = "open"]
  /\ UNCHANGED <<inputs, result, stage, calls, candidate, response, seen, journal,
                 inFlight, counted>>

EnterLogging(r) ==
  /\ At(r, Logging, "in")
  /\ GoTo(r, Errors, "in")
  /\ journal' = IF operational[r] THEN journal
                ELSE [journal EXCEPT ![r].line = "received"]
  /\ UNCHANGED <<inputs, result, stage, calls, candidate, response, seen, span,
                 inFlight, counted>>

EnterErrors(r) ==
  /\ At(r, Errors, "in")
  /\ GoTo(r, Errors + 1, "in")
  /\ UNCHANGED <<inputs, result, stage, calls, candidate, response, seen, observers>>

(* A plugin's middleware is the candidate until it calls the next layer.   *)
EnterMiddleware(r, d) ==
  /\ At(r, d, "in")
  /\ GoTo(r, d, "run")
  /\ candidate' = IF d \in Plugins THEN [candidate EXCEPT ![r] = d] ELSE candidate
  /\ UNCHANGED <<inputs, result, stage, calls, response, seen, observers>>

(* Mutant: excluded paths are counted in, and not out.                     *)
EnterMetricsAlways(r, d) ==
  /\ At(r, d, "in")
  /\ GoTo(r, d + 1, "in")
  /\ candidate' = [candidate EXCEPT ![r] = 0]
  /\ inFlight' = inFlight + 1
  /\ seen' = [seen EXCEPT ![r].metrics = 500]
  /\ UNCHANGED <<inputs, result, stage, calls, response, span, journal, counted>>

(* The metrics middleware is a plugin's: candidate, gauge, next layer.     *)
EnterMetrics(r, d) ==
  /\ At(r, d, "in")
  /\ GoTo(r, d + 1, "in")
  /\ candidate' = [candidate EXCEPT ![r] = 0]
  /\ inFlight' = IF operational[r] THEN inFlight ELSE inFlight + 1
  /\ seen' = [seen EXCEPT ![r].metrics = 500]
  /\ UNCHANGED <<inputs, result, stage, calls, response, span, journal, counted>>

------------------------------------------------------------------------------
(* The code of a middleware                                                *)

Running(r, d) == At(r, d, "run") \/ At(r, d, "caught")
Raisable(r, d) == Running(r, d) \/ (At(r, d, "out") /\ result[r] # "cancelled")

(* Mutant: the candidate survives the call of the next layer.              *)
CallNextUncleared(r, d) ==
  /\ Running(r, d) /\ calls[r] < MaxCalls
  /\ calls' = [calls EXCEPT ![r] = @ + 1]
  /\ GoTo(r, d + 1, "in")
  /\ UNCHANGED <<inputs, result, stage, candidate, response, seen, observers>>

CallNext(r, d) ==
  /\ Running(r, d) /\ calls[r] < MaxCalls
  /\ calls' = [calls EXCEPT ![r] = @ + 1]
  /\ candidate' = Cleared(r, d)
  /\ GoTo(r, d + 1, "in")
  /\ UNCHANGED <<inputs, result, stage, response, seen, observers>>

(* Instead of calling the next layer, or after that raised.                *)
Answer(r, d) ==
  /\ Running(r, d)
  /\ \E status \in Statuses : Send(r, d, status, "returned")
  /\ candidate' = IF response[r].status # 0 THEN Cleared(r, d) ELSE candidate
  /\ UNCHANGED <<inputs, stage, calls, journal, inFlight, counted>>

(* Its own code raises, before or after the next layer, or what the next   *)
(* layer raised goes through it.                                           *)
Raise(r, d) ==
  /\ Raisable(r, d)
  /\ End(r, d, "raised")
  /\ candidate' = Cleared(r, d)
  /\ UNCHANGED <<inputs, stage, calls, response, seen, observers>>

(* It catches what the next layer raised, to answer itself or to retry.    *)
Catch(r, d) ==
  /\ At(r, d, "out") /\ result[r] = "raised"
  /\ GoTo(r, d, "caught")
  /\ UNCHANGED <<inputs, result, stage, calls, candidate, response, seen, observers>>

PassOutwards(r, d) ==
  /\ At(r, d, "out") /\ result[r] # "raised"
  /\ End(r, d, result[r])
  /\ UNCHANGED <<inputs, stage, calls, candidate, response, seen, observers>>

------------------------------------------------------------------------------
(* The endpoint                                                            *)

AtEndpoint(r, kind) == At(r, Endpoint, "in") /\ handler[r] = kind

NotFound(r) ==
  /\ AtEndpoint(r, "none")
  /\ Send(r, Endpoint, 404, "returned")
  /\ UNCHANGED <<inputs, stage, calls, candidate, journal, inFlight, counted>>

(* The handler of a plugin's route: answers, raises, or breaks a streamed  *)
(* response off.                                                           *)
PluginRouteSends(r) ==
  /\ AtEndpoint(r, "plugin")
  /\ \E status \in Statuses, how \in {"returned", "raised"} : Send(r, Endpoint, status, how)
  /\ UNCHANGED <<inputs, stage, calls, candidate, journal, inFlight, counted>>

PluginRouteRaises(r) ==
  /\ AtEndpoint(r, "plugin")
  /\ End(r, Endpoint, "raised")
  /\ UNCHANGED <<inputs, stage, calls, candidate, response, seen, observers>>

(* Parsing awaits the body; building and validating do not await.          *)
UseCasePrepared(r) ==
  /\ AtEndpoint(r, "usecase") /\ stage[r] = "parse"
  /\ stage' = [stage EXCEPT ![r] = "execute"]
  /\ UNCHANGED <<inputs, at, result, calls, candidate, response, seen, observers>>

(* Every stage may answer for the use case: 400 for the body or validate() *)
(* and for a ValidationError, which execute() may raise too, the status of *)
(* a UseCaseException or of the output, and 500 for any other exception.   *)
(* The next request of a retry starts over.                                *)
UseCaseAnswers(r) ==
  /\ AtEndpoint(r, "usecase")
  /\ stage' = [stage EXCEPT ![r] = "parse"]
  /\ \E status \in Statuses \cup {400, 500} : Send(r, Endpoint, status, "returned")
  /\ UNCHANGED <<inputs, calls, candidate, journal, inFlight, counted>>

(* The details of a UseCaseException cannot be encoded: the handler of     *)
(* that exception raises, and no other one of the endpoint catches it.     *)
UseCaseRaises(r) ==
  /\ AtEndpoint(r, "usecase")
  /\ stage' = [stage EXCEPT ![r] = "parse"]
  /\ End(r, Endpoint, "raised")
  /\ UNCHANGED <<inputs, calls, candidate, response, seen, observers>>

------------------------------------------------------------------------------
(* Coming out                                                              *)

(* CancelledError where a user's code awaits: no `except Exception` runs.  *)
Cancel(r) ==
  /\ \E d \in Users \cup {Endpoint} : at[r].depth = d /\ End(r, d, "cancelled")
  /\ UNCHANGED <<inputs, stage, calls, candidate, response, seen, observers>>

(* Counts what ended inside, and takes n off the gauge.                    *)
LeaveMetricsBy(n, r, d) ==
  /\ At(r, d, "out")
  /\ End(r, d, result[r])
  /\ counted' = [counted EXCEPT ![r] =
       IF operational[r] \/ result[r] = "cancelled" THEN @
       ELSE Append(@, IF result[r] = "returned" THEN seen[r].metrics ELSE 500)]
  /\ inFlight' = inFlight - n
  /\ candidate' = IF result[r] = "raised" THEN Cleared(r, d) ELSE candidate
  /\ UNCHANGED <<inputs, stage, calls, response, seen, span, journal>>

(* Mutant: the decrement is in both branches and not in `finally`.         *)
LeaveMetricsNoFinally(r, d) ==
  LeaveMetricsBy(IF operational[r] \/ result[r] = "cancelled" THEN 0 ELSE 1, r, d)

LeaveMetrics(r, d) == LeaveMetricsBy(IF operational[r] THEN 0 ELSE 1, r, d)

Normalise(r, caught) ==
  /\ At(r, Errors, "out")
  /\ IF caught
       THEN Send(r, Errors, 500, "returned")
       ELSE End(r, Errors, result[r]) /\ UNCHANGED <<response, seen, span>>
  /\ UNCHANGED <<inputs, stage, calls, candidate, journal, inFlight, counted>>

(* Mutant: error normalisation is inside the plugins' preRouting slot.     *)
LeaveErrorsInner(r) == Normalise(r, result[r] = "raised" /\ calls[r] > 0)

LeaveErrors(r) == Normalise(r, result[r] = "raised")

LeaveLogging(r) ==
  /\ At(r, Logging, "out")
  /\ End(r, Logging, result[r])
  /\ journal' = [journal EXCEPT ![r] =
       IF operational[r] \/ result[r] = "cancelled" THEN @
       ELSE IF result[r] = "returned"
         THEN [line |-> "completed", status |-> seen[r].log, audit |-> candidate[r]]
         ELSE [@ EXCEPT !.line = "unhandled"]]
  /\ UNCHANGED <<inputs, stage, calls, candidate, response, seen, span, inFlight, counted>>

(* use_span ends the span however the block ends; whether a cancellation   *)
(* counts as an error is the tracing library's business.                   *)
LeaveTracing(r) ==
  /\ At(r, Tracing, "out")
  /\ End(r, Tracing, result[r])
  /\ \E noted \in BOOLEAN :
       span' = IF operational[r] THEN span
               ELSE [span EXCEPT ![r] =
                 [state |-> "ended",
                  error |-> @.error \/ result[r] = "raised"
                                    \/ (noted /\ result[r] = "cancelled")]]
  /\ UNCHANGED <<inputs, stage, calls, candidate, response, seen, journal, inFlight, counted>>

------------------------------------------------------------------------------
In(r) == Arrive(r) \/ EnterTracing(r) \/ EnterLogging(r) \/ EnterErrors(r)

UserCode(r) ==
  \E d \in Users : \/ EnterMiddleware(r, d) \/ CallNext(r, d) \/ Answer(r, d)
                   \/ Raise(r, d) \/ Catch(r, d) \/ PassOutwards(r, d)

MetricsCode(r) == \E d \in Metrics : EnterMetrics(r, d) \/ LeaveMetrics(r, d)

AnEndpoint(r) ==
  \/ NotFound(r) \/ PluginRouteSends(r) \/ PluginRouteRaises(r)
  \/ UseCasePrepared(r) \/ UseCaseAnswers(r) \/ UseCaseRaises(r)

Out(r) == LeaveErrors(r) \/ LeaveLogging(r) \/ LeaveTracing(r)

Step(r) == In(r) \/ UserCode(r) \/ MetricsCode(r) \/ AnEndpoint(r) \/ Out(r)

Next == \E r \in Request : Step(r) \/ Cancel(r)

(* Middlewares and endpoints return or raise; nothing forces a cancellation. *)
Spec == Init /\ [][Next]_vars /\ \A r \in Request : WF_vars(Step(r))

------------------------------------------------------------------------------
(* Properties                                                              *)

Done(r) == At(r, 0, "out")

InsideMetrics(r) ==
  /\ Observed(r)
  /\ \E m \in Metrics : at[r].depth > m \/ At(r, m, "out")

(* http_requests_in_flight is the number of requests between the metrics   *)
(* middleware's inc() and its `finally`, whatever raised, retried or was   *)
(* cancelled inside.                                                       *)
InFlightExact == inFlight = Cardinality({r \in Request : InsideMetrics(r)})

(* A request that is not cancelled gets a response, whichever middleware   *)
(* or endpoint raised: error normalisation wraps all of them.              *)
AlwaysAnswered ==
  \A r \in Request : Done(r) /\ result[r] # "cancelled" => response[r].status # 0

(* What log, span and counter say of a finished request is what its client *)
(* saw.  An exception after the response started is never logged as        *)
(* completed, and its span is an error.  A request counted by the metrics  *)
(* middleware carries its status there, unless an outer middleware         *)
(* replaced an exception by an answer of its own.                          *)
ObserversAgree ==
  \A r \in Request : Done(r) /\ Observed(r) =>
    /\ span[r].state = "ended"
    /\ result[r] = "raised" => journal[r].line = "unhandled" /\ span[r].error
    /\ result[r] = "returned" =>
         /\ journal[r].line = "completed"
         /\ journal[r].status = response[r].status
         /\ seen[r].trace = response[r].status
         /\ response[r].status >= 500 => span[r].error
         /\ \A m \in Metrics :
              response[r].sender = Errors \/ response[r].sender > m =>
                counted[r] = << >> \/ counted[r][Len(counted[r])] = response[r].status

(* `short_circuit` is on the completed line exactly when a plugin's        *)
(* middleware answered in place of the layers below it, and it names that  *)
(* middleware.                                                             *)
AuditTruth ==
  \A r \in Request : journal[r].line = "completed" =>
    journal[r].audit = IF response[r].sender \in Plugins /\ response[r].direct
                         THEN response[r].sender ELSE 0

(* Once no more requests arrive, the gauge returns to zero and stays.      *)
GaugeReturnsToZero == <>[](inFlight = 0)
==============================================================================
