---------------------------- MODULE OutboundCalls -----------------------------
(***************************************************************************)
(* One hop between two services: HttpServiceClient.execute and             *)
(* GraphqlClient.execute on the calling side, with the client span and the *)
(* headers of ClientCallTracing, and on the called side the parent that    *)
(* PropagationPolicy.resolve gives the server span.                        *)
(*                                                                         *)
(* A client holds nothing but whether it is closed, which another thread   *)
(* may do at any time.  The network may lose a header, add the one of      *)
(* Google Cloud, and never answer; the answer's body is read after its     *)
(* status.  Telemetry hooks do not raise.                                  *)
(***************************************************************************)
EXTENDS Integers, Sequences

CONSTANTS
  SpanId,      \* the id the client span gets, if there is one
  Operations,  \* what is executed, and whether under a recording span
  Injectors,   \* propagators of the calling process, "w3c" or "cloud"
  Policies,    \* propagation policies of the called service
  CloudHeaders,\* what a proxy may put into x-cloud-trace-context
  MaxSpanId,   \* stands for 2^64 - 1
  Absent, Malformed

ASSUME OutboundAssumption ==
  /\ MaxSpanId \in Nat /\ SpanId \in 1 .. MaxSpanId
  /\ Absent \notin {"ok", "client_closed", "refused"}

Context(id, sampled) == [span |-> id, sampled |-> sampled]

(* A header without a valid context is Absent or Malformed.                *)
ASSUME HeaderAssumption ==
  /\ \A id \in 1 .. MaxSpanId, sampled \in BOOLEAN :
       Context(id, sampled) \notin {Absent, Malformed}
  /\ \A span \in 1 .. MaxSpanId, options \in {<<"o=0">>, <<"o=1">>} :
       [trace |-> "valid", span |-> span, options |-> options] \notin {Absent, Malformed}
  /\ \A o \in Operations :
       o.traceparent \in {Absent, Malformed} \/ o.traceparent.span \in 1 .. MaxSpanId
  /\ \A policy \in Policies :
       policy.trust \in BOOLEAN /\ policy.chain \in Seq({"w3c", "cloud", "raises"})

VARIABLES
  closed,    \* whether close() was called
  phase,     \* of execute
  op,        \* the operation
  hooks,     \* telemetry hooks run, in order
  span,      \* the client span
  wire,      \* the headers, once the request has left
  server,    \* the span of the called service
  result     \* of execute

outVars == <<closed, phase, op, hooks, span, wire, server, result>>

NoSpan == [state |-> "none", error |-> FALSE]
NoServer == [arrived |-> FALSE, policy |-> Absent, parent |-> Absent, requestId |-> Absent,
             status |-> Absent, error |-> FALSE]

OutInit ==
  /\ closed = FALSE
  /\ phase = "idle"
  /\ op = Absent
  /\ hooks = << >>
  /\ span = NoSpan
  /\ wire = Absent
  /\ server = NoServer
  /\ result = Absent

(* 304 stands for the statuses below 400 that urllib does not follow: 300, *)
(* 304, a 307 or 308 that is no answer to a GET, a loop of redirects.      *)
HttpStatus == {200, 304, 401, 429, 500}
IsSuccess(status) == status \in 200 .. 299
Ends(outcome) == phase' = "reporting" /\ result' = outcome

------------------------------------------------------------------------------
(* CloudTraceContextPropagator: TRACE/SPAN;options, the span in decimal.   *)
CloudInject(context) ==
  [trace |-> "valid", span |-> context.span,
   options |-> <<IF context.sampled THEN "o=1" ELSE "o=0">>]

IsSampled(options) ==
  \E k \in 1 .. Len(options) :
    /\ options[k] = "o=1"
    /\ \A j \in 1 .. k - 1 : options[j] # "o=0"

CloudExtract(header) ==
  IF /\ header # Absent /\ header # Malformed
     /\ header.trace = "valid" /\ header.span \in 1 .. MaxSpanId
    THEN Context(header.span, IsSampled(header.options)) ELSE Absent

(* PropagationPolicy: the first of the chain with a valid context; one     *)
(* that raises is passed over.                                             *)
Extract(propagator, headers) ==
  CASE propagator = "w3c" -> IF headers.w3c = Malformed THEN Absent ELSE headers.w3c
    [] propagator = "cloud" -> CloudExtract(headers.cloud)
    [] propagator = "raises" -> Absent

(* Mutant: the first propagator decides.                                   *)
ResolveFirstOnly(policy, headers) ==
  IF policy.trust /\ policy.chain # << >> THEN Extract(policy.chain[1], headers) ELSE Absent

Resolve(policy, headers) ==
  LET valid == {k \in 1 .. Len(policy.chain) : Extract(policy.chain[k], headers) # Absent}
      first == CHOOSE k \in valid : \A j \in valid : k <= j
  IN  IF policy.trust /\ valid # {} THEN Extract(policy.chain[first], headers) ELSE Absent

------------------------------------------------------------------------------
(* ClientCallTracing.complete: an ended span keeps what it ended with.     *)
Completed(s, error) ==
  IF s.state = "none" THEN s
  ELSE [state |-> "ended", error |-> IF s.state = "open" THEN error ELSE s.error]

Close ==
  /\ ~closed /\ closed' = TRUE
  /\ UNCHANGED <<phase, op, hooks, span, wire, server, result>>

(* execute: a closed client, an incomplete request or a mutation is        *)
(* refused before the hooks are told.                                      *)
Execute(o) ==
  /\ phase = "idle"
  /\ op' = o
  /\ IF closed \/ ~o.accepted
       THEN /\ phase' = "returned"
            /\ result' = IF closed THEN "client_closed" ELSE "refused"
            /\ UNCHANGED hooks
       ELSE /\ phase' = "building"
            /\ hooks' = Append(hooks, "started")
            /\ UNCHANGED result
  /\ UNCHANGED <<closed, span, wire, server>>

(* Of the two clients the HTTP one starts a span, under a recording one.   *)
Traced == op.kind = "http" /\ op.recording
SpanStarted == IF Traced THEN [span EXCEPT !.state = "open"] ELSE span

(* The auth provider, or the encoding of a GraphQL body, raises.           *)
HeadersFail ==
  /\ phase = "building"
  /\ Ends("unexpected_error")
  /\ UNCHANGED <<closed, op, hooks, span, wire, server>>

(* The body of an HTTP request is encoded once the span is open.           *)
EncodingFails ==
  /\ phase = "building" /\ op.kind = "http"
  /\ span' = Completed(SpanStarted, TRUE)
  /\ Ends("unexpected_error")
  /\ UNCHANGED <<closed, op, hooks, wire, server>>

(* The request leaves; the span is injected over what the headers held.    *)
Send ==
  /\ phase = "building"
  /\ phase' = "sent"
  /\ span' = SpanStarted
  /\ LET context == Context(SpanId, TRUE)
         Header(name, value, given) == IF Traced /\ name \in Injectors THEN value ELSE given
     IN  wire' = [w3c |-> Header("w3c", context, op.traceparent),
                  cloud |-> Header("cloud", CloudInject(context), Absent),
                  requestId |-> op.requestId]
  /\ UNCHANGED <<closed, op, hooks, server, result>>

(* A proxy drops or damages traceparent, or adds the Google Cloud header   *)
(* when there is none.                                                     *)
Travel ==
  /\ wire # Absent /\ ~server.arrived
  /\ \/ \E w \in {Absent, Malformed} : w # wire.w3c /\ wire' = [wire EXCEPT !.w3c = w]
     \/ /\ wire.cloud = Absent
        /\ \E h \in CloudHeaders : wire' = [wire EXCEPT !.cloud = h]
  /\ UNCHANGED <<closed, phase, op, hooks, span, server, result>>

(* start_server_span in the called service; the caller may be gone by then.*)
Arrive(policy) ==
  /\ wire # Absent /\ ~server.arrived
  /\ server' = [server EXCEPT !.arrived = TRUE, !.policy = policy,
                              !.parent = Resolve(policy, wire), !.requestId = wire.requestId]
  /\ UNCHANGED <<closed, phase, op, hooks, span, wire, result>>

(* complete_server_span: only a 5xx is an error of the server.             *)
Serve(status) ==
  /\ server.arrived /\ server.status = Absent
  /\ server' = [server EXCEPT !.status = status, !.error = (status >= 500)]
  /\ UNCHANGED <<closed, phase, op, hooks, span, wire, result>>

(* A timeout, a refused connection, or anything else without a status.     *)
NoAnswer(outcome) ==
  /\ phase = "sent"
  /\ span' = Completed(span, TRUE)
  /\ Ends(outcome)
  /\ UNCHANGED <<closed, op, hooks, wire, server>>

(* Mutant: a status below 500 is no error of the call.                     *)
AnswerAsServer ==
  /\ phase = "sent" /\ server.status # Absent
  /\ span' = Completed(span, server.status >= 500)
  /\ phase' = IF IsSuccess(server.status) THEN "reading" ELSE "failing"
  /\ UNCHANGED <<closed, op, hooks, wire, server, result>>

(* The status is in hand and the span ends, as an error from 400.  The     *)
(* opener raises HTTPError for whatever is no success.                     *)
Answer ==
  /\ phase = "sent" /\ server.status # Absent
  /\ span' = Completed(span, server.status >= 400)
  /\ phase' = IF IsSuccess(server.status) THEN "reading" ELSE "failing"
  /\ UNCHANGED <<closed, op, hooks, wire, server, result>>

(* The body is read and decoded: what is not JSON, not an envelope or not  *)
(* what the GraphQL decoder wants is a failure of its own.                 *)
Decode(outcome) ==
  /\ phase = "reading"
  /\ outcome \in {"invalid_graphql_response", "invalid_graphql_data"} => op.kind = "graphql"
  /\ Ends(outcome)
  /\ UNCHANGED <<closed, op, hooks, span, wire, server>>

(* Reading times out or fails, or the HTTP decoder raises: the handlers    *)
(* complete the span again.                                                *)
ReadingFails(outcome) ==
  /\ phase = "reading"
  /\ span' = Completed(span, TRUE)
  /\ Ends(outcome)
  /\ UNCHANGED <<closed, op, hooks, wire, server>>

ErrorCode(status) ==
  CASE status = 401 -> "unauthorized" [] status = 429 -> "rate_limit" [] OTHER -> "http_status"

ReadErrorBody ==
  /\ phase = "failing"
  /\ Ends(ErrorCode(server.status))
  /\ UNCHANGED <<closed, op, hooks, span, wire, server>>

(* error.read() or its decoding raises inside the handler of HTTPError: no *)
(* other handler of the statement catches that, and execute raises.        *)
ErrorBodyFails ==
  /\ phase = "failing"
  /\ phase' = "raised"
  /\ UNCHANGED <<closed, op, hooks, span, wire, server, result>>

(* on_completed, and the result is returned.                               *)
Report ==
  /\ phase = "reporting"
  /\ phase' = "returned"
  /\ hooks' = Append(hooks, result)
  /\ UNCHANGED <<closed, op, span, wire, server, result>>

OutNext ==
  \/ Close
  \/ \E o \in Operations : Execute(o)
  \/ HeadersFail \/ EncodingFails \/ Send
  \/ Travel
  \/ \E policy \in Policies : Arrive(policy)
  \/ \E status \in HttpStatus : Serve(status)
  \/ \E outcome \in {"timeout", "transport_error", "unexpected_error"} : NoAnswer(outcome)
  \/ Answer
  \/ \E outcome \in {"ok", "invalid_json", "invalid_graphql_response", "invalid_graphql_data"} :
       Decode(outcome)
  \/ \E outcome \in {"timeout", "unexpected_error"} : ReadingFails(outcome)
  \/ ReadErrorBody \/ ErrorBodyFails \/ Report

OutSpec == OutInit /\ [][OutNext]_outVars

------------------------------------------------------------------------------
Over == phase \in {"returned", "raised"}

(* What the telemetry hooks and the spans say of a call that is over is    *)
(* what happened: on_completed follows on_started once and with the result *)
(* returned, unless the call was refused or the body of a response that is *)
(* no success could not be read; the client span has ended, as an error    *)
(* exactly when no status came or one from 400 did, so a redirect that was *)
(* not followed is a failure of the call and no error of its span; a call  *)
(* that succeeded has no error on either side, and an error of the server  *)
(* that was heard is one of the client.                                    *)
CallIsReported ==
  Over =>
    LET refused == result \in {"unauthorized", "rate_limit", "http_status"} \/ phase = "raised"
    IN  /\ hooks = CASE phase = "raised" -> <<"started">>
                     [] result \in {"client_closed", "refused"} -> << >>
                     [] OTHER -> <<"started", result>>
        /\ refused => server.status # Absent /\ ~IsSuccess(server.status)
        /\ result = "ok" => ~span.error /\ IsSuccess(server.status)
        /\ Traced /\ wire # Absent => span.state = "ended"
        /\ span.state # "none" =>
             /\ span.state = "ended"
             /\ refused => (span.error <=> server.status >= 400)
             /\ ~span.error => server.status # Absent /\ ~server.error

(* docs/archive/service_client_model_spec.md:383-385: "all direct outbound *)
(* operations return `ServiceResult<T>`", and failures are "not arbitrary  *)
(* transport exceptions".  No call ends with an exception: what raises     *)
(* inside the handler of HTTPError is caught by no other handler.          *)
CallsReturnResults == phase # "raised"

(* The span of the called service continues the call that reached it, or   *)
(* nothing: it is a child of the client span whenever the service trusts   *)
(* what it is sent and an injected header that its chain reads arrives     *)
(* intact, unless the chain asks first for the Google Cloud header and a   *)
(* proxy has put its own there; it has no parent when the service does not *)
(* trust; and a header damaged on the way or a propagator that raises      *)
(* changes neither that nor the request id.                                *)
TraceContinues ==
  server.arrived =>
    LET chain == server.policy.chain
        own == Context(SpanId, TRUE)
        ByProxy(k) == chain[k] = "cloud" /\ "cloud" \notin Injectors /\ wire.cloud # Absent
    IN  /\ server.requestId = op.requestId
        /\ ~server.policy.trust => server.parent = Absent
        /\ server.policy.trust /\ Traced => \A k \in 1 .. Len(chain) :
             /\ chain[k] = "w3c" /\ wire.w3c = own /\ (\A j \in 1 .. k - 1 : ~ByProxy(j)) =>
                  server.parent = own
             /\ chain[k] = "cloud" /\ {"w3c", "cloud"} \subseteq Injectors =>
                  server.parent = own
        /\ server.parent # Absent => server.parent.span \in 1 .. MaxSpanId
==============================================================================
