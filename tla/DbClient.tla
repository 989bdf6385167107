------------------------------ MODULE DbClient ------------------------------
(***************************************************************************)
(* Calls on a database client (modular_api_postgres, db_client.py) wrapped *)
(* by trace_db_client (db_tracing.py): the lease each call takes from the  *)
(* session provider and gives back, transactions whose body calls the      *)
(* client again, and the spans of all of it.  The SQL Server client is the *)
(* same code.                                                              *)
(*                                                                         *)
(* The calls are synchronous; callers are threads.  Provider, executor and *)
(* transaction runner are the application's: they answer with a success or *)
(* a failure, or they raise, as a transaction body may.                    *)
(***************************************************************************)
EXTENDS Naturals, Sequences, FiniteSets

CONSTANTS
  Caller,   \* threads that use the client
  Session,  \* sessions of the provider's pool
  Sampled,  \* callers with a recording span
  MaxCalls  \* bound: calls begun

ASSUME DbAssumption == Sampled \subseteq Caller /\ MaxCalls \in Nat

VARIABLES
  calls,    \* active calls of each caller, outermost first
  begun,    \* number of calls begun
  out,      \* sessions the provider has handed out
  lost,     \* of these, those whose release raised, failed or was skipped
  spans,    \* spans started by each caller
  current   \* current span of each caller, 0 for the one it came with

vars == <<calls, begun, out, lost, spans, current>>

(* A command or a transaction of the client, or a command of a transaction *)
(* context, which uses the session of that transaction.  `lease` is empty  *)
(* when there is none, or when the session is the application's own.       *)
ActiveCall == [op : {"command", "transaction", "inner"},
          stage : {"acquire", "work", "release"},
          lease : SUBSET Session,
          outcome : {"none", "ok", "failed"},
          span : Nat]

Span == [parent : Nat, state : {"open", "ended", "abandoned"}, error : BOOLEAN]

DbTypeOK ==
  /\ calls \in [Caller -> Seq(ActiveCall)]
  /\ begun \in 0 .. MaxCalls
  /\ out \subseteq Session /\ lost \subseteq Session
  /\ spans \in [Caller -> Seq(Span)]
  /\ \A c \in Caller : current[c] \in 0 .. Len(spans[c])

Init ==
  /\ calls = [c \in Caller |-> << >>]
  /\ begun = 0
  /\ out = {} /\ lost = {}
  /\ spans = [c \in Caller |-> << >>]
  /\ current = [c \in Caller |-> 0]

------------------------------------------------------------------------------
LastCall(c) == calls[c][Len(calls[c])]
In(c, stage) == calls[c] # << >> /\ LastCall(c).stage = stage

(* Application code runs: outside all calls, or in a transaction body.     *)
InApplication(c) == calls[c] # << >> => LastCall(c).stage = "work" /\ LastCall(c).op = "transaction"

Push(c, frame) == calls' = [calls EXCEPT ![c] = Append(@, frame)]
Pop(c) == calls' = [calls EXCEPT ![c] = SubSeq(@, 1, Len(@) - 1)]
Become(c, frame) == calls' = [calls EXCEPT ![c] = Append(SubSeq(@, 1, Len(@) - 1), frame)]

(* _start_db_span: no span, unless the current one is recording.           *)
DbSpanStarted(c, trace) ==
  IF c \in Sampled THEN Append(trace, [parent |-> current[c], state |-> "open", error |-> FALSE])
                   ELSE trace
NewSpan(c, trace) == IF c \in Sampled THEN Len(trace) + 1 ELSE 0

(* _end_db_span: the status is the result's.                               *)
SpanEnded(c, trace, failed) ==
  [i \in 1 .. Len(trace) |->
     IF i = LastCall(c).span THEN [trace[i] EXCEPT !.state = "ended", !.error = failed]
                        ELSE trace[i]]

SpanAbandoned(c, trace) ==
  [i \in 1 .. Len(trace) |->
     IF i = LastCall(c).span /\ trace[i].state = "open"
       THEN [trace[i] EXCEPT !.state = "abandoned",
                             !.error = (LastCall(c).op = "transaction" /\ LastCall(c).stage = "work")]
       ELSE trace[i]]

(* Leaving `with use_span(span)`: the span that was current before.        *)
Restored(c) ==
  current' = IF LastCall(c).op = "transaction" /\ LastCall(c).stage = "work" /\ c \in Sampled
               THEN [current EXCEPT ![c] = spans[c][LastCall(c).span].parent]
               ELSE current

------------------------------------------------------------------------------
(* query, execute, scalar or transaction asks for a lease.                 *)
BeginCall(c, op) ==
  /\ InApplication(c) /\ begun < MaxCalls
  /\ begun' = begun + 1
  /\ Push(c, [op |-> op, stage |-> "acquire", lease |-> {}, outcome |-> "none",
              span |-> NewSpan(c, spans[c])])
  /\ spans' = [spans EXCEPT ![c] = DbSpanStarted(c, @)]
  /\ UNCHANGED <<out, lost, current>>

(* A command of the transaction context.                                   *)
CallInner(c) ==
  /\ InApplication(c) /\ calls[c] # << >> /\ begun < MaxCalls
  /\ begun' = begun + 1
  /\ Push(c, [op |-> "inner", stage |-> "work", lease |-> {}, outcome |-> "none",
              span |-> NewSpan(c, spans[c])])
  /\ spans' = [spans EXCEPT ![c] = DbSpanStarted(c, @)]
  /\ UNCHANGED <<out, lost, current>>

(* The provider grants a lease; the executor, or the runner, is called. A  *)
(* transaction's span becomes the current one.                             *)
Acquired(c) ==
  /\ In(c, "acquire")
  /\ \E lease \in {{}} \cup {{s} : s \in Session \ out} :
       /\ out' = out \cup lease
       /\ Become(c, [LastCall(c) EXCEPT !.stage = "work", !.lease = lease,
                                   !.span = NewSpan(c, spans[c])])
  /\ spans' = [spans EXCEPT ![c] = DbSpanStarted(c, SpanEnded(c, @, FALSE))]
  /\ current' = IF LastCall(c).op = "transaction" /\ c \in Sampled
                  THEN [current EXCEPT ![c] = Len(spans[c]) + 1] ELSE current
  /\ UNCHANGED <<begun, lost>>

AcquireFails(c) ==
  /\ In(c, "acquire")
  /\ Pop(c)
  /\ spans' = [spans EXCEPT ![c] = SpanEnded(c, @, TRUE)]
  /\ UNCHANGED <<begun, out, lost, current>>

(* Mutant: a failure is returned at once.                                  *)
WorkEndsEarly(c, outcome) ==
  /\ In(c, "work")
  /\ IF LastCall(c).op = "inner" \/ outcome = "failed"
       THEN Pop(c)
       ELSE Become(c, [LastCall(c) EXCEPT !.stage = "release", !.outcome = outcome])
  /\ spans' = [spans EXCEPT ![c] = SpanEnded(c, @, outcome = "failed")]
  /\ Restored(c)
  /\ UNCHANGED <<begun, out, lost>>

(* Mutant: the transaction's span stays the current one.                   *)
WorkEndsUnrestored(c, outcome) ==
  /\ In(c, "work")
  /\ IF LastCall(c).op = "inner"
       THEN Pop(c)
       ELSE Become(c, [LastCall(c) EXCEPT !.stage = "release", !.outcome = outcome])
  /\ spans' = [spans EXCEPT ![c] = SpanEnded(c, @, outcome = "failed")]
  /\ UNCHANGED <<begun, out, lost, current>>

(* The executor answers, or the runner after commit or rollback.           *)
WorkEnds(c, outcome) ==
  /\ In(c, "work")
  /\ IF LastCall(c).op = "inner"
       THEN Pop(c)
       ELSE Become(c, [LastCall(c) EXCEPT !.stage = "release", !.outcome = outcome])
  /\ spans' = [spans EXCEPT ![c] = SpanEnded(c, @, outcome = "failed")]
  /\ Restored(c)
  /\ UNCHANGED <<begun, out, lost>>

(* Mutant: only a session of the package is ever done with.                *)
ReleasedIfOwned(c) ==
  /\ In(c, "release") /\ LastCall(c).lease # {}
  /\ out' = out \ LastCall(c).lease
  /\ Pop(c)
  /\ UNCHANGED <<begun, lost, spans, current>>

(* release() does nothing for a session of the application.                *)
Released(c) ==
  /\ In(c, "release")
  /\ out' = out \ LastCall(c).lease
  /\ Pop(c)
  /\ UNCHANGED <<begun, lost, spans, current>>

(* The provider may have taken the session back or not.                    *)
ReleaseFails(c) ==
  /\ In(c, "release") /\ LastCall(c).lease # {}
  /\ \/ out' = out \ LastCall(c).lease /\ UNCHANGED lost
     \/ lost' = lost \cup LastCall(c).lease /\ UNCHANGED out
  /\ Pop(c)
  /\ UNCHANGED <<begun, spans, current>>

(* An exception leaves the innermost call: what comes after in that call   *)
(* is skipped.  The code around it is a transaction body, which catches it *)
(* or raises as well, or the caller.                                       *)
WorkRaises(c) ==
  /\ calls[c] # << >>
  /\ LastCall(c).stage = "release" => LastCall(c).lease # {}
  /\ lost' = lost \cup LastCall(c).lease
  /\ Pop(c)
  /\ spans' = [spans EXCEPT ![c] = SpanAbandoned(c, @)]
  /\ Restored(c)
  /\ UNCHANGED <<begun, out>>

Step(c) ==
  \/ Acquired(c) \/ AcquireFails(c)
  \/ (\E outcome \in {"ok", "failed"} : WorkEnds(c, outcome))
  \/ Released(c) \/ ReleaseFails(c)
  \/ WorkRaises(c)

Next ==
  \E c \in Caller : (\E op \in {"command", "transaction"} : BeginCall(c, op)) \/ CallInner(c) \/ Step(c)

(* Provider, executor, runner and bodies come back.                        *)
Spec == Init /\ [][Next]_vars /\ \A c \in Caller : WF_vars(Step(c))

------------------------------------------------------------------------------
(* Properties                                                              *)

HeldBy(c, i, s) == s \in calls[c][i].lease

(* Every session that is out belongs to one active call, or has been lost  *)
(* to an exception or a failed release: no call gives back a session that  *)
(* is not its own, keeps one when it is over, or shares one with a call of *)
(* another thread or one nested in it.                                     *)
LeasesAccounted ==
  \A s \in Session :
    /\ s \in out <=> s \in lost \/ \E c \in Caller : \E i \in 1 .. Len(calls[c]) : HeldBy(c, i, s)
    /\ \A c, d \in Caller : \A i \in 1 .. Len(calls[c]), j \in 1 .. Len(calls[d]) :
         HeldBy(c, i, s) /\ HeldBy(d, j, s) => c = d /\ i = j
    /\ s \in lost => \A c \in Caller : \A i \in 1 .. Len(calls[c]) : ~HeldBy(c, i, s)

(* The span of the transaction whose body makes the k-th call of c.        *)
InnermostTransaction(c, k) ==
  LET enclosing == {j \in 1 .. k - 1 : calls[c][j].op = "transaction"}
  IN  IF enclosing = {} THEN 0
      ELSE calls[c][CHOOSE j \in enclosing : \A i \in enclosing : i <= j].span

(* The spans form the tree of the calls: the parent of a span is the       *)
(* transaction whose body made the call, which is still open; a span that  *)
(* has ended is an error if and only if its step failed; and a span is     *)
(* open only while the call it belongs to is at the step it measures.      *)
SpanTree ==
  \A c \in Sampled :
    /\ \A k \in 1 .. Len(calls[c]) :
         LET call == calls[c][k]
             span == spans[c][call.span]
         IN  /\ span.parent = InnermostTransaction(c, k)
             /\ span.parent # 0 => spans[c][span.parent].state = "open"
             /\ call.stage = "release" =>
                  span.state = "ended" /\ (span.error <=> call.outcome = "failed")
    /\ \A i \in 1 .. Len(spans[c]) :
         spans[c][i].state = "open" =>
           \E k \in 1 .. Len(calls[c]) : calls[c][k].span = i /\ calls[c][k].stage # "release"

(* Every call comes back to its caller, whatever raises in it.             *)
EveryCallReturns == \A c \in Caller : <>[](calls[c] = << >>)
==============================================================================
