----------------------------- MODULE HealthService -----------------------------
(***************************************************************************)
(* GET /health: every registered check runs at once, under its timeout,    *)
(* and the answer combines what they return (HealthService.evaluate and    *)
(* health_handler).                                                        *)
(*                                                                         *)
(* Times and outputs are left out; a check answers one of the statuses or  *)
(* raises.                                                                 *)
(***************************************************************************)
EXTENDS Naturals, Sequences

CONSTANTS
  CheckName,  \* names of checks
  Visit,      \* requests of GET /health
  MaxChecks,  \* bound: checks registered
  Unanswered, Cancelled

VARIABLES
  checks,    \* names of the registered checks, in order
  entries,   \* of each visit: what each check of the snapshot came to
  happened,  \* of each visit: how each check really ended
  health     \* of each visit: the response

healthVars == <<checks, entries, happened, health>>

(* HealthStatus, ordered by severity, and the answer without any check.    *)
PASS == "pass"
WARN == "warn"
FAIL == "fail"
Severity == [pass |-> 0, warn |-> 1, fail |-> 2]
Status == DOMAIN Severity
Running == "running"
Cancelling == "cancelling"

Nothing == [status |-> PASS, http |-> 200, checks |-> [n \in {} |-> PASS]]

(* A visit that has no entries or no answer yet is told from one that has. *)
ASSUME HealthAssumption ==
  /\ Unanswered \notin Seq([name : CheckName, is : Status \cup {Running, Cancelling}])
  /\ Unanswered # Nothing

HealthInit ==
  /\ checks = << >>
  /\ entries = [v \in Visit |-> Unanswered]
  /\ happened = [v \in Visit |-> << >>]
  /\ health = [v \in Visit |-> Unanswered]

AddHealthCheck(name) ==
  /\ Len(checks) < MaxChecks
  /\ checks' = Append(checks, name)
  /\ UNCHANGED <<entries, happened, health>>

Responds(v, status, results) ==
  health' = [health EXCEPT ![v] = [status |-> status, http |-> IF status = FAIL THEN 503 ELSE 200,
                                   checks |-> results]]

(* With no check the answer is PASS; otherwise gather starts them all.     *)
Evaluate(v) ==
  /\ entries[v] = Unanswered
  /\ entries' = [entries EXCEPT ![v] = [k \in DOMAIN checks |-> [name |-> checks[k], is |-> Running]]]
  /\ happened' = [happened EXCEPT ![v] = [k \in DOMAIN checks |-> Running]]
  /\ health' = IF checks = << >> THEN [health EXCEPT ![v] = Nothing] ELSE health
  /\ UNCHANGED checks

Evaluating(v) == entries[v] # Unanswered /\ health[v] = Unanswered
Unfinished(v, k) ==
  Evaluating(v) /\ k \in DOMAIN entries[v] /\ entries[v][k].is \in {Running, Cancelling}

CheckEnds(v, k, how, entry) ==
  /\ entries' = [entries EXCEPT ![v][k].is = entry]
  /\ happened' = [happened EXCEPT ![v][k] = how]
  /\ UNCHANGED <<checks, health>>

(* A result counts even when it comes after the timer has fired.           *)
CheckReturns(v, k, status) == Unfinished(v, k) /\ CheckEnds(v, k, status, status)
CheckRaises(v, k) == Unfinished(v, k) /\ CheckEnds(v, k, "raised", FAIL)

(* wait_for cancels the check and waits for it to end.                     *)
TimerFires(v, k) == Unfinished(v, k) /\ entries[v][k].is = Running /\ CheckEnds(v, k, Running, Cancelling)
CheckTimesOut(v, k) == Unfinished(v, k) /\ entries[v][k].is = Cancelling /\ CheckEnds(v, k, "timed out", FAIL)

(* CancelledError is no Exception: raised by a check, or because the       *)
(* request is cancelled, it passes gather and there is no answer.          *)
CheckCancelled(v, k) ==
  /\ Unfinished(v, k)
  /\ health' = [health EXCEPT ![v] = Cancelled]
  /\ UNCHANGED <<checks, entries, happened>>

(* Mutant: FAIL does not outrank WARN.                                     *)
WorstIsWarn(results) ==
  CHOOSE s \in {results[n] : n \in DOMAIN results} :
    WARN \in {results[n] : n \in DOMAIN results} => s = WARN

(* Of two checks with one name the later replaces the earlier in the dict. *)
ResultsByName(v) ==
  LET named(n) == {k \in DOMAIN entries[v] : entries[v][k].name = n}
      Of(n) == CHOOSE k \in named(n) : \A j \in named(n) : j <= k
  IN  [n \in {entries[v][k].name : k \in DOMAIN entries[v]} |-> entries[v][Of(n)].is]
Worst(results) ==
  LET given == {results[n] : n \in DOMAIN results}
  IN  CHOOSE s \in given : \A other \in given : Severity[other] <= Severity[s]

(* Mutant: waits for the checks that run out of time to answer as well.    *)
CombineAnswers(v) ==
  /\ Evaluating(v)
  /\ \A k \in DOMAIN entries[v] : happened[v][k] \in Status \cup {"raised"}
  /\ Responds(v, Worst(ResultsByName(v)), ResultsByName(v))
  /\ UNCHANGED <<checks, entries, happened>>

Combine(v) ==
  /\ Evaluating(v)
  /\ \A k \in DOMAIN entries[v] : ~Unfinished(v, k)
  /\ Responds(v, Worst(ResultsByName(v)), ResultsByName(v))
  /\ UNCHANGED <<checks, entries, happened>>

HealthStep(v) ==
  \/ Combine(v)
  \/ \E k \in 1 .. MaxChecks :
       \/ CheckRaises(v, k) \/ TimerFires(v, k) \/ CheckTimesOut(v, k)
       \/ \E status \in Status : CheckReturns(v, k, status)

HealthNext ==
  \/ \E name \in CheckName : AddHealthCheck(name)
  \/ \E v \in Visit : \/ Evaluate(v) \/ HealthStep(v)
                      \/ \E k \in 1 .. MaxChecks : CheckCancelled(v, k)

(* Timers fire, and checks end when they are cancelled.                    *)
HealthFairness == \A v \in Visit : WF_healthVars(HealthStep(v))

HealthSpec == HealthInit /\ [][HealthNext]_healthVars /\ HealthFairness

------------------------------------------------------------------------------
Answered(v) == health[v] \notin {Unanswered, Cancelled}
Ended(v) == {happened[v][k] : k \in DOMAIN happened[v]}
NamesDiffer(v) ==
  \A j, k \in DOMAIN entries[v] : entries[v][j].name = entries[v][k].name => j = k

IsWorst(v) ==
  /\ health[v].http = 503 <=> Ended(v) \cap {FAIL, "raised", "timed out"} # {}
  /\ health[v].http = 200 => (health[v].status = WARN <=> WARN \in Ended(v))

(* While the names of the checks differ, the answer is 503 exactly when    *)
(* some check failed, raised or ran out of time, and its status is the     *)
(* worst there was (HealthService: "fail > warn > pass").                  *)
WorstStatusWins == \A v \in Visit : Answered(v) /\ NamesDiffer(v) => IsWorst(v)

(* A visit ends, whichever checks are slow.                                *)
EvaluationEnds == \A v \in Visit : Evaluating(v) ~> health[v] # Unanswered
==============================================================================
