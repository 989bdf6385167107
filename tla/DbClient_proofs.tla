-------------------------- MODULE DbClient_proofs --------------------------
(***************************************************************************)
(* For any number of callers, sessions and nested calls: LeasesAccounted,  *)
(* and the spans form a tree (SpanTree).                                   *)
(*                                                                         *)
(* A step touches the top of one caller's stack only.  What it may do to   *)
(* the leases is one of four things: nothing, take a free session, give    *)
(* one back, lose one; LeaseStep says that each keeps the account.  That a *)
(* call which returns early holds nothing is Unleased.                     *)
(***************************************************************************)
EXTENDS DbClient, SequenceTheorems, TLAPS

CallsOK ==
  /\ calls \in [Caller -> Seq(ActiveCall)]
  /\ out \subseteq Session /\ lost \subseteq Session

HoldsNothing(f) ==
  /\ f.stage = "acquire" => f.lease = {} /\ f.op # "inner"
  /\ f.op = "inner" => f.lease = {}

Unleased == \A c \in Caller : \A i \in 1 .. Len(calls[c]) : HoldsNothing(calls[c][i])

LeaseInv == CallsOK /\ Unleased /\ LeasesAccounted

LeaseAt(s, i) == IF i \in 1 .. Len(s) THEN s[i].lease ELSE {}

LEMMA LeaseStep ==
  ASSUME LeaseInv, NEW c \in Caller, NEW k \in Nat,
         calls' \in [Caller -> Seq(ActiveCall)],
         \A d \in Caller : d # c => calls'[d] = calls[d],
         Len(calls[c]) \in {k, k + 1}, Len(calls'[c]) \in {k, k + 1},
         \A i \in 1 .. k : calls'[c][i] = calls[c][i],
         NEW old, old = LeaseAt(calls[c], k + 1),
         NEW new, new = LeaseAt(calls'[c], k + 1),
         \/ new = old /\ out' = out /\ lost' = lost
         \/ old = {} /\ new \cap out = {} /\ out' = out \cup new /\ lost' = lost
         \/ new = {} /\ out' = out \ old /\ lost' = lost
         \/ new = {} /\ out' = out /\ lost' = lost \cup old
  PROVE  LeasesAccounted'
<1>. DEFINE n == k + 1
<1>1. k \in Nat /\ n \in Nat /\ n \notin 1 .. k
  OBVIOUS
<1>2. \A d \in Caller : Len(calls[d]) \in Nat /\ Len(calls'[d]) \in Nat
  BY DEF LeaseInv, CallsOK
<1>3. \A s \in Session, d \in Caller, i \in Nat :
        (d # c \/ i # n) =>
          ((i \in 1 .. Len(calls[d]) /\ HeldBy(d, i, s)) <=> (i \in 1 .. Len(calls'[d]) /\ HeldBy(d, i, s)'))
  <2>. SUFFICES ASSUME NEW s \in Session, NEW d \in Caller, NEW i \in Nat, d # c \/ i # n
                PROVE  (i \in 1 .. Len(calls[d]) /\ HeldBy(d, i, s))
                          <=> (i \in 1 .. Len(calls'[d]) /\ HeldBy(d, i, s)')
    OBVIOUS
  <2>1. CASE d # c
    BY <2>1 DEF HeldBy
  <2>2. CASE d = c
    <3>1. i \in 1 .. Len(calls[c]) <=> i \in 1 .. k
      BY <2>2, <1>2
    <3>2. i \in 1 .. Len(calls'[c]) <=> i \in 1 .. k
      BY <2>2, <1>2
    <3>. QED
      BY <2>2, <3>1, <3>2 DEF HeldBy
  <2>. QED
    BY <2>1, <2>2
<1>4. \A s : s \in old <=> n \in 1 .. Len(calls[c]) /\ HeldBy(c, n, s)
  BY DEF LeaseAt, HeldBy
<1>5. \A s : s \in new <=> n \in 1 .. Len(calls'[c]) /\ HeldBy(c, n, s)'
  BY DEF LeaseAt, HeldBy
<1>. HIDE DEF n
<1>. DEFINE H(d, i, s) == i \in 1 .. Len(calls[d]) /\ HeldBy(d, i, s)
            G(d, i, s) == i \in 1 .. Len(calls'[d]) /\ HeldBy(d, i, s)'
<1>6. \A s \in Session, d \in Caller, i \in Nat : (d # c \/ i # n) => (H(d, i, s) <=> G(d, i, s))
  BY <1>3
<1>7. \A s : (s \in old <=> H(c, n, s)) /\ (s \in new <=> G(c, n, s))
  BY <1>4, <1>5
<1>8. \A s \in Session :
        /\ s \in out <=> s \in lost \/ \E d \in Caller : \E i \in Nat : H(d, i, s)
        /\ \A d, e \in Caller, i, j \in Nat : H(d, i, s) /\ H(e, j, s) => d = e /\ i = j
        /\ s \in lost => \A d \in Caller : \A i \in Nat : ~H(d, i, s)
  BY <1>2 DEF LeaseInv, LeasesAccounted
<1>. SUFFICES ASSUME NEW s \in Session
              PROVE  /\ s \in out' <=> s \in lost' \/ \E d \in Caller : \E i \in Nat : G(d, i, s)
                     /\ \A d, e \in Caller, i, j \in Nat : G(d, i, s) /\ G(e, j, s) => d = e /\ i = j
                     /\ s \in lost' => \A d \in Caller : \A i \in Nat : ~G(d, i, s)
  BY <1>2 DEF LeasesAccounted
<1>. HIDE DEF H, G
<1>. QED
  BY <1>1, <1>6, <1>7, <1>8

------------------------------------------------------------------------------
(* What the operations on the stack of calls do to it.                     *)

Kept(c, k) ==
  /\ calls' \in [Caller -> Seq(ActiveCall)]
  /\ \A d \in Caller : d # c => calls'[d] = calls[d]
  /\ Len(calls[c]) \in {k, k + 1} /\ Len(calls'[c]) \in {k, k + 1}
  /\ \A i \in 1 .. k : calls'[c][i] = calls[c][i]

LEMMA PushShape ==
  ASSUME CallsOK, NEW c \in Caller, NEW f \in ActiveCall, Push(c, f)
  PROVE  /\ Len(calls[c]) \in Nat /\ Kept(c, Len(calls[c]))
         /\ Len(calls'[c]) = Len(calls[c]) + 1 /\ calls'[c][Len(calls[c]) + 1] = f
<1>1. calls[c] \in Seq(ActiveCall) /\ calls'[c] = Append(calls[c], f)
  BY DEF CallsOK, Push
<1>2. /\ Append(calls[c], f) \in Seq(ActiveCall)
      /\ Len(Append(calls[c], f)) = Len(calls[c]) + 1
      /\ \A i \in 1 .. Len(calls[c]) : Append(calls[c], f)[i] = calls[c][i]
      /\ Append(calls[c], f)[Len(calls[c]) + 1] = f
  BY <1>1, AppendProperties
<1>3. Len(calls[c]) \in Nat
  BY <1>1, LenProperties
<1>. QED
  BY <1>1, <1>2, <1>3 DEF Kept, CallsOK, Push

LEMMA TopShape ==
  ASSUME CallsOK, NEW c \in Caller, calls[c] # << >>
  PROVE  /\ Len(calls[c]) \in Nat \ {0} /\ LastCall(c) \in ActiveCall
         /\ LastCall(c).lease \subseteq Session
<1>1. calls[c] \in Seq(ActiveCall)
  BY DEF CallsOK
<1>2. Len(calls[c]) \in Nat \ {0}
  BY <1>1, EmptySeq, LenProperties
<1>3. LastCall(c) \in ActiveCall
  BY <1>1, <1>2, ElementOfSeq DEF LastCall
<1>. QED
  BY <1>2, <1>3 DEF ActiveCall

LEMMA PopShape ==
  ASSUME CallsOK, NEW c \in Caller, calls[c] # << >>, Pop(c)
  PROVE  Kept(c, Len(calls[c]) - 1) /\ Len(calls'[c]) = Len(calls[c]) - 1
<1>. DEFINE n == Len(calls[c]) - 1
<1>1. calls[c] \in Seq(ActiveCall) /\ calls'[c] = SubSeq(calls[c], 1, n)
  BY DEF CallsOK, Pop
<1>2. Len(calls[c]) \in Nat \ {0} /\ n \in Nat /\ n <= Len(calls[c]) /\ n + 1 = Len(calls[c])
  BY TopShape
<1>3. /\ SubSeq(calls[c], 1, n) \in Seq(ActiveCall) /\ Len(SubSeq(calls[c], 1, n)) = n
      /\ \A i \in 1 .. n : SubSeq(calls[c], 1, n)[i] = calls[c][i]
  BY <1>1, <1>2, SubSeqProperties
<1>. HIDE DEF n
<1>4. Kept(c, n) /\ Len(calls'[c]) = n
  BY <1>1, <1>2, <1>3 DEF Kept, CallsOK, Pop
<1>. QED
  BY <1>4 DEF n

LEMMA BecomeShape ==
  ASSUME CallsOK, NEW c \in Caller, calls[c] # << >>, NEW f \in ActiveCall, Become(c, f)
  PROVE  /\ Kept(c, Len(calls[c]) - 1) /\ Len(calls'[c]) = Len(calls[c])
         /\ calls'[c][Len(calls[c])] = f
<1>. DEFINE n == Len(calls[c]) - 1
            s == SubSeq(calls[c], 1, n)
<1>1. calls[c] \in Seq(ActiveCall) /\ calls'[c] = Append(s, f)
  BY DEF CallsOK, Become
<1>2. Len(calls[c]) \in Nat \ {0} /\ n \in Nat /\ n <= Len(calls[c]) /\ n + 1 = Len(calls[c])
  BY TopShape
<1>3. s \in Seq(ActiveCall) /\ Len(s) = n /\ \A i \in 1 .. n : s[i] = calls[c][i]
  BY <1>1, <1>2, SubSeqProperties
<1>4. Become(c, f) => calls' = [calls EXCEPT ![c] = Append(s, f)]
  BY DEF Become
<1>. HIDE DEF s
<1>5. /\ Append(s, f) \in Seq(ActiveCall) /\ Len(Append(s, f)) = n + 1
      /\ \A i \in 1 .. n : Append(s, f)[i] = s[i]
      /\ Append(s, f)[n + 1] = f
  BY <1>3, AppendProperties
<1>. HIDE DEF n
<1>6. Kept(c, n) /\ Len(calls'[c]) = n + 1 /\ calls'[c][n + 1] = f
  BY <1>1, <1>2, <1>3, <1>4, <1>5 DEF Kept, CallsOK
<1>. QED
  BY <1>2, <1>6 DEF n

(* The two parts of the invariant beside the account.                      *)
LEMMA KeptUnleased ==
  ASSUME LeaseInv, NEW c \in Caller, NEW k \in Nat, Kept(c, k),
         Len(calls'[c]) = k + 1 => HoldsNothing(calls'[c][k + 1])
  PROVE  Unleased'
<1>. SUFFICES ASSUME NEW d \in Caller, NEW i \in 1 .. Len(calls'[d])
              PROVE  HoldsNothing(calls'[d][i])
  BY DEF Unleased
<1>1. CASE d # c
  BY <1>1 DEF LeaseInv, Unleased, Kept
<1>2. CASE d = c /\ i \in 1 .. k
  BY <1>2 DEF LeaseInv, Unleased, Kept
<1>3. CASE d = c /\ i \notin 1 .. k
  BY <1>3 DEF Kept
<1>. QED
  BY <1>1, <1>2, <1>3

------------------------------------------------------------------------------
(* The three kinds of step: a call begins, changes its stage, or ends.     *)

LEMMA BeginInv ==
  ASSUME LeaseInv, NEW c \in Caller, NEW f \in ActiveCall, f.lease = {}, HoldsNothing(f), Push(c, f),
         UNCHANGED <<out, lost>>
  PROVE  LeaseInv'
<1>. DEFINE k == Len(calls[c])
<1>1. k \in Nat /\ Kept(c, k) /\ Len(calls'[c]) = k + 1 /\ calls'[c][k + 1] = f
  BY PushShape DEF LeaseInv
<1>2. LeaseAt(calls[c], k + 1) = {} /\ LeaseAt(calls'[c], k + 1) = {}
  BY <1>1 DEF LeaseAt
<1>. HIDE DEF k
<1>3. LeasesAccounted'
  BY <1>1, <1>2, LeaseStep DEF Kept
<1>4. Unleased'
  BY <1>1, KeptUnleased
<1>. QED
  BY <1>1, <1>3, <1>4 DEF LeaseInv, CallsOK, Kept

LEMMA ChangeInv ==
  ASSUME LeaseInv, NEW c \in Caller, calls[c] # << >>, NEW f \in ActiveCall, Become(c, f),
         HoldsNothing(f),
         \/ f.lease = LastCall(c).lease /\ out' = out
         \/ LastCall(c).lease = {} /\ f.lease \cap out = {} /\ out' = out \cup f.lease,
         lost' = lost
  PROVE  LeaseInv'
<1>. DEFINE k == Len(calls[c]) - 1
<1>1. k \in Nat /\ k + 1 = Len(calls[c])
  BY TopShape DEF LeaseInv
<1>2. Kept(c, k) /\ Len(calls'[c]) = k + 1 /\ calls'[c][k + 1] = f
  BY <1>1, BecomeShape DEF LeaseInv
<1>3. LeaseAt(calls[c], k + 1) = LastCall(c).lease /\ LeaseAt(calls'[c], k + 1) = f.lease
  BY <1>1, <1>2 DEF LeaseAt, LastCall
<1>. DEFINE old == LeaseAt(calls[c], k + 1)
            new == LeaseAt(calls'[c], k + 1)
<1>4. LeasesAccounted'
  <2>1. \/ new = old /\ out' = out
        \/ old = {} /\ new \cap out = {} /\ out' = out \cup new
    BY <1>3
  <2>. HIDE DEF k
  <2>2. /\ calls' \in [Caller -> Seq(ActiveCall)]
        /\ \A d \in Caller : d # c => calls'[d] = calls[d]
        /\ Len(calls[c]) \in {k, k + 1} /\ Len(calls'[c]) \in {k, k + 1}
        /\ \A i \in 1 .. k : calls'[c][i] = calls[c][i]
    BY <1>2 DEF Kept
  <2>. HIDE DEF old, new
  <2>3. old = LeaseAt(calls[c], k + 1) /\ new = LeaseAt(calls'[c], k + 1)
    BY DEF old, new
  <2>. QED
    BY <1>1, <2>1, <2>2, <2>3, LeaseStep
<1>5. Unleased'
  BY <1>1, <1>2, KeptUnleased
<1>6. f.lease \subseteq Session
  BY DEF ActiveCall
<1>. QED
  BY <1>2, <1>4, <1>5, <1>6 DEF LeaseInv, CallsOK, Kept

LEMMA EndInv ==
  ASSUME LeaseInv, NEW c \in Caller, calls[c] # << >>, Pop(c),
         \/ LastCall(c).lease = {} /\ out' = out /\ lost' = lost
         \/ out' = out \ LastCall(c).lease /\ lost' = lost
         \/ out' = out /\ lost' = lost \cup LastCall(c).lease
  PROVE  LeaseInv'
<1>. DEFINE k == Len(calls[c]) - 1
<1>1. k \in Nat /\ k + 1 = Len(calls[c]) /\ LastCall(c).lease \subseteq Session
  BY TopShape DEF LeaseInv
<1>2. Kept(c, k) /\ Len(calls'[c]) = k
  BY <1>1, PopShape DEF LeaseInv
<1>3. LeaseAt(calls[c], k + 1) = LastCall(c).lease /\ LeaseAt(calls'[c], k + 1) = {}
  BY <1>1, <1>2 DEF LeaseAt, LastCall
<1>. HIDE DEF k
<1>4. LeasesAccounted'
  BY <1>1, <1>2, <1>3, LeaseStep DEF Kept
<1>5. Unleased'
  BY <1>1, <1>2, KeptUnleased
<1>. QED
  BY <1>1, <1>2, <1>4, <1>5 DEF LeaseInv, CallsOK, Kept

(* A call that is being connected, and one inside a transaction, holds     *)
(* nothing.                                                                *)
LEMMA TopHoldsNothing ==
  ASSUME LeaseInv, NEW c \in Caller, calls[c] # << >>
  PROVE  HoldsNothing(LastCall(c))
<1>1. Len(calls[c]) \in 1 .. Len(calls[c])
  BY TopShape DEF LeaseInv
<1>. QED
  BY <1>1 DEF LeaseInv, Unleased, LastCall

------------------------------------------------------------------------------
(* Spans: parents and current spans are spans of the same caller, and a    *)
(* call of a sampled caller has one.                                       *)

TraceOK(t) == t \in Seq(Span) /\ \A i \in 1 .. Len(t) : t[i].parent \in 0 .. Len(t)

SpanInv ==
  /\ spans \in [Caller -> Seq(Span)]
  /\ \A c \in Caller : TraceOK(spans[c])
  /\ current \in [Caller -> Nat]
  /\ \A c \in Caller : current[c] \in 0 .. Len(spans[c])
  /\ \A c \in Sampled : \A k \in 1 .. Len(calls[c]) : calls[c][k].span \in 1 .. Len(spans[c])

LEMMA StartedOK ==
  ASSUME SpanInv, NEW c \in Caller, NEW t \in Seq(Span), TraceOK(t),
         Len(t) = Len(spans[c])
  PROVE  /\ TraceOK(DbSpanStarted(c, t))
         /\ Len(DbSpanStarted(c, t)) = IF c \in Sampled THEN Len(t) + 1 ELSE Len(t)
         /\ NewSpan(c, t) \in Nat
         /\ c \in Sampled => NewSpan(c, t) \in 1 .. Len(DbSpanStarted(c, t))
<1>. DEFINE new == [parent |-> current[c], state |-> "open", error |-> FALSE]
<1>1. Len(t) \in Nat /\ current[c] \in 0 .. Len(t)
  BY LenProperties DEF SpanInv
<1>2. new \in Span /\ new.parent = current[c]
  BY <1>1 DEF Span
<1>. HIDE DEF new
<1>3. /\ Append(t, new) \in Seq(Span) /\ Len(Append(t, new)) = Len(t) + 1
      /\ \A i \in 1 .. Len(t) : Append(t, new)[i] = t[i]
      /\ Append(t, new)[Len(t) + 1] = new
  BY <1>2, AppendProperties
<1>4. DbSpanStarted(c, t) = IF c \in Sampled THEN Append(t, new) ELSE t
  BY DEF DbSpanStarted, new
<1>5. TraceOK(Append(t, new))
  <2>. SUFFICES ASSUME NEW i \in 1 .. Len(t) + 1
                PROVE  Append(t, new)[i].parent \in 0 .. Len(t) + 1
    BY <1>3 DEF TraceOK
  <2>1. CASE i \in 1 .. Len(t)
    BY <2>1, <1>1, <1>3 DEF TraceOK
  <2>2. CASE i = Len(t) + 1
    BY <2>2, <1>1, <1>2, <1>3
  <2>. QED
    BY <1>1, <2>1, <2>2
<1>. QED
  BY <1>1, <1>3, <1>4, <1>5 DEF NewSpan

(* Ending or abandoning a span changes no parent and no length.            *)
LEMMA ChangedOK ==
  ASSUME NEW t, TraceOK(t), NEW u, u \in Seq(Span), Len(u) = Len(t),
         \A i \in 1 .. Len(t) : u[i].parent = t[i].parent
  PROVE  TraceOK(u)
BY DEF TraceOK

LEMMA EndedOK ==
  ASSUME NEW c \in Caller, NEW t, TraceOK(t), NEW failed \in BOOLEAN
  PROVE  TraceOK(SpanEnded(c, t, failed)) /\ Len(SpanEnded(c, t, failed)) = Len(t)
<1>. DEFINE e(i) == IF i = LastCall(c).span THEN [t[i] EXCEPT !.state = "ended", !.error = failed]
                                       ELSE t[i]
            u == [i \in 1 .. Len(t) |-> e(i)]
<1>1. Len(t) \in Nat /\ \A i \in 1 .. Len(t) : t[i] \in Span
  BY LenProperties, ElementOfSeq DEF TraceOK
<1>2. \A i \in 1 .. Len(t) : e(i) \in Span /\ e(i).parent = t[i].parent
  BY <1>1 DEF Span
<1>. HIDE DEF e
<1>3. u \in Seq(Span) /\ Len(u) = Len(t) /\ \A i \in 1 .. Len(t) : u[i] = e(i)
  BY <1>1, <1>2, IsASeq
<1>4. SpanEnded(c, t, failed) = u
  BY DEF SpanEnded, u, e
<1>. HIDE DEF u
<1>. QED
  BY <1>2, <1>3, <1>4, ChangedOK

LEMMA AbandonedOK ==
  ASSUME NEW c \in Caller, NEW t, TraceOK(t)
  PROVE  TraceOK(SpanAbandoned(c, t)) /\ Len(SpanAbandoned(c, t)) = Len(t)
<1>. DEFINE wrong == LastCall(c).op = "transaction" /\ LastCall(c).stage = "work"
            e(i) == IF i = LastCall(c).span /\ t[i].state = "open"
                      THEN [t[i] EXCEPT !.state = "abandoned", !.error = wrong]
                      ELSE t[i]
            u == [i \in 1 .. Len(t) |-> e(i)]
<1>1. Len(t) \in Nat /\ \A i \in 1 .. Len(t) : t[i] \in Span
  BY LenProperties, ElementOfSeq DEF TraceOK
<1>2. wrong \in BOOLEAN
  OBVIOUS
<1>3. SpanAbandoned(c, t) = u
  BY DEF SpanAbandoned
<1>. HIDE DEF wrong
<1>4. \A i \in 1 .. Len(t) : e(i) \in Span /\ e(i).parent = t[i].parent
  BY <1>1, <1>2 DEF Span
<1>. HIDE DEF e
<1>5. u \in Seq(Span) /\ Len(u) = Len(t) /\ \A i \in 1 .. Len(t) : u[i] = e(i)
  BY <1>1, <1>4, IsASeq
<1>. HIDE DEF u
<1>. QED
  BY <1>3, <1>4, <1>5, ChangedOK

LEMMA SpanStep ==
  ASSUME SpanInv, NEW c \in Caller, NEW k \in Nat, Kept(c, k),
         NEW t, TraceOK(t), Len(t) >= Len(spans[c]), spans' = [spans EXCEPT ![c] = t],
         NEW now \in 0 .. Len(t), current' = [current EXCEPT ![c] = now],
         c \in Sampled /\ Len(calls'[c]) = k + 1 => calls'[c][k + 1].span \in 1 .. Len(t)
  PROVE  SpanInv'
<1>1. Len(spans[c]) \in Nat /\ Len(t) \in Nat
  BY LenProperties DEF SpanInv, TraceOK
<1>2. /\ spans' \in [Caller -> Seq(Span)] /\ spans'[c] = t
      /\ \A d \in Caller : d # c => spans'[d] = spans[d]
  BY DEF SpanInv, TraceOK
<1>3. /\ current' \in [Caller -> Nat] /\ current'[c] = now
      /\ \A d \in Caller : d # c => current'[d] = current[d]
  BY <1>1 DEF SpanInv
<1>4. \A d \in Caller : TraceOK(spans'[d]) /\ current'[d] \in 0 .. Len(spans'[d])
  BY <1>2, <1>3 DEF SpanInv
<1>5. ASSUME NEW d \in Sampled, NEW j \in 1 .. Len(calls'[d]), d \in Caller
      PROVE  calls'[d][j].span \in 1 .. Len(spans'[d])
  <2>1. CASE d # c
    BY <1>5, <2>1, <1>2 DEF SpanInv, Kept
  <2>2. CASE d = c /\ j \in 1 .. k
    <3>1. calls[c][j].span \in 1 .. Len(spans[c]) /\ calls'[c][j] = calls[c][j]
      BY <1>5, <2>2 DEF SpanInv, Kept
    <3>. QED
      BY <1>1, <1>2, <2>2, <3>1
  <2>3. CASE d = c /\ j \notin 1 .. k
    <3>1. j = k + 1 /\ Len(calls'[c]) = k + 1
      BY <2>3 DEF Kept
    <3>. QED
      BY <1>2, <1>5, <2>3, <3>1
  <2>. QED
    BY <2>1, <2>2, <2>3
<1>. QED
  BY <1>2, <1>3, <1>4, <1>5, DbAssumption DEF SpanInv

------------------------------------------------------------------------------
(* The steps.                                                              *)

DbInv == LeaseInv /\ SpanInv

LEMMA BeginStep ==
  ASSUME DbInv, NEW c \in Caller,
         NEW op \in {"command", "transaction", "inner"}, NEW stage \in {"acquire", "work"},
         op = "inner" => stage = "work",
         Push(c, [op |-> op, stage |-> stage, lease |-> {}, outcome |-> "none",
                  span |-> NewSpan(c, spans[c])]),
         spans' = [spans EXCEPT ![c] = DbSpanStarted(c, @)],
         UNCHANGED <<out, lost, current>>
  PROVE  DbInv'
<1>. DEFINE f == [op |-> op, stage |-> stage, lease |-> {}, outcome |-> "none",
                  span |-> NewSpan(c, spans[c])]
            t == DbSpanStarted(c, spans[c])
            k == Len(calls[c])
<1>1. spans[c] \in Seq(Span) /\ TraceOK(spans[c]) /\ Len(spans[c]) \in Nat
  BY LenProperties DEF DbInv, SpanInv
<1>2. /\ TraceOK(t) /\ Len(t) \in Nat /\ Len(t) >= Len(spans[c])
      /\ NewSpan(c, spans[c]) \in Nat
      /\ c \in Sampled => NewSpan(c, spans[c]) \in 1 .. Len(t)
  BY <1>1, StartedOK DEF DbInv
<1>3. f \in ActiveCall /\ f.lease = {} /\ HoldsNothing(f) /\ f.span = NewSpan(c, spans[c])
  BY <1>2 DEF ActiveCall, HoldsNothing
<1>4. Push(c, f) /\ spans' = [spans EXCEPT ![c] = t]
  OBVIOUS
<1>. HIDE DEF f, t
<1>5. LeaseInv'
  BY <1>3, <1>4, BeginInv DEF DbInv
<1>6. k \in Nat /\ Kept(c, k) /\ Len(calls'[c]) = k + 1 /\ calls'[c][k + 1] = f
  BY <1>3, <1>4, PushShape DEF DbInv, LeaseInv
<1>7. current[c] \in 0 .. Len(t) /\ current' = [current EXCEPT ![c] = current[c]]
  BY <1>1, <1>2 DEF DbInv, SpanInv
<1>. HIDE DEF k
<1>8. c \in Sampled /\ Len(calls'[c]) = k + 1 => calls'[c][k + 1].span \in 1 .. Len(t)
  BY <1>2, <1>3, <1>6
<1>9. SpanInv'
  <2>. DEFINE now == current[c]
  <2>1. now \in 0 .. Len(t) /\ current' = [current EXCEPT ![c] = now]
    BY <1>7
  <2>. HIDE DEF now
  <2>. QED
    BY <1>2, <1>4, <1>6, <1>8, <2>1, SpanStep DEF DbInv
<1>. QED
  BY <1>5, <1>9 DEF DbInv

LEMMA AcquiredStep ==
  ASSUME DbInv, NEW c \in Caller, Acquired(c)
  PROVE  DbInv'
<1>1. calls[c] # << >> /\ LastCall(c).stage = "acquire"
  BY DEF Acquired, In
<1>2. LastCall(c) \in ActiveCall /\ LastCall(c).lease = {} /\ LastCall(c).op # "inner"
  BY <1>1, TopShape, TopHoldsNothing DEF DbInv, LeaseInv, HoldsNothing
<1>. DEFINE e == SpanEnded(c, spans[c], FALSE)
            t == DbSpanStarted(c, e)
<1>3. spans[c] \in Seq(Span) /\ TraceOK(spans[c]) /\ Len(spans[c]) \in Nat
  BY LenProperties DEF DbInv, SpanInv
<1>4. TraceOK(e) /\ Len(e) = Len(spans[c])
  BY <1>3, EndedOK
<1>5. spans' = [spans EXCEPT ![c] = t]
  BY DEF Acquired
<1>. HIDE DEF e
<1>6. e \in Seq(Span)
  BY <1>4 DEF TraceOK
<1>7. /\ TraceOK(t) /\ Len(t) = IF c \in Sampled THEN Len(spans[c]) + 1 ELSE Len(spans[c])
      /\ NewSpan(c, spans[c]) \in Nat
      /\ c \in Sampled => NewSpan(c, spans[c]) \in 1 .. Len(t)
  BY <1>3, <1>4, <1>6, StartedOK DEF DbInv, NewSpan
<1>. HIDE DEF t
<1>8. PICK lease \in {{}} \cup {{s} : s \in Session \ out} :
        /\ out' = out \cup lease
        /\ Become(c, [LastCall(c) EXCEPT !.stage = "work", !.lease = lease,
                                    !.span = NewSpan(c, spans[c])])
  BY DEF Acquired
<1>. DEFINE f == [LastCall(c) EXCEPT !.stage = "work", !.lease = lease, !.span = NewSpan(c, spans[c])]
            k == Len(calls[c]) - 1
<1>9. lease \subseteq Session /\ lease \cap out = {}
  BY <1>8
<1>10. f \in ActiveCall /\ f.lease = lease /\ HoldsNothing(f) /\ f.span = NewSpan(c, spans[c])
  BY <1>2, <1>7, <1>9 DEF ActiveCall, HoldsNothing
<1>11. Become(c, f)
  BY <1>8
<1>. HIDE DEF f
<1>12. LeaseInv'
  BY <1>1, <1>2, <1>8, <1>9, <1>10, <1>11, ChangeInv DEF DbInv, Acquired
<1>13. k \in Nat /\ k + 1 = Len(calls[c])
  BY <1>1, TopShape DEF DbInv, LeaseInv
<1>14. Kept(c, k) /\ calls'[c][k + 1] = f
  BY <1>1, <1>10, <1>11, <1>13, BecomeShape DEF DbInv, LeaseInv
<1>15. PICK now \in 0 .. Len(t) : current' = [current EXCEPT ![c] = now]
  <2>1. CASE LastCall(c).op = "transaction" /\ c \in Sampled
    <3>1. current' = [current EXCEPT ![c] = Len(spans[c]) + 1]
      BY <2>1 DEF Acquired
    <3>2. Len(spans[c]) + 1 \in 0 .. Len(t)
      BY <2>1, <1>3, <1>7
    <3>. QED
      BY <3>1, <3>2
  <2>2. CASE ~(LastCall(c).op = "transaction" /\ c \in Sampled)
    <3>1. current' = [current EXCEPT ![c] = current[c]]
      BY <2>2 DEF Acquired, DbInv, SpanInv
    <3>2. current[c] \in 0 .. Len(t)
      BY <1>3, <1>7 DEF DbInv, SpanInv
    <3>. QED
      BY <3>1, <3>2
  <2>. QED
    BY <2>1, <2>2
<1>. HIDE DEF k
<1>16. Len(t) >= Len(spans[c])
  BY <1>3, <1>7
<1>17. SpanInv'
  BY <1>5, <1>7, <1>10, <1>13, <1>14, <1>15, <1>16, SpanStep DEF DbInv
<1>. QED
  BY <1>12, <1>17 DEF DbInv

(* The current span after `with use_span` is one of the caller's.          *)
LEMMA RestoredOK ==
  ASSUME DbInv, NEW c \in Caller, calls[c] # << >>,
         Restored(c) \/ UNCHANGED current
  PROVE  \E now \in 0 .. Len(spans[c]) : current' = [current EXCEPT ![c] = now]
<1>1. current[c] \in 0 .. Len(spans[c]) /\ current = [current EXCEPT ![c] = current[c]]
  BY DEF DbInv, SpanInv
<1>2. c \in Sampled => spans[c][LastCall(c).span].parent \in 0 .. Len(spans[c])
  <2>. SUFFICES ASSUME c \in Sampled PROVE spans[c][LastCall(c).span].parent \in 0 .. Len(spans[c])
    OBVIOUS
  <2>1. Len(calls[c]) \in 1 .. Len(calls[c])
    BY TopShape DEF DbInv, LeaseInv
  <2>2. LastCall(c).span \in 1 .. Len(spans[c])
    BY <2>1 DEF DbInv, SpanInv, LastCall
  <2>. QED
    BY <2>2 DEF DbInv, SpanInv, TraceOK
<1>. QED
  BY <1>1, <1>2 DEF Restored

(* The innermost call of c ends, or goes on to its release.                *)
LEMMA OngoingSpans ==
  ASSUME DbInv, NEW c \in Caller, calls[c] # << >>,
         NEW k, k = Len(calls[c]) - 1, Kept(c, k),
         Len(calls'[c]) = k + 1 => calls'[c][k + 1].span = LastCall(c).span,
         NEW t, TraceOK(t), Len(t) = Len(spans[c]), spans' = [spans EXCEPT ![c] = t],
         Restored(c) \/ UNCHANGED current
  PROVE  SpanInv'
<1>1. PICK now \in 0 .. Len(spans[c]) : current' = [current EXCEPT ![c] = now]
  BY RestoredOK
<1>2. k \in Nat /\ Len(calls[c]) \in 1 .. Len(calls[c]) /\ Len(t) \in Nat
  BY TopShape, LenProperties DEF DbInv, LeaseInv, TraceOK
<1>3. c \in Sampled => LastCall(c).span \in 1 .. Len(spans[c])
  BY <1>2 DEF DbInv, SpanInv, LastCall
<1>4. c \in Sampled /\ Len(calls'[c]) = k + 1 => calls'[c][k + 1].span \in 1 .. Len(t)
  BY <1>3
<1>5. now \in 0 .. Len(t) /\ Len(t) >= Len(spans[c])
  BY <1>2
<1>. QED
  BY <1>1, <1>2, <1>4, <1>5, SpanStep DEF DbInv

LEMMA EndStep ==
  ASSUME DbInv, NEW c \in Caller, calls[c] # << >>, Pop(c),
         \/ LastCall(c).lease = {} /\ out' = out /\ lost' = lost
         \/ out' = out \ LastCall(c).lease /\ lost' = lost
         \/ out' = out /\ lost' = lost \cup LastCall(c).lease,
         NEW t, TraceOK(t), Len(t) = Len(spans[c]), spans' = [spans EXCEPT ![c] = t],
         Restored(c) \/ UNCHANGED current
  PROVE  DbInv'
<1>. DEFINE k == Len(calls[c]) - 1
<1>1. LeaseInv'
  BY EndInv DEF DbInv
<1>2. Kept(c, k) /\ Len(calls'[c]) = k /\ k \in Nat
  BY PopShape, TopShape DEF DbInv, LeaseInv
<1>. HIDE DEF k
<1>3. Len(calls'[c]) # k + 1
  BY <1>2
<1>4. k = Len(calls[c]) - 1
  BY DEF k
<1>5. SpanInv'
  BY <1>2, <1>3, <1>4, OngoingSpans
<1>. QED
  BY <1>1, <1>5 DEF DbInv

LEMMA TraceFacts ==
  ASSUME DbInv, NEW c \in Caller
  PROVE  /\ TraceOK(spans[c])
         /\ spans = [spans EXCEPT ![c] = spans[c]]
BY DEF DbInv, SpanInv

LEMMA AcquireFailsStep ==
  ASSUME DbInv, NEW c \in Caller, AcquireFails(c)
  PROVE  DbInv'
<1>1. calls[c] # << >> /\ LastCall(c).stage = "acquire" /\ Pop(c) /\ UNCHANGED <<out, lost, current>>
  BY DEF AcquireFails, In
<1>2. LastCall(c).lease = {}
  BY <1>1, TopHoldsNothing DEF DbInv, HoldsNothing
<1>. DEFINE t == SpanEnded(c, spans[c], TRUE)
<1>3. TraceOK(t) /\ Len(t) = Len(spans[c])
  BY TraceFacts, EndedOK
<1>4. spans' = [spans EXCEPT ![c] = t]
  BY DEF AcquireFails
<1>. HIDE DEF t
<1>. QED
  BY <1>1, <1>2, <1>3, <1>4, EndStep

LEMMA WorkEndsStep ==
  ASSUME DbInv, NEW c \in Caller, NEW outcome \in {"ok", "failed"}, WorkEnds(c, outcome)
  PROVE  DbInv'
<1>1. calls[c] # << >> /\ LastCall(c).stage = "work" /\ Restored(c) /\ UNCHANGED <<out, lost>>
  BY DEF WorkEnds, In
<1>. DEFINE t == SpanEnded(c, spans[c], outcome = "failed")
<1>2. TraceOK(t) /\ Len(t) = Len(spans[c])
  BY TraceFacts, EndedOK
<1>3. spans' = [spans EXCEPT ![c] = t]
  BY DEF WorkEnds
<1>. HIDE DEF t
<1>4. CASE LastCall(c).op = "inner"
  <2>1. LastCall(c).lease = {} /\ Pop(c)
    BY <1>1, <1>4, TopHoldsNothing DEF DbInv, HoldsNothing, WorkEnds
  <2>. QED
    BY <1>1, <1>2, <1>3, <2>1, EndStep
<1>5. CASE LastCall(c).op # "inner"
  <2>. DEFINE f == [LastCall(c) EXCEPT !.stage = "release", !.outcome = outcome]
              k == Len(calls[c]) - 1
  <2>1. Become(c, f)
    BY <1>5 DEF WorkEnds
  <2>2. f \in ActiveCall /\ f.lease = LastCall(c).lease /\ f.span = LastCall(c).span /\ HoldsNothing(f)
    BY <1>1, <1>5, TopShape DEF DbInv, LeaseInv, ActiveCall, HoldsNothing
  <2>. HIDE DEF f
  <2>3. LeaseInv'
    BY <1>1, <2>1, <2>2, ChangeInv DEF DbInv
  <2>4. Kept(c, k) /\ k + 1 = Len(calls[c]) /\ calls'[c][k + 1] = f /\ k = Len(calls[c]) - 1
    BY <1>1, <2>1, <2>2, BecomeShape, TopShape DEF DbInv, LeaseInv
  <2>. HIDE DEF k
  <2>5. SpanInv'
    BY <1>1, <1>2, <1>3, <2>2, <2>4, OngoingSpans
  <2>. QED
    BY <2>3, <2>5 DEF DbInv
<1>. QED
  BY <1>4, <1>5

LEMMA ReleaseStep ==
  ASSUME DbInv, NEW c \in Caller, Released(c) \/ ReleaseFails(c)
  PROVE  DbInv'
<1>1. /\ calls[c] # << >> /\ Pop(c) /\ UNCHANGED <<spans, current>>
      /\ \/ out' = out \ LastCall(c).lease /\ lost' = lost
         \/ out' = out /\ lost' = lost \cup LastCall(c).lease
  BY DEF Released, ReleaseFails, In
<1>. DEFINE t == spans[c]
<1>2. TraceOK(t) /\ Len(t) = Len(spans[c]) /\ spans' = [spans EXCEPT ![c] = t]
  BY <1>1, TraceFacts
<1>. HIDE DEF t
<1>. QED
  BY <1>1, <1>2, EndStep

LEMMA RaisesStep ==
  ASSUME DbInv, NEW c \in Caller, WorkRaises(c)
  PROVE  DbInv'
<1>1. /\ calls[c] # << >> /\ Pop(c) /\ Restored(c)
      /\ out' = out /\ lost' = lost \cup LastCall(c).lease
  BY DEF WorkRaises
<1>. DEFINE t == SpanAbandoned(c, spans[c])
<1>2. TraceOK(t) /\ Len(t) = Len(spans[c])
  BY TraceFacts, AbandonedOK
<1>3. spans' = [spans EXCEPT ![c] = t]
  BY DEF WorkRaises
<1>. HIDE DEF t
<1>. QED
  BY <1>1, <1>2, <1>3, EndStep

------------------------------------------------------------------------------
Begun == begun \in 0 .. MaxCalls

LEMMA BegunStep ==
  ASSUME Begun, [Next]_vars
  PROVE  Begun'
<1>1. begun < MaxCalls /\ begun' = begun + 1 => Begun'
  BY DbAssumption DEF Begun
<1>2. UNCHANGED begun => Begun'
  BY DEF Begun
<1>. QED
  BY <1>1, <1>2 DEF Next, BeginCall, CallInner, Step, Acquired, AcquireFails, WorkEnds, Released,
                    ReleaseFails, WorkRaises, vars

LEMMA DbInvInit == Init => DbInv /\ Begun
<1>. SUFFICES ASSUME Init PROVE DbInv /\ Begun
  OBVIOUS
<1>1. \A c \in Caller : calls[c] = << >> /\ spans[c] = << >>
  BY DEF Init
<1>2. << >> \in Seq(ActiveCall) /\ << >> \in Seq(Span) /\ Len(<< >>) = 0
  OBVIOUS
<1>3. CallsOK
  BY <1>2 DEF Init, CallsOK
<1>4. Unleased /\ LeasesAccounted
  BY <1>1, <1>2 DEF Init, Unleased, LeasesAccounted
<1>5. SpanInv
  <2>1. TraceOK(<< >>)
    BY <1>2 DEF TraceOK
  <2>. QED
    BY <1>1, <1>2, <2>1, DbAssumption DEF Init, SpanInv
<1>6. Begun
  BY DbAssumption DEF Init, Begun
<1>. QED
  BY <1>3, <1>4, <1>5, <1>6 DEF DbInv, LeaseInv

LEMMA DbInvNext ==
  ASSUME DbInv, [Next]_vars
  PROVE  DbInv'
<1>1. ASSUME NEW c \in Caller, NEW op \in {"command", "transaction"}, BeginCall(c, op)
      PROVE  DbInv'
  <2>. DEFINE stage == "acquire"
  <2>1. Push(c, [op |-> op, stage |-> stage, lease |-> {}, outcome |-> "none",
                 span |-> NewSpan(c, spans[c])])
    BY <1>1 DEF BeginCall
  <2>2. /\ op \in {"command", "transaction", "inner"} /\ op # "inner"
        /\ stage \in {"acquire", "work"}
        /\ spans' = [spans EXCEPT ![c] = DbSpanStarted(c, @)] /\ UNCHANGED <<out, lost, current>>
    BY <1>1 DEF BeginCall
  <2>. HIDE DEF stage
  <2>. QED
    BY <2>1, <2>2, BeginStep
<1>2. ASSUME NEW c \in Caller, CallInner(c)
      PROVE  DbInv'
  <2>. DEFINE op == "inner"
              stage == "work"
  <2>1. Push(c, [op |-> op, stage |-> stage, lease |-> {}, outcome |-> "none",
                 span |-> NewSpan(c, spans[c])])
    BY <1>2 DEF CallInner
  <2>2. /\ op \in {"command", "transaction", "inner"} /\ stage \in {"acquire", "work"}
        /\ stage = "work"
        /\ spans' = [spans EXCEPT ![c] = DbSpanStarted(c, @)] /\ UNCHANGED <<out, lost, current>>
    BY <1>2 DEF CallInner
  <2>. HIDE DEF op, stage
  <2>. QED
    BY <2>1, <2>2, BeginStep
<1>3. ASSUME NEW c \in Caller, Step(c)
      PROVE  DbInv'
  BY <1>3, AcquiredStep, AcquireFailsStep, WorkEndsStep, ReleaseStep, RaisesStep DEF Step
<1>4. CASE UNCHANGED vars
  <2>. USE <1>4 DEF vars
  <2>1. CallsOK' /\ Unleased'
    BY DEF DbInv, LeaseInv, CallsOK, Unleased
  <2>2. LeasesAccounted'
    BY DEF DbInv, LeaseInv, LeasesAccounted, HeldBy
  <2>3. SpanInv'
    BY DEF DbInv, SpanInv
  <2>. QED
    BY <2>1, <2>2, <2>3 DEF DbInv, LeaseInv
<1>. QED
  BY <1>1, <1>2, <1>3, <1>4 DEF Next

(* The stacks, spans and current spans are what their declarations say;    *)
(* in particular a span's parent and a caller's current span exist, so     *)
(* that _TracedTransactionRunner.run always has a span to go back to.      *)
THEOREM DbTypesHold == Spec => []DbTypeOK
<1>1. DbInv /\ Begun => DbTypeOK
  BY DEF DbInv, Begun, LeaseInv, CallsOK, SpanInv, DbTypeOK
<1>2. DbInv /\ Begun /\ [Next]_vars => (DbInv /\ Begun)'
  BY DbInvNext, BegunStep
<1>. QED
  BY <1>1, <1>2, DbInvInit, PTL DEF Spec

(* DbSessionLease and _with_lease: a session that is out belongs to one    *)
(* active call or has been lost to an exception, for any number of         *)
(* threads and sessions and any nesting of transactions.                   *)
THEOREM LeasesAreAccounted == Spec => []LeasesAccounted
<1>1. DbInv => LeasesAccounted
  BY DEF DbInv, LeaseInv
<1>. QED
  BY <1>1, DbInvInit, DbInvNext, PTL DEF Spec

------------------------------------------------------------------------------
(* The tree of spans.  Only the innermost call of a thread is at another   *)
(* step than the body of a transaction; so the parent of a span is the     *)
(* span of the call just outside, and what is current is known from the    *)
(* stack.                                                                  *)

Running(f) == f.op = "transaction" /\ f.stage = "work"

Around(s, k) == IF k = 1 THEN 0 ELSE s[k - 1].span

Ambient(s) ==
  IF Len(s) = 0 THEN 0
  ELSE IF Running(s[Len(s)]) THEN s[Len(s)].span ELSE Around(s, Len(s))

(* What the span of a call says of it.                                     *)
Tells(f, span) ==
  IF f.stage = "release" THEN span.state = "ended" /\ (span.error <=> f.outcome = "failed")
                         ELSE span.state = "open"

Nested(s) ==
  \A k \in 1 .. Len(s) :
    /\ k < Len(s) => Running(s[k])
    /\ \A j \in 1 .. Len(s) : j < k => s[j].span < s[k].span

Branches(s, t) ==
  \A k \in 1 .. Len(s) : /\ s[k].span \in 1 .. Len(t)
                         /\ t[s[k].span].parent = Around(s, k)
                         /\ Tells(s[k], t[s[k].span])

Leafless(s, t) ==
  \A i \in 1 .. Len(t) : t[i].state = "open" =>
    \E k \in 1 .. Len(s) : s[k].span = i /\ s[k].stage # "release"

Tree(s, t) == Nested(s) /\ Branches(s, t) /\ Leafless(s, t)

TreeOf(c) == Tree(calls[c], spans[c]) /\ current[c] = Ambient(calls[c])

TreeInv == DbInv /\ \A c \in Sampled : TreeOf(c)

(* A call begins in the application: its span grows out of the current one. *)
Grows(s, t, s2, t2, n, m) ==
  /\ n \in Nat /\ m \in Nat
  /\ Len(s) = n /\ Len(t) = m /\ Len(s2) = n + 1 /\ Len(t2) = m + 1 /\ Tree(s, t)
  /\ n # 0 => Running(s[n])
  /\ \A k \in 1 .. n : s2[k] = s[k]
  /\ \A i \in 1 .. m : t2[i] = t[i]
  /\ s2[n + 1].span = m + 1 /\ ~Running(s2[n + 1]) /\ s2[n + 1].stage # "release"
  /\ t2[m + 1].parent = Ambient(s) /\ t2[m + 1].state = "open"

LEMMA TreeGrows ==
  ASSUME NEW s, NEW t, NEW s2, NEW t2, NEW n, NEW m, Grows(s, t, s2, t2, n, m)
  PROVE  Tree(s2, t2) /\ Ambient(s2) = Ambient(s)
<1>. USE DEF Grows
<1>1. Ambient(s) = Around(s2, n + 1)
  <2>1. CASE n = 0
    BY <2>1 DEF Ambient, Around
  <2>2. CASE n # 0
    <3>1. n \in 1 .. n /\ n + 1 # 1 /\ (n + 1) - 1 = n
      BY <2>2
    <3>. QED
      BY <2>2, <3>1 DEF Ambient, Around
  <2>. QED
    BY <2>1, <2>2
<1>2. Ambient(s2) = Ambient(s)
  BY <1>1 DEF Ambient
<1>3. \A k \in 1 .. n : s[k].span \in 1 .. m
  BY DEF Tree, Branches
<1>4. Nested(s2)
  <2>1. ASSUME NEW k \in 1 .. n + 1, k < n + 1
        PROVE  Running(s2[k])
    <3>1. k \in 1 .. n /\ (k < n \/ k = n)
      BY <2>1
    <3>. QED
      BY <3>1 DEF Tree, Nested
  <2>2. ASSUME NEW k \in 1 .. n + 1, NEW j \in 1 .. n + 1, j < k
        PROVE  s2[j].span < s2[k].span
    <3>1. j \in 1 .. n /\ (k \in 1 .. n \/ k = n + 1)
      BY <2>2
    <3>2. CASE k \in 1 .. n
      BY <2>2, <3>1, <3>2 DEF Tree, Nested
    <3>3. CASE k = n + 1
      BY <1>3, <3>1, <3>3
    <3>. QED
      BY <3>1, <3>2, <3>3
  <2>. QED
    BY <2>1, <2>2 DEF Nested
<1>5. Branches(s2, t2)
  <2>. SUFFICES ASSUME NEW k \in 1 .. n + 1
                PROVE  /\ s2[k].span \in 1 .. m + 1
                       /\ t2[s2[k].span].parent = Around(s2, k)
                       /\ Tells(s2[k], t2[s2[k].span])
    BY DEF Branches
  <2>1. CASE k \in 1 .. n
    <3>1. /\ s[k].span \in 1 .. m /\ s2[k] = s[k] /\ t2[s[k].span] = t[s[k].span]
          /\ t[s[k].span].parent = Around(s, k) /\ Tells(s[k], t[s[k].span])
      BY <2>1, <1>3 DEF Tree, Branches
    <3>2. Around(s2, k) = Around(s, k)
      BY <2>1 DEF Around
    <3>. QED
      BY <3>1, <3>2
  <2>2. CASE k = n + 1
    BY <2>2, <1>1 DEF Tells
  <2>. QED
    BY <2>1, <2>2
<1>6. Leafless(s2, t2)
  <2>. SUFFICES ASSUME NEW i \in 1 .. m + 1, t2[i].state = "open"
                PROVE  \E k \in 1 .. n + 1 : s2[k].span = i /\ s2[k].stage # "release"
    BY DEF Leafless
  <2>1. CASE i \in 1 .. m
    <3>1. PICK k \in 1 .. n : s[k].span = i /\ s[k].stage # "release"
      BY <2>1 DEF Tree, Leafless
    <3>. QED
      BY <3>1
  <2>2. CASE i = m + 1
    BY <2>2
  <2>. QED
    BY <2>1, <2>2
<1>. QED
  BY <1>2, <1>4, <1>5, <1>6 DEF Tree

(* The innermost call goes on, with the same span or with a later one.     *)
Changes(s, t, s2, t2, n, m, l, x, y) ==
  /\ n \in Nat \ {0} /\ m \in Nat /\ l \in Nat
  /\ Len(s) = n /\ Len(t) = m /\ Len(s2) = n /\ Len(t2) = l /\ l >= m /\ Tree(s, t)
  /\ x = s[n].span /\ y \in 1 .. l /\ y = s2[n].span /\ y >= x
  /\ \A k \in 1 .. n - 1 : s2[k] = s[k]
  /\ \A i \in 1 .. l : i # x /\ i # y => i \in 1 .. m /\ t2[i] = t[i]
  /\ x # y => t2[x].state # "open" /\ y > m
  /\ t2[y].parent = Around(s, n) /\ Tells(s2[n], t2[y])

LEMMA TreeChanges ==
  ASSUME NEW s, NEW t, NEW s2, NEW t2, NEW n, NEW m, NEW l, NEW x, NEW y,
         Changes(s, t, s2, t2, n, m, l, x, y)
  PROVE  Tree(s2, t2) /\ Around(s2, n) = Around(s, n)
<1>. USE DEF Changes
<1>1. x \in 1 .. m /\ \A k \in 1 .. n - 1 : s[k].span \in 1 .. m /\ s[k].span < x
  BY DEF Tree, Branches, Nested
<1>2. Around(s2, n) = Around(s, n)
  BY DEF Around
<1>3. Nested(s2)
  <2>1. ASSUME NEW k \in 1 .. n, k < n
        PROVE  Running(s2[k])
    <3>1. k \in 1 .. n - 1
      BY <2>1
    <3>. QED
      BY <2>1, <3>1 DEF Tree, Nested
  <2>2. ASSUME NEW k \in 1 .. n, NEW j \in 1 .. n, j < k
        PROVE  s2[j].span < s2[k].span
    <3>1. j \in 1 .. n - 1 /\ (k \in 1 .. n - 1 \/ k = n)
      BY <2>2
    <3>2. CASE k \in 1 .. n - 1
      BY <2>2, <3>1, <3>2 DEF Tree, Nested
    <3>3. CASE k = n
      BY <1>1, <3>1, <3>3
    <3>. QED
      BY <3>1, <3>2, <3>3
  <2>. QED
    BY <2>1, <2>2 DEF Nested
<1>4. \A k \in 1 .. n - 1 : s[k].span # x /\ s[k].span # y /\ s[k].span \in 1 .. l
  BY <1>1
<1>5. Branches(s2, t2)
  <2>. SUFFICES ASSUME NEW k \in 1 .. n
                PROVE  /\ s2[k].span \in 1 .. l
                       /\ t2[s2[k].span].parent = Around(s2, k)
                       /\ Tells(s2[k], t2[s2[k].span])
    BY DEF Branches
  <2>1. CASE k \in 1 .. n - 1
    <3>1. /\ s2[k] = s[k] /\ s[k].span \in 1 .. l /\ t2[s[k].span] = t[s[k].span]
          /\ t[s[k].span].parent = Around(s, k) /\ Tells(s[k], t[s[k].span])
      BY <2>1, <1>4 DEF Tree, Branches
    <3>2. Around(s2, k) = Around(s, k)
      BY <2>1 DEF Around
    <3>. QED
      BY <3>1, <3>2
  <2>2. CASE k = n
    BY <2>2, <1>2
  <2>. QED
    BY <2>1, <2>2
<1>6. Leafless(s2, t2)
  <2>. SUFFICES ASSUME NEW i \in 1 .. l, t2[i].state = "open"
                PROVE  \E k \in 1 .. n : s2[k].span = i /\ s2[k].stage # "release"
    BY DEF Leafless
  <2>1. CASE i = y
    <3>1. s2[n].stage # "release"
      BY <2>1 DEF Tells
    <3>. QED
      BY <2>1, <3>1
  <2>2. CASE i # y
    <3>1. i # x /\ i \in 1 .. m /\ t[i].state = "open"
      BY <2>2
    <3>2. PICK k \in 1 .. n : s[k].span = i /\ s[k].stage # "release"
      BY <3>1 DEF Tree, Leafless
    <3>3. k \in 1 .. n - 1
      BY <3>1, <3>2
    <3>. QED
      BY <3>2, <3>3
  <2>. QED
    BY <2>1, <2>2
<1>. QED
  BY <1>2, <1>3, <1>5, <1>6 DEF Tree

(* The innermost call ends, and its span with it.                          *)
Shrinks(s, t, s2, t2, n, m, x) ==
  /\ n \in Nat \ {0} /\ m \in Nat
  /\ Len(s) = n /\ Len(t) = m /\ Len(s2) = n - 1 /\ Len(t2) = m /\ Tree(s, t)
  /\ x = s[n].span
  /\ \A k \in 1 .. n - 1 : s2[k] = s[k]
  /\ \A i \in 1 .. m : i # x => t2[i] = t[i]
  /\ t2[x].state # "open"

LEMMA TreeShrinks ==
  ASSUME NEW s, NEW t, NEW s2, NEW t2, NEW n, NEW m, NEW x, Shrinks(s, t, s2, t2, n, m, x)
  PROVE  Tree(s2, t2) /\ Ambient(s2) = Around(s, n)
<1>. USE DEF Shrinks
<1>1. x \in 1 .. m /\ \A k \in 1 .. n - 1 : s[k].span \in 1 .. m /\ s[k].span < x
  BY DEF Tree, Branches, Nested
<1>2. Ambient(s2) = Around(s, n)
  <2>1. CASE n = 1
    BY <2>1 DEF Ambient, Around
  <2>2. CASE n # 1
    <3>1. n - 1 \in 1 .. n - 1 /\ n - 1 # 0 /\ n - 1 < n
      BY <2>2
    <3>2. Running(s[n - 1]) /\ s2[n - 1] = s[n - 1]
      BY <3>1 DEF Tree, Nested
    <3>. QED
      BY <2>2, <3>1, <3>2 DEF Ambient, Around
  <2>. QED
    BY <2>1, <2>2
<1>3. Nested(s2)
  BY DEF Tree, Nested
<1>4. Branches(s2, t2)
  <2>. SUFFICES ASSUME NEW k \in 1 .. n - 1
                PROVE  /\ s2[k].span \in 1 .. m
                       /\ t2[s2[k].span].parent = Around(s2, k)
                       /\ Tells(s2[k], t2[s2[k].span])
    BY DEF Branches
  <2>1. s[k].span \in 1 .. m /\ s[k].span # x
    BY <1>1
  <2>2. /\ s2[k] = s[k] /\ t2[s[k].span] = t[s[k].span]
        /\ t[s[k].span].parent = Around(s, k) /\ Tells(s[k], t[s[k].span])
    BY <2>1 DEF Tree, Branches
  <2>3. Around(s2, k) = Around(s, k)
    BY DEF Around
  <2>. QED
    BY <2>1, <2>2, <2>3
<1>5. Leafless(s2, t2)
  <2>. SUFFICES ASSUME NEW i \in 1 .. m, t2[i].state = "open"
                PROVE  \E k \in 1 .. n - 1 : s2[k].span = i /\ s2[k].stage # "release"
    BY DEF Leafless
  <2>1. i # x /\ t[i].state = "open"
    OBVIOUS
  <2>2. PICK k \in 1 .. n : s[k].span = i /\ s[k].stage # "release"
    BY <2>1 DEF Tree, Leafless
  <2>3. k \in 1 .. n - 1
    BY <2>1, <2>2
  <2>. QED
    BY <2>2, <2>3
<1>. QED
  BY <1>2, <1>3, <1>4, <1>5 DEF Tree

------------------------------------------------------------------------------
(* What ending and abandoning do to each span.                             *)

LEMMA EndedAt ==
  ASSUME NEW c \in Caller, NEW t, TraceOK(t), NEW failed \in BOOLEAN,
         NEW u, u = SpanEnded(c, t, failed)
  PROVE  \A i \in 1 .. Len(t) :
           /\ i # LastCall(c).span => u[i] = t[i]
           /\ i = LastCall(c).span =>
                u[i].parent = t[i].parent /\ u[i].state = "ended" /\ u[i].error = failed
<1>1. \A i \in 1 .. Len(t) : t[i] \in Span
  BY ElementOfSeq DEF TraceOK
<1>2. \A i \in 1 .. Len(t) :
        u[i] = IF i = LastCall(c).span THEN [t[i] EXCEPT !.state = "ended", !.error = failed]
                                       ELSE t[i]
  BY DEF SpanEnded
<1>. QED
  BY <1>1, <1>2 DEF Span

LEMMA AbandonedAt ==
  ASSUME NEW c \in Caller, NEW t, TraceOK(t), NEW u, u = SpanAbandoned(c, t)
  PROVE  \A i \in 1 .. Len(t) : /\ i # LastCall(c).span => u[i] = t[i]
                                /\ i = LastCall(c).span => u[i].state # "open"
<1>. DEFINE wrong == LastCall(c).op = "transaction" /\ LastCall(c).stage = "work"
<1>1. \A i \in 1 .. Len(t) : t[i] \in Span
  BY ElementOfSeq DEF TraceOK
<1>2. \A i \in 1 .. Len(t) :
        u[i] = IF i = LastCall(c).span /\ t[i].state = "open"
                 THEN [t[i] EXCEPT !.state = "abandoned", !.error = wrong]
                 ELSE t[i]
  BY DEF SpanAbandoned
<1>. HIDE DEF wrong
<1>. QED
  BY <1>1, <1>2 DEF Span

(* A span is started at the end of the trace, under the current one.       *)
LEMMA StartedAt ==
  ASSUME NEW c \in Caller, c \in Sampled, NEW t, t \in Seq(Span), current[c] \in Nat,
         NEW u, u = DbSpanStarted(c, t)
  PROVE  /\ Len(u) = Len(t) + 1 /\ NewSpan(c, t) = Len(t) + 1
         /\ \A i \in 1 .. Len(t) : u[i] = t[i]
         /\ u[Len(t) + 1].parent = current[c] /\ u[Len(t) + 1].state = "open"
<1>. DEFINE new == [parent |-> current[c], state |-> "open", error |-> FALSE]
<1>1. new \in Span /\ new.parent = current[c] /\ new.state = "open"
  BY DEF Span
<1>2. u = Append(t, new) /\ NewSpan(c, t) = Len(t) + 1
  BY DEF DbSpanStarted, NewSpan
<1>. HIDE DEF new
<1>3. /\ Len(Append(t, new)) = Len(t) + 1
      /\ \A i \in 1 .. Len(t) : Append(t, new)[i] = t[i]
      /\ Append(t, new)[Len(t) + 1] = new
  BY <1>1, AppendProperties
<1>. QED
  BY <1>1, <1>2, <1>3

(* A step of one thread leaves the trees of the others alone.              *)
Elsewhere(c) ==
  \A d \in Caller : d # c => calls'[d] = calls[d] /\ spans'[d] = spans[d] /\ current'[d] = current[d]

LEMMA OneTree ==
  ASSUME TreeInv, DbInv', NEW c \in Caller, Elsewhere(c), c \in Sampled => TreeOf(c)'
  PROVE  TreeInv'
<1>1. ASSUME NEW d \in Sampled, d # c
      PROVE  TreeOf(d)'
  BY <1>1, DbAssumption DEF TreeInv, TreeOf, Elsewhere
<1>. QED
  BY <1>1 DEF TreeInv

(* The facts every step of a recorded caller starts from.                  *)
LEMMA TreeFacts ==
  ASSUME TreeInv, NEW c \in Sampled
  PROVE  /\ c \in Caller /\ TreeOf(c) /\ TraceOK(spans[c])
         /\ Len(calls[c]) \in Nat /\ Len(spans[c]) \in Nat
         /\ current[c] \in Nat
         /\ calls[c] # << >> =>
              /\ Len(calls[c]) \in Nat \ {0} /\ LastCall(c) = calls[c][Len(calls[c])]
              /\ LastCall(c) \in ActiveCall /\ LastCall(c).span \in 1 .. Len(spans[c])
              /\ spans[c][LastCall(c).span].parent = Around(calls[c], Len(calls[c]))
              /\ Tells(LastCall(c), spans[c][LastCall(c).span])
<1>1. c \in Caller /\ DbInv /\ TreeOf(c)
  BY DbAssumption DEF TreeInv
<1>2. TraceOK(spans[c]) /\ Len(calls[c]) \in Nat /\ Len(spans[c]) \in Nat /\ current[c] \in Nat
  BY <1>1, LenProperties DEF DbInv, LeaseInv, CallsOK, SpanInv, TraceOK
<1>3. ASSUME calls[c] # << >>
      PROVE  /\ Len(calls[c]) \in Nat \ {0} /\ LastCall(c) = calls[c][Len(calls[c])]
             /\ LastCall(c) \in ActiveCall /\ LastCall(c).span \in 1 .. Len(spans[c])
             /\ spans[c][LastCall(c).span].parent = Around(calls[c], Len(calls[c]))
             /\ Tells(LastCall(c), spans[c][LastCall(c).span])
  <2>1. Len(calls[c]) \in Nat \ {0} /\ LastCall(c) \in ActiveCall
    BY <1>1, <1>3, TopShape DEF DbInv, LeaseInv
  <2>2. LastCall(c) = calls[c][Len(calls[c])] /\ Len(calls[c]) \in 1 .. Len(calls[c])
    BY <2>1 DEF LastCall
  <2>. QED
    BY <1>1, <2>1, <2>2 DEF TreeOf, Tree, Branches
<1>. QED
  BY <1>1, <1>2, <1>3

(* Leaving a call makes current what was current around it.                *)
LEMMA RestoredAround ==
  ASSUME TreeInv, NEW c \in Sampled, calls[c] # << >>,
         Restored(c) \/ (UNCHANGED current /\ LastCall(c).stage # "work")
  PROVE  /\ current'[c] = Around(calls[c], Len(calls[c]))
         /\ \A d \in Caller : d # c => current'[d] = current[d]
<1>1. /\ c \in Caller /\ Len(calls[c]) \in Nat \ {0} /\ LastCall(c) = calls[c][Len(calls[c])]
      /\ spans[c][LastCall(c).span].parent = Around(calls[c], Len(calls[c]))
  BY TreeFacts
<1>2. current \in [Caller -> Nat] /\ current[c] = Ambient(calls[c])
  BY TreeFacts DEF TreeInv, DbInv, SpanInv, TreeOf
<1>3. CASE Running(LastCall(c))
  <2>1. current' = [current EXCEPT ![c] = spans[c][LastCall(c).span].parent]
    BY <1>3 DEF Restored, Running
  <2>. QED
    BY <1>1, <1>2, <2>1
<1>4. CASE ~Running(LastCall(c))
  <2>1. current' = current
    BY <1>4 DEF Restored, Running
  <2>2. Ambient(calls[c]) = Around(calls[c], Len(calls[c]))
    BY <1>1, <1>4 DEF Ambient
  <2>. QED
    BY <1>2, <2>1, <2>2
<1>. QED
  BY <1>3, <1>4

LEMMA NotRestored ==
  ASSUME TreeInv, NEW c \in Caller, Restored(c)
  PROVE  \A d \in Caller : d # c => current'[d] = current[d]
BY DEF Restored, TreeInv, DbInv, SpanInv

------------------------------------------------------------------------------
(* The steps, as the tree sees them.                                       *)

LEMMA BeginTree ==
  ASSUME TreeInv, DbInv', NEW c \in Caller, InApplication(c), NEW f \in ActiveCall, Push(c, f),
         ~Running(f), f.stage # "release", f.span = NewSpan(c, spans[c]),
         spans' = [spans EXCEPT ![c] = DbSpanStarted(c, @)], UNCHANGED current
  PROVE  TreeInv'
<1>. DEFINE u == DbSpanStarted(c, spans[c])
            n == Len(calls[c])
            m == Len(spans[c])
<1>1. n \in Nat /\ Kept(c, n) /\ Len(calls'[c]) = n + 1 /\ calls'[c][n + 1] = f
  BY PushShape DEF TreeInv, DbInv, LeaseInv
<1>2. spans'[c] = u /\ \A d \in Caller : d # c => spans'[d] = spans[d]
  BY DEF TreeInv, DbInv, SpanInv
<1>3. Elsewhere(c)
  BY <1>1, <1>2 DEF Elsewhere, Kept
<1>4. ASSUME c \in Sampled
      PROVE  TreeOf(c)'
  <2>1. TreeOf(c) /\ m \in Nat /\ current[c] \in Nat /\ spans[c] \in Seq(Span)
    BY <1>4, TreeFacts DEF TraceOK
  <2>2. /\ Len(u) = m + 1 /\ NewSpan(c, spans[c]) = m + 1 /\ \A i \in 1 .. m : u[i] = spans[c][i]
        /\ u[m + 1].parent = current[c] /\ u[m + 1].state = "open"
    BY <1>4, <2>1, StartedAt
  <2>. HIDE DEF u
  <2>3. n # 0 => Running(calls[c][n])
    BY <1>4, TreeFacts, EmptySeq DEF InApplication, Running, LastCall
  <2>4. Tree(calls[c], spans[c]) /\ u[m + 1].parent = Ambient(calls[c])
    BY <2>1, <2>2 DEF TreeOf
  <2>5. \A k \in 1 .. n : calls'[c][k] = calls[c][k]
    BY <1>1 DEF Kept
  <2>6. n = Len(calls[c]) /\ m = Len(spans[c])
    OBVIOUS
  <2>. HIDE DEF n, m
  <2>7. Tree(calls'[c], u) /\ Ambient(calls'[c]) = Ambient(calls[c])
    <3>1. Grows(calls[c], spans[c], calls'[c], u, n, m)
      BY <1>1, <2>1, <2>2, <2>3, <2>4, <2>5, <2>6 DEF Grows
    <3>. QED
      BY <3>1, TreeGrows
  <2>. QED
    BY <1>2, <2>1, <2>7 DEF TreeOf
<1>. QED
  BY <1>3, <1>4, OneTree

LEMMA AcquiredTree ==
  ASSUME TreeInv, DbInv', NEW c \in Caller, Acquired(c)
  PROVE  TreeInv'
<1>1. calls[c] # << >> /\ LastCall(c).stage = "acquire"
  BY DEF Acquired, In
<1>2. LastCall(c) \in ActiveCall
  BY <1>1, TopShape DEF TreeInv, DbInv, LeaseInv
<1>. DEFINE e == SpanEnded(c, spans[c], FALSE)
            u == DbSpanStarted(c, e)
            n == Len(calls[c])
            m == Len(spans[c])
<1>3. PICK lease \in {{}} \cup {{s} : s \in Session \ out} :
        Become(c, [LastCall(c) EXCEPT !.stage = "work", !.lease = lease,
                                      !.span = NewSpan(c, spans[c])])
  BY DEF Acquired
<1>. DEFINE f == [LastCall(c) EXCEPT !.stage = "work", !.lease = lease, !.span = NewSpan(c, spans[c])]
<1>4. NewSpan(c, spans[c]) \in Nat
  BY LenProperties DEF NewSpan, TreeInv, DbInv, SpanInv
<1>5. lease \subseteq Session
  BY <1>3
<1>6. f \in ActiveCall /\ f.op = LastCall(c).op /\ f.stage = "work" /\ f.span = NewSpan(c, spans[c])
  BY <1>2, <1>4, <1>5 DEF ActiveCall
<1>7. Become(c, f)
  BY <1>3
<1>. HIDE DEF f
<1>8. n \in Nat \ {0} /\ Kept(c, n - 1) /\ Len(calls'[c]) = n /\ calls'[c][n] = f
  BY <1>1, <1>6, <1>7, TopShape, BecomeShape DEF TreeInv, DbInv, LeaseInv
<1>9. spans'[c] = u /\ \A d \in Caller : d # c => spans'[d] = spans[d]
  BY DEF Acquired, TreeInv, DbInv, SpanInv
<1>10. \A d \in Caller : d # c => current'[d] = current[d]
  BY DEF Acquired, TreeInv, DbInv, SpanInv
<1>11. Elsewhere(c)
  BY <1>8, <1>9, <1>10 DEF Elsewhere, Kept
<1>12. ASSUME c \in Sampled
       PROVE  TreeOf(c)'
  <2>. DEFINE x == LastCall(c).span
  <2>1. /\ TreeOf(c) /\ m \in Nat /\ current[c] \in Nat /\ TraceOK(spans[c])
        /\ LastCall(c) = calls[c][n] /\ x \in 1 .. m
        /\ Tree(calls[c], spans[c])
    BY <1>1, <1>12, TreeFacts DEF TreeOf
  <2>2. Ambient(calls[c]) = Around(calls[c], n) /\ current[c] = Around(calls[c], n)
    BY <1>1, <1>8, <2>1 DEF Ambient, Running, TreeOf
  <2>3. Len(e) = m /\ e \in Seq(Span)
    BY <2>1, EndedOK DEF TraceOK
  <2>4. \A i \in 1 .. m : /\ i # x => e[i] = spans[c][i]
                          /\ i = x => e[i].state = "ended"
    <3>. DEFINE failed == FALSE
    <3>1. failed \in BOOLEAN /\ e = SpanEnded(c, spans[c], failed)
      OBVIOUS
    <3>. HIDE DEF e, failed
    <3>2. \A i \in 1 .. m :
            /\ i # LastCall(c).span => e[i] = spans[c][i]
            /\ i = LastCall(c).span => e[i].state = "ended"
      BY <2>1, <3>1, EndedAt
    <3>. QED
      BY <3>2
  <2>. HIDE DEF e
  <2>5. /\ Len(u) = m + 1 /\ \A i \in 1 .. m : u[i] = e[i]
        /\ u[m + 1].parent = current[c] /\ u[m + 1].state = "open"
    BY <1>12, <2>1, <2>3, StartedAt
  <2>6. f.span = m + 1
    BY <1>6, <1>12 DEF NewSpan
  <2>. HIDE DEF u, x
  <2>7. \A k \in 1 .. n - 1 : calls'[c][k] = calls[c][k]
    BY <1>8 DEF Kept
  <2>8. x = calls[c][n].span
    BY <2>1 DEF x
  <2>9. \A i \in 1 .. m + 1 : i # x /\ i # m + 1 => i \in 1 .. m /\ u[i] = spans[c][i]
    BY <2>1, <2>4, <2>5
  <2>10. u[x].state # "open"
    BY <2>1, <2>4, <2>5
  <2>11. Tells(calls'[c][n], u[m + 1])
    BY <1>6, <1>8, <2>5 DEF Tells
  <2>12. n = Len(calls[c]) /\ m = Len(spans[c])
    OBVIOUS
  <2>. HIDE DEF n, m
  <2>. DEFINE l == m + 1
  <2>13. l \in Nat /\ l >= m /\ l \in 1 .. l /\ l = calls'[c][n].span /\ l >= x /\ l > m /\ x # l
    BY <1>8, <2>1, <2>6
  <2>14. /\ Len(u) = l /\ u[l].parent = Around(calls[c], n) /\ Tells(calls'[c][n], u[l])
         /\ \A i \in 1 .. l : i # x /\ i # l => i \in 1 .. m /\ u[i] = spans[c][i]
    BY <2>2, <2>5, <2>9, <2>11
  <2>. HIDE DEF l
  <2>15. Tree(calls'[c], u) /\ Around(calls'[c], n) = Around(calls[c], n)
    <3>1. Changes(calls[c], spans[c], calls'[c], u, n, m, l, x, l)
      BY <1>8, <2>1, <2>7, <2>8, <2>10, <2>12, <2>13, <2>14 DEF Changes
    <3>. QED
      BY <3>1, TreeChanges
  <2>16. current'[c] = Ambient(calls'[c])
    <3>1. CASE LastCall(c).op = "transaction"
      <4>1. current' = [current EXCEPT ![c] = m + 1]
        BY <1>12, <2>12, <3>1 DEF Acquired
      <4>2. current'[c] = m + 1
        BY <4>1 DEF TreeInv, DbInv, SpanInv
      <4>3. Running(calls'[c][n])
        BY <1>6, <1>8, <3>1 DEF Running
      <4>. QED
        BY <1>8, <2>6, <4>2, <4>3 DEF Ambient
    <3>2. CASE LastCall(c).op # "transaction"
      <4>1. current'[c] = current[c]
        BY <3>2 DEF Acquired
      <4>2. ~Running(calls'[c][n])
        BY <1>6, <1>8, <3>2 DEF Running
      <4>. QED
        BY <1>8, <2>2, <2>15, <4>1, <4>2 DEF Ambient
    <3>. QED
      BY <3>1, <3>2
  <2>. QED
    BY <1>9, <2>15, <2>16 DEF TreeOf
<1>. QED
  BY <1>11, <1>12, OneTree

(* The innermost call is over, its span has been closed one way or         *)
(* another, and what was current around it is current again.               *)
LEMMA EndTree ==
  ASSUME TreeInv, DbInv', NEW c \in Caller, calls[c] # << >>, Pop(c),
         \/ Restored(c)
         \/ UNCHANGED current /\ LastCall(c).stage # "work",
         NEW u, TraceOK(u), Len(u) = Len(spans[c]), spans' = [spans EXCEPT ![c] = u],
         \A i \in 1 .. Len(spans[c]) : /\ i # LastCall(c).span => u[i] = spans[c][i]
                                       /\ i = LastCall(c).span => u[i].state # "open"
  PROVE  TreeInv'
<1>. DEFINE n == Len(calls[c])
            m == Len(spans[c])
<1>1. n \in Nat \ {0} /\ Kept(c, n - 1) /\ Len(calls'[c]) = n - 1
  BY TopShape, PopShape DEF TreeInv, DbInv, LeaseInv
<1>2. spans'[c] = u /\ \A d \in Caller : d # c => spans'[d] = spans[d]
  BY DEF TreeInv, DbInv, SpanInv
<1>3. Elsewhere(c)
  BY <1>1, <1>2, NotRestored DEF Elsewhere, Kept
<1>4. ASSUME c \in Sampled
      PROVE  TreeOf(c)'
  <2>. DEFINE x == LastCall(c).span
  <2>1. m \in Nat /\ x = calls[c][n].span /\ x \in 1 .. m /\ Tree(calls[c], spans[c])
    BY <1>4, TreeFacts DEF TreeOf
  <2>2. current'[c] = Around(calls[c], n)
    BY <1>4, RestoredAround
  <2>3. \A k \in 1 .. n - 1 : calls'[c][k] = calls[c][k]
    BY <1>1 DEF Kept
  <2>4. Len(u) = m /\ u[x].state # "open" /\ \A i \in 1 .. m : i # x => u[i] = spans[c][i]
    BY <2>1
  <2>5. n = Len(calls[c]) /\ m = Len(spans[c])
    OBVIOUS
  <2>. HIDE DEF n, m, x
  <2>6. Tree(calls'[c], u) /\ Ambient(calls'[c]) = Around(calls[c], n)
    <3>1. Shrinks(calls[c], spans[c], calls'[c], u, n, m, x)
      BY <1>1, <2>1, <2>3, <2>4, <2>5 DEF Shrinks
    <3>. QED
      BY <3>1, TreeShrinks
  <2>. QED
    BY <1>2, <2>2, <2>6 DEF TreeOf
<1>. QED
  BY <1>3, <1>4, OneTree

LEMMA WorkEndsTree ==
  ASSUME TreeInv, DbInv', NEW c \in Caller, NEW outcome \in {"ok", "failed"}, WorkEnds(c, outcome)
  PROVE  TreeInv'
<1>. DEFINE failed == outcome = "failed"
            u == SpanEnded(c, spans[c], failed)
            n == Len(calls[c])
            m == Len(spans[c])
<1>1. calls[c] # << >> /\ LastCall(c).stage = "work" /\ Restored(c)
  BY DEF WorkEnds, In
<1>2. TraceOK(u) /\ Len(u) = m /\ TraceOK(spans[c])
  BY TraceFacts, EndedOK DEF TreeInv
<1>3. spans' = [spans EXCEPT ![c] = u]
  BY DEF WorkEnds
<1>4. failed \in BOOLEAN /\ u = SpanEnded(c, spans[c], failed)
  OBVIOUS
<1>. HIDE DEF u, failed
<1>5. \A i \in 1 .. m :
        /\ i # LastCall(c).span => u[i] = spans[c][i]
        /\ i = LastCall(c).span =>
             u[i].parent = spans[c][i].parent /\ u[i].state = "ended" /\ u[i].error = failed
  BY <1>2, <1>4, EndedAt
<1>6. CASE LastCall(c).op = "inner"
  <2>1. Pop(c)
    BY <1>6 DEF WorkEnds
  <2>2. \A i \in 1 .. m : /\ i # LastCall(c).span => u[i] = spans[c][i]
                          /\ i = LastCall(c).span => u[i].state # "open"
    BY <1>5
  <2>. QED
    BY <1>1, <1>2, <1>3, <2>1, <2>2, EndTree
<1>7. CASE LastCall(c).op # "inner"
  <2>. DEFINE f == [LastCall(c) EXCEPT !.stage = "release", !.outcome = outcome]
  <2>1. Become(c, f)
    BY <1>7 DEF WorkEnds
  <2>2. /\ f \in ActiveCall /\ f.stage = "release" /\ f.outcome = outcome
        /\ f.span = LastCall(c).span
    BY <1>1, TopShape DEF TreeInv, DbInv, LeaseInv, ActiveCall
  <2>. HIDE DEF f
  <2>3. n \in Nat \ {0} /\ Kept(c, n - 1) /\ Len(calls'[c]) = n /\ calls'[c][n] = f
    BY <1>1, <2>1, <2>2, TopShape, BecomeShape DEF TreeInv, DbInv, LeaseInv
  <2>4. spans'[c] = u /\ \A d \in Caller : d # c => spans'[d] = spans[d]
    BY <1>3 DEF TreeInv, DbInv, SpanInv
  <2>5. Elsewhere(c)
    BY <1>1, <2>3, <2>4, NotRestored DEF Elsewhere, Kept
  <2>6. ASSUME c \in Sampled
        PROVE  TreeOf(c)'
    <3>. DEFINE x == LastCall(c).span
    <3>1. /\ m \in Nat /\ x = calls[c][n].span /\ x \in 1 .. m /\ Tree(calls[c], spans[c])
          /\ spans[c][x].parent = Around(calls[c], n)
      BY <1>1, <2>6, TreeFacts DEF TreeOf
    <3>2. current'[c] = Around(calls[c], n)
      BY <1>1, <2>6, RestoredAround
    <3>3. \A k \in 1 .. n - 1 : calls'[c][k] = calls[c][k]
      BY <2>3 DEF Kept
    <3>4. /\ Len(u) = m /\ u[x].parent = Around(calls[c], n)
          /\ u[x].state = "ended" /\ u[x].error = failed
          /\ \A i \in 1 .. m : i # x => i \in 1 .. m /\ u[i] = spans[c][i]
      BY <1>2, <1>5, <3>1
    <3>5. Tells(calls'[c][n], u[x])
      BY <2>2, <2>3, <3>4 DEF Tells, failed
    <3>6. n = Len(calls[c]) /\ m = Len(spans[c]) /\ x = calls'[c][n].span /\ x >= x /\ m >= m
      BY <2>2, <2>3, <3>1
    <3>. HIDE DEF n, m, x
    <3>7. Tree(calls'[c], u) /\ Around(calls'[c], n) = Around(calls[c], n)
      <4>1. Changes(calls[c], spans[c], calls'[c], u, n, m, m, x, x)
        BY <2>3, <3>1, <3>3, <3>4, <3>5, <3>6 DEF Changes
      <4>. QED
        BY <4>1, TreeChanges
    <3>8. Ambient(calls'[c]) = Around(calls'[c], n)
      BY <2>2, <2>3 DEF Ambient, Running
    <3>. QED
      BY <2>4, <3>2, <3>7, <3>8 DEF TreeOf
  <2>. QED
    BY <2>5, <2>6, OneTree
<1>. QED
  BY <1>6, <1>7

LEMMA TreeInvInit == Init => TreeInv
<1>. SUFFICES ASSUME Init PROVE TreeInv
  OBVIOUS
<1>1. \A c \in Sampled : calls[c] = << >> /\ spans[c] = << >> /\ current[c] = 0
  BY DbAssumption DEF Init
<1>2. Tree(<< >>, << >>) /\ Ambient(<< >>) = 0
  BY DEF Tree, Nested, Branches, Leafless, Ambient
<1>. QED
  BY <1>1, <1>2, DbInvInit DEF TreeInv, TreeOf

LEMMA TreeInvNext ==
  ASSUME TreeInv, [Next]_vars
  PROVE  TreeInv'
<1>1. DbInv'
  BY DbInvNext DEF TreeInv
<1>2. ASSUME NEW c \in Caller, NEW op \in {"command", "transaction"}, BeginCall(c, op)
      PROVE  TreeInv'
  <2>. DEFINE f == [op |-> op, stage |-> "acquire", lease |-> {}, outcome |-> "none",
                    span |-> NewSpan(c, spans[c])]
  <2>1. InApplication(c) /\ Push(c, f) /\ UNCHANGED current
    BY <1>2 DEF BeginCall
  <2>2. spans' = [spans EXCEPT ![c] = DbSpanStarted(c, @)]
    BY <1>2 DEF BeginCall
  <2>3. NewSpan(c, spans[c]) \in Nat
    BY LenProperties DEF NewSpan, TreeInv, DbInv, SpanInv
  <2>4. /\ f \in ActiveCall /\ f.span = NewSpan(c, spans[c])
        /\ ~Running(f) /\ f.stage # "release"
    BY <2>3 DEF ActiveCall, Running
  <2>. HIDE DEF f
  <2>. QED
    BY <1>1, <2>1, <2>2, <2>4, BeginTree
<1>3. ASSUME NEW c \in Caller, CallInner(c)
      PROVE  TreeInv'
  <2>. DEFINE f == [op |-> "inner", stage |-> "work", lease |-> {}, outcome |-> "none",
                    span |-> NewSpan(c, spans[c])]
  <2>1. InApplication(c) /\ Push(c, f) /\ UNCHANGED current
    BY <1>3 DEF CallInner
  <2>2. spans' = [spans EXCEPT ![c] = DbSpanStarted(c, @)]
    BY <1>3 DEF CallInner
  <2>3. NewSpan(c, spans[c]) \in Nat
    BY LenProperties DEF NewSpan, TreeInv, DbInv, SpanInv
  <2>4. /\ f \in ActiveCall /\ f.span = NewSpan(c, spans[c])
        /\ ~Running(f) /\ f.stage # "release"
    BY <2>3 DEF ActiveCall, Running
  <2>. HIDE DEF f
  <2>. QED
    BY <1>1, <2>1, <2>2, <2>4, BeginTree
<1>4. ASSUME NEW c \in Caller, AcquireFails(c)
      PROVE  TreeInv'
  <2>. DEFINE failed == TRUE
              u == SpanEnded(c, spans[c], failed)
  <2>1. calls[c] # << >> /\ LastCall(c).stage # "work" /\ Pop(c) /\ UNCHANGED current
    BY <1>4 DEF AcquireFails, In
  <2>2. spans' = [spans EXCEPT ![c] = u]
    BY <1>4 DEF AcquireFails
  <2>3. failed \in BOOLEAN
    OBVIOUS
  <2>. HIDE DEF failed
  <2>4. TraceOK(spans[c]) /\ TraceOK(u) /\ Len(u) = Len(spans[c])
    BY <2>3, TraceFacts, EndedOK DEF TreeInv
  <2>5. \A i \in 1 .. Len(spans[c]) :
          /\ i # LastCall(c).span => u[i] = spans[c][i]
          /\ i = LastCall(c).span =>
               u[i].parent = spans[c][i].parent /\ u[i].state = "ended" /\ u[i].error = failed
    BY <2>3, <2>4, EndedAt
  <2>6. \A i \in 1 .. Len(spans[c]) : /\ i # LastCall(c).span => u[i] = spans[c][i]
                                      /\ i = LastCall(c).span => u[i].state # "open"
    BY <2>5
  <2>. HIDE DEF u
  <2>. QED
    BY <1>1, <2>1, <2>2, <2>4, <2>6, EndTree
<1>5. ASSUME NEW c \in Caller, Released(c) \/ ReleaseFails(c)
      PROVE  TreeInv'
  <2>. DEFINE u == spans[c]
  <2>1. /\ calls[c] # << >> /\ LastCall(c).stage = "release" /\ Pop(c)
        /\ UNCHANGED current /\ UNCHANGED spans
    BY <1>5 DEF Released, ReleaseFails, In
  <2>2. spans' = [spans EXCEPT ![c] = u] /\ TraceOK(u) /\ Len(u) = Len(spans[c])
    BY <2>1, TraceFacts DEF TreeInv
  <2>3. CASE c \in Sampled
    <3>1. Tells(LastCall(c), u[LastCall(c).span])
      BY <2>1, <2>3, TreeFacts
    <3>2. u[LastCall(c).span].state # "open"
      BY <2>1, <3>1 DEF Tells
    <3>3. \A i \in 1 .. Len(spans[c]) : /\ i # LastCall(c).span => u[i] = spans[c][i]
                                        /\ i = LastCall(c).span => u[i].state # "open"
      BY <3>2
    <3>4. LastCall(c).stage # "work"
      BY <2>1
    <3>. HIDE DEF u
    <3>. QED
      BY <1>1, <2>1, <2>2, <3>3, <3>4, EndTree
  <2>4. CASE c \notin Sampled
    <3>1. /\ \A d \in Caller : d # c => calls'[d] = calls[d]
          /\ Elsewhere(c)
      BY <2>1, PopShape DEF Elsewhere, Kept, TreeInv, DbInv, LeaseInv
    <3>. QED
      BY <1>1, <2>4, <3>1, OneTree
  <2>. QED
    BY <2>3, <2>4
<1>6. ASSUME NEW c \in Caller, WorkRaises(c)
      PROVE  TreeInv'
  <2>. DEFINE u == SpanAbandoned(c, spans[c])
  <2>1. calls[c] # << >> /\ Pop(c) /\ Restored(c)
    BY <1>6 DEF WorkRaises
  <2>2. spans' = [spans EXCEPT ![c] = u]
    BY <1>6 DEF WorkRaises
  <2>3. TraceOK(spans[c]) /\ TraceOK(u) /\ Len(u) = Len(spans[c])
    BY TraceFacts, AbandonedOK DEF TreeInv
  <2>4. u = SpanAbandoned(c, spans[c])
    OBVIOUS
  <2>. HIDE DEF u
  <2>5. \A i \in 1 .. Len(spans[c]) : /\ i # LastCall(c).span => u[i] = spans[c][i]
                                      /\ i = LastCall(c).span => u[i].state # "open"
    BY <2>3, <2>4, AbandonedAt
  <2>. QED
    BY <1>1, <2>1, <2>2, <2>3, <2>5, EndTree
<1>7. ASSUME NEW c \in Caller, Step(c)
      PROVE  TreeInv'
  BY <1>1, <1>4, <1>5, <1>6, <1>7, AcquiredTree, WorkEndsTree DEF Step
<1>8. CASE UNCHANGED vars
  BY <1>1, <1>8 DEF vars, TreeInv, TreeOf
<1>. QED
  BY <1>2, <1>3, <1>7, <1>8 DEF Next

(* The innermost transaction around a call is the call just outside it.    *)
LEMMA InnermostIsAround ==
  ASSUME TreeInv, NEW c \in Sampled, NEW k \in 1 .. Len(calls[c])
  PROVE  InnermostTransaction(c, k) = Around(calls[c], k)
<1>. DEFINE enclosing == {j \in 1 .. k - 1 : calls[c][j].op = "transaction"}
<1>1. Len(calls[c]) \in Nat /\ TreeOf(c)
  BY TreeFacts
<1>2. CASE k = 1
  <2>1. enclosing = {}
    BY <1>2
  <2>. QED
    BY <1>2, <2>1 DEF InnermostTransaction, Around
<1>3. CASE k # 1
  <2>1. k - 1 \in 1 .. Len(calls[c]) /\ k - 1 < Len(calls[c]) /\ k - 1 \in 1 .. k - 1
    BY <1>1, <1>3
  <2>2. calls[c][k - 1].op = "transaction"
    BY <1>1, <2>1 DEF TreeOf, Tree, Nested, Running
  <2>3. k - 1 \in enclosing /\ \A i \in enclosing : i <= k - 1
    BY <2>1, <2>2
  <2>4. \A i \in enclosing : i \in Nat
    OBVIOUS
  <2>. DEFINE last == CHOOSE j \in enclosing : \A i \in enclosing : i <= j
  <2>5. InnermostTransaction(c, k) = calls[c][last].span
    BY <2>3 DEF InnermostTransaction
  <2>. HIDE DEF enclosing
  <2>6. last \in enclosing /\ \A i \in enclosing : i <= last
    BY <2>3
  <2>. HIDE DEF last
  <2>7. last = k - 1
    BY <2>1, <2>3, <2>4, <2>6
  <2>. QED
    BY <1>3, <2>5, <2>7 DEF Around
<1>. QED
  BY <1>2, <1>3

(* trace_db_client, _TracedTransactionRunner.run and _end_db_span: for any *)
(* number of threads and any nesting of transactions, whatever fails or    *)
(* raises in them, the spans of a thread form the tree of its calls, tell  *)
(* how each step went, and are left open only while the step goes on.      *)
THEOREM SpansFormATree == Spec => []SpanTree
<1>1. TreeInv => SpanTree
  <2>. SUFFICES ASSUME TreeInv, NEW c \in Sampled
                PROVE  /\ \A k \in 1 .. Len(calls[c]) :
                            LET call == calls[c][k]
                                span == spans[c][call.span]
                            IN  /\ span.parent = InnermostTransaction(c, k)
                                /\ span.parent # 0 => spans[c][span.parent].state = "open"
                                /\ call.stage = "release" =>
                                     span.state = "ended" /\ (span.error <=> call.outcome = "failed")
                       /\ \A i \in 1 .. Len(spans[c]) :
                            spans[c][i].state = "open" =>
                              \E k \in 1 .. Len(calls[c]) :
                                calls[c][k].span = i /\ calls[c][k].stage # "release"
    BY DEF SpanTree
  <2>1. TreeOf(c) /\ Len(calls[c]) \in Nat
    BY TreeFacts
  <2>2. ASSUME NEW k \in 1 .. Len(calls[c])
        PROVE  LET call == calls[c][k]
                   span == spans[c][call.span]
               IN  /\ span.parent = InnermostTransaction(c, k)
                   /\ span.parent # 0 => spans[c][span.parent].state = "open"
                   /\ call.stage = "release" =>
                        span.state = "ended" /\ (span.error <=> call.outcome = "failed")
    <3>. DEFINE span == spans[c][calls[c][k].span]
    <3>1. span.parent = Around(calls[c], k) /\ Tells(calls[c][k], span)
      BY <2>1 DEF TreeOf, Tree, Branches
    <3>2. InnermostTransaction(c, k) = Around(calls[c], k)
      BY InnermostIsAround
    <3>3. ASSUME span.parent # 0
          PROVE  spans[c][span.parent].state = "open"
      <4>1. k # 1
        BY <3>1, <3>3 DEF Around
      <4>2. k - 1 \in 1 .. Len(calls[c]) /\ k - 1 < Len(calls[c])
        BY <2>1, <4>1
      <4>3. Running(calls[c][k - 1]) /\ Tells(calls[c][k - 1], spans[c][calls[c][k - 1].span])
        BY <2>1, <4>2 DEF TreeOf, Tree, Nested, Branches
      <4>4. span.parent = calls[c][k - 1].span
        BY <3>1, <4>1 DEF Around
      <4>. HIDE DEF span
      <4>. QED
        BY <4>3, <4>4 DEF Running, Tells
    <3>. QED
      BY <3>1, <3>2, <3>3 DEF Tells
  <2>3. Leafless(calls[c], spans[c])
    BY <2>1 DEF TreeOf, Tree
  <2>. QED
    BY <2>2, <2>3 DEF Leafless
<1>. QED
  BY <1>1, TreeInvInit, TreeInvNext, PTL DEF Spec
==============================================================================
