-------------------------- MODULE PluginOrder_proofs --------------------------
(***************************************************************************)
(* For every number of plugins and every manifest, order_plugins returns a *)
(* permutation of the registration list in which dependencies come first   *)
(* and registration order decides the rest, and raises an error only when  *)
(* the graph has that defect.                                              *)
(*                                                                         *)
(* The inductive invariant describes the call stack of `visit`: the active *)
(* calls are exactly the plugins marked "visiting", each call waits for    *)
(* the plugin of the next one, and whatever a call has already looped over *)
(* is placed.                                                              *)
(***************************************************************************)
EXTENDS PluginOrder, SequenceTheorems, TLAPS

(* The requirement frame f followed last, or any earlier one: i.           *)
Followed(f, i) == requires[f.plugin][i]

Marks ==
  /\ \A p \in Plugin :
       visitState[p] = "visited" <=> \E i \in 1 .. Len(ordered) : ordered[i] = p
  /\ \A p \in Plugin :
       visitState[p] = "visiting" <=> \E k \in 1 .. Len(stack) : stack[k].plugin = p
  /\ \A p \in 1 .. root - 1 : visitState[p] # "new"

Distinct ==
  /\ \A i, j \in 1 .. Len(ordered) : ordered[i] = ordered[j] => i = j
  /\ \A j, k \in 1 .. Len(stack) : stack[j].plugin = stack[k].plugin => j = k

(* What the calls have looped over; the last requirement of a call that is *)
(* not the innermost one is the plugin being visited by the next call.     *)
Looped ==
  \A k \in 1 .. Len(stack) :
    /\ stack[k].next <= Len(requires[stack[k].plugin]) + 1
    /\ \A i \in 1 .. stack[k].next - 1 :
         Followed(stack[k], i).type = "plugin" =>
           /\ Followed(stack[k], i).id \in Plugin
           /\ \/ visitState[Followed(stack[k], i).id] = "visited"
              \/ k < Len(stack) /\ i = stack[k].next - 1

Chained ==
  \A k \in 1 .. Len(stack) - 1 :
    /\ stack[k].next > 1
    /\ Followed(stack[k], stack[k].next - 1).type = "plugin"
    /\ Followed(stack[k], stack[k].next - 1).id = stack[k + 1].plugin

OrderInv ==
  /\ OrderTypeOK
  /\ Marks
  /\ Distinct
  /\ Looped
  /\ Chained
  /\ DependenciesFirst
  /\ CycleIsReal

------------------------------------------------------------------------------
(* What the operations on the call stack do to it.                         *)

LEMMA TopFrame ==
  ASSUME OrderTypeOK, stack # << >>
  PROVE  /\ Len(stack) \in Nat \ {0}
         /\ Top \in Frame
         /\ Top.plugin \in Plugin
         /\ Top.next \in Nat \ {0}
         /\ TopRequires \in Seq(Requirement)
<1>1. stack \in Seq(Frame) /\ Len(stack) \in Nat
  BY LenProperties DEF OrderTypeOK
<1>2. Len(stack) # 0
  BY <1>1, EmptySeq
<1>3. Top \in Frame
  BY <1>1, <1>2, ElementOfSeq DEF Top
<1>4. Top.plugin \in Plugin /\ Top.next \in Nat \ {0}
  BY <1>3 DEF Frame
<1>. QED
  BY <1>1, <1>2, <1>3, <1>4 DEF OrderTypeOK, TopRequires

LEMMA FrameFields ==
  ASSUME OrderTypeOK
  PROVE  /\ Len(stack) \in Nat
         /\ \A k \in 1 .. Len(stack) :
              stack[k].plugin \in Plugin /\ stack[k].next \in Nat \ {0}
<1>1. stack \in Seq(Frame)
  BY DEF OrderTypeOK
<1>2. \A k \in 1 .. Len(stack) : stack[k] \in Frame
  BY <1>1, ElementOfSeq
<1>. QED
  BY <1>1, <1>2, LenProperties DEF Frame

LEMMA AdvanceEffect ==
  ASSUME OrderTypeOK, stack # << >>
  PROVE  /\ Advanced \in Seq(Frame)
         /\ Len(Advanced) = Len(stack)
         /\ \A k \in 1 .. Len(stack) :
              /\ Advanced[k].plugin = stack[k].plugin
              /\ Advanced[k].next =
                   IF k = Len(stack) THEN stack[k].next + 1 ELSE stack[k].next
<1>. DEFINE f == [Top EXCEPT !.next = @ + 1]
<1>1. /\ stack \in Seq(Frame) /\ Len(stack) \in 1 .. Len(stack)
      /\ Top \in Frame
  BY TopFrame DEF OrderTypeOK
<1>2. f \in Frame /\ f.plugin = Top.plugin /\ f.next = Top.next + 1
  <2>1. \A g \in Frame :
          LET h == [g EXCEPT !.next = @ + 1]
          IN  h \in Frame /\ h.plugin = g.plugin /\ h.next = g.next + 1
    BY DEF Frame
  <2>. QED
    BY <1>1, <2>1
<1>3. Advanced = [stack EXCEPT ![Len(stack)] = f]
  BY DEF Advanced, Top
<1>. HIDE DEF f
<1>4. /\ Advanced \in Seq(Frame) /\ Len(Advanced) = Len(stack)
      /\ \A k \in 1 .. Len(stack) : Advanced[k] = IF k = Len(stack) THEN f ELSE stack[k]
  BY <1>1, <1>2, <1>3, ExceptSeq
<1>. QED
  BY <1>2, <1>4 DEF Top

LEMMA PushEffect ==
  ASSUME NEW s \in Seq(Frame), NEW p \in Plugin,
         NEW t, t = Append(s, [plugin |-> p, next |-> 1])
  PROVE  /\ t \in Seq(Frame)
         /\ Len(t) = Len(s) + 1
         /\ \A k \in 1 .. Len(s) : t[k] = s[k]
         /\ t[Len(s) + 1].plugin = p /\ t[Len(s) + 1].next = 1
<1>1. [plugin |-> p, next |-> 1] \in Frame
  BY DEF Frame
<1>. QED
  BY <1>1, AppendProperties

LEMMA PopEffect ==
  ASSUME OrderTypeOK, stack # << >>
  PROVE  LET t == SubSeq(stack, 1, Len(stack) - 1)
         IN  /\ t \in Seq(Frame)
             /\ Len(t) = Len(stack) - 1
             /\ \A k \in 1 .. Len(stack) - 1 : t[k] = stack[k]
<1>1. stack \in Seq(Frame) /\ Len(stack) \in Nat \ {0}
  BY TopFrame DEF OrderTypeOK
<1>2. \A k \in 1 .. Len(stack) - 1 : stack[k] \in Frame
  BY <1>1, ElementOfSeq
<1>. DEFINE n == Len(stack) - 1
<1>3. n \in Nat /\ \A i \in 1 .. n : stack[i] \in Frame
  BY <1>1, <1>2
<1>. HIDE DEF n
<1>4. /\ SubSeq(stack, 1, n) \in Seq(Frame)
      /\ Len(SubSeq(stack, 1, n)) = IF 1 <= n THEN n - 1 + 1 ELSE 0
      /\ \A i \in 1 .. n - 1 + 1 : SubSeq(stack, 1, n)[i] = stack[1 + i - 1]
  BY <1>3, SubSeqProperties
<1>5. /\ Len(SubSeq(stack, 1, n)) = n
      /\ \A i \in 1 .. n : SubSeq(stack, 1, n)[i] = stack[i]
  BY <1>3, <1>4
<1>. QED
  BY <1>4, <1>5 DEF n

------------------------------------------------------------------------------
LEMMA OrderStartInv ==
  ASSUME OrderAssumption, requires \in [Plugin -> Seq(Requirement)], OrderStart
  PROVE  OrderInv
<1>. USE DEF OrderStart
<1>1. OrderTypeOK
  <2>1. stack \in Seq(Frame) /\ ordered \in Seq(Plugin)
    BY EmptySeq
  <2>. QED
    BY <2>1 DEF OrderTypeOK, OrderAssumption
<1>2. Len(stack) = 0 /\ Len(ordered) = 0
  BY EmptySeq
<1>3. Marks /\ Distinct
  BY <1>2 DEF Marks, Distinct
<1>4. Looped /\ Chained /\ DependenciesFirst /\ CycleIsReal
  BY <1>2 DEF Looped, Chained, DependenciesFirst, CycleIsReal
<1>. QED
  BY <1>1, <1>3, <1>4 DEF OrderInv

LEMMA OrderInitInv == ASSUME OrderAssumption, OrderInit PROVE OrderInv
<1>1. requires \in [Plugin -> Seq(Requirement)]
  BY DEF OrderInit, OrderAssumption
<1>. QED
  BY <1>1, OrderStartInv DEF OrderInit

(* The requirement under the loop of the innermost call.                   *)
LEMMA CurrentRequirementType ==
  ASSUME OrderTypeOK, InLoop
  PROVE  /\ Top.next \in 1 .. Len(TopRequires)
         /\ CurrentRequirement \in Requirement
         /\ CurrentRequirement.id \in 0 .. N
         /\ CurrentRequirement = Followed(stack[Len(stack)], stack[Len(stack)].next)
<1>1. stack # << >> /\ Top.next <= Len(TopRequires)
  BY DEF InLoop
<1>2. Top.next \in Nat \ {0} /\ TopRequires \in Seq(Requirement)
  BY <1>1, TopFrame
<1>3. Len(TopRequires) \in Nat
  BY <1>2, LenProperties
<1>4. Top.next \in 1 .. Len(TopRequires)
  BY <1>1, <1>2, <1>3
<1>5. CurrentRequirement \in Requirement
  BY <1>2, <1>4, ElementOfSeq DEF CurrentRequirement
<1>. QED
  BY <1>4, <1>5 DEF Requirement, CurrentRequirement, TopRequires, Top, Followed

------------------------------------------------------------------------------
(* The steps of the search preserve the invariant.                         *)

LEMMA VisitRootInv == ASSUME OrderAssumption, OrderInv, VisitRoot PROVE OrderInv'
<1>. USE DEF OrderInv
<1>1. /\ root \in Nat /\ root \in Plugin /\ root' = root + 1
      /\ stack = << >> /\ Len(stack) = 0 /\ orderError = "none"
      /\ UNCHANGED <<requires, ordered, orderError>>
  BY EmptySeq DEF VisitRoot, OrderTypeOK, Plugin, OrderAssumption
<1>2. CASE visitState[root] # "new"
  <2>1. UNCHANGED <<visitState, stack>>
    BY <1>2 DEF VisitRoot
  <2>2. OrderTypeOK'
    BY <1>1, <2>1 DEF OrderTypeOK, Plugin, OrderAssumption
  <2>3. Marks'
    BY <1>1, <1>2, <2>1 DEF Marks
  <2>4. Distinct' /\ Looped' /\ Chained' /\ DependenciesFirst' /\ CycleIsReal'
    BY <1>1, <2>1 DEF Distinct, Looped, Chained, DependenciesFirst, CycleIsReal,
                      Followed, DependsOn, Top
  <2>. QED
    BY <2>2, <2>3, <2>4
<1>3. CASE visitState[root] = "new"
  <2>1. /\ visitState' = [visitState EXCEPT ![root] = "visiting"]
        /\ stack' = Append(stack, [plugin |-> root, next |-> 1])
    BY <1>3 DEF VisitRoot, Call
  <2>2. /\ stack' \in Seq(Frame) /\ Len(stack') = 1
        /\ stack'[1].plugin = root /\ stack'[1].next = 1
    <3>1. stack \in Seq(Frame)
      BY DEF OrderTypeOK
    <3>2. root \in Plugin
      BY <1>1
    <3>3. /\ stack' \in Seq(Frame) /\ Len(stack') = Len(stack) + 1
          /\ stack'[Len(stack) + 1].plugin = root /\ stack'[Len(stack) + 1].next = 1
      BY <2>1, <3>1, <3>2, PushEffect
    <3>. QED
      BY <1>1, <3>3
  <2>3. visitState' \in [Plugin -> {"new", "visiting", "visited"}]
    BY <2>1 DEF OrderTypeOK
  <2>4. OrderTypeOK'
    BY <1>1, <2>2, <2>3 DEF OrderTypeOK, Plugin, OrderAssumption
  <2>5. Marks'
    <3>1. \A p \in Plugin : visitState'[p] = IF p = root THEN "visiting" ELSE visitState[p]
      BY <2>1 DEF OrderTypeOK
    <3>2. \A p \in Plugin : visitState[p] # "visiting"
      BY <1>1 DEF Marks
    <3>3. \A p \in Plugin :
            visitState'[p] = "visited" <=> \E i \in 1 .. Len(ordered') : ordered'[i] = p
      BY <1>1, <1>3, <3>1 DEF Marks
    <3>4. \A p \in Plugin :
            visitState'[p] = "visiting" <=> \E k \in 1 .. Len(stack') : stack'[k].plugin = p
      BY <1>1, <2>2, <3>1, <3>2
    <3>5. \A p \in 1 .. root' - 1 : p \in Plugin /\ (p = root \/ p \in 1 .. root - 1)
      BY <1>1 DEF Plugin, OrderAssumption
    <3>6. \A p \in 1 .. root' - 1 : visitState'[p] # "new"
      BY <3>1, <3>5 DEF Marks
    <3>. QED
      BY <3>3, <3>4, <3>6 DEF Marks
  <2>6. Distinct'
    BY <1>1, <2>2 DEF Distinct
  <2>7. Looped' /\ Chained'
    <3>1. requires'[root] \in Seq(Requirement) /\ Len(requires'[root]) \in Nat
      BY <1>1, LenProperties DEF OrderTypeOK
    <3>. QED
      BY <2>2, <3>1 DEF Looped, Chained
  <2>8. DependenciesFirst' /\ CycleIsReal'
    BY <1>1 DEF DependenciesFirst, CycleIsReal, DependsOn
  <2>. QED
    BY <2>4, <2>5, <2>6, <2>7, <2>8
<1>. QED
  BY <1>2, <1>3

LEMMA SkipRequirementInv ==
  ASSUME OrderAssumption, OrderInv, SkipRequirement PROVE OrderInv'
<1>. USE DEF OrderInv
<1>1. /\ InLoop /\ stack # << >> /\ orderError = "none" /\ stack' = Advanced
      /\ UNCHANGED <<requires, root, visitState, ordered, orderError>>
  BY DEF SkipRequirement, InLoop
<1>2. /\ stack' \in Seq(Frame) /\ Len(stack') = Len(stack)
      /\ \A k \in 1 .. Len(stack) :
           /\ stack'[k].plugin = stack[k].plugin
           /\ stack'[k].next = IF k = Len(stack) THEN stack[k].next + 1 ELSE stack[k].next
  BY <1>1, AdvanceEffect
<1>3. /\ Len(stack) \in Nat \ {0}
      /\ \A k \in 1 .. Len(stack) : stack[k].plugin \in Plugin /\ stack[k].next \in Nat \ {0}
  BY <1>1, TopFrame, FrameFields
<1>4. OrderTypeOK'
  BY <1>1, <1>2 DEF OrderTypeOK
<1>5. Marks' /\ Distinct'
  BY <1>1, <1>2 DEF Marks, Distinct
<1>6. Looped'
  <2>. DEFINE n == Len(stack)
  <2>1. /\ stack[n].next \in 1 .. Len(requires[stack[n].plugin])
        /\ Followed(stack[n], stack[n].next).type = "plugin" =>
             /\ Followed(stack[n], stack[n].next).id \in Plugin
             /\ visitState[Followed(stack[n], stack[n].next).id] = "visited"
    BY <1>1, CurrentRequirementType DEF SkipRequirement, Top, TopRequires, Plugin,
                                       OrderAssumption
  <2>2. SUFFICES ASSUME NEW k \in 1 .. n
                 PROVE  /\ stack'[k].next <= Len(requires[stack[k].plugin]) + 1
                        /\ \A i \in 1 .. stack'[k].next - 1 :
                             Followed(stack[k], i).type = "plugin" =>
                               /\ Followed(stack[k], i).id \in Plugin
                               /\ \/ visitState[Followed(stack[k], i).id] = "visited"
                                  \/ k < n /\ i = stack'[k].next - 1
    BY <1>1, <1>2 DEF Looped, Followed
  <2>3. CASE k < n
    BY <1>2, <1>3, <2>3 DEF Looped
  <2>4. CASE k = n
    <3>1. stack'[k].next = stack[n].next + 1
      BY <1>2, <1>3, <2>4
    <3>2. \A i \in 1 .. stack[n].next - 1 :
            Followed(stack[n], i).type = "plugin" =>
              /\ Followed(stack[n], i).id \in Plugin
              /\ visitState[Followed(stack[n], i).id] = "visited"
      BY <1>3 DEF Looped
    <3>3. stack[n].next \in Nat
      BY <1>3
    <3>. QED
      BY <2>1, <2>4, <3>1, <3>2, <3>3
  <2>. QED
    BY <1>3, <2>3, <2>4
<1>7. Chained'
  <2>1. \A k \in 1 .. Len(stack) - 1 :
          /\ stack'[k].plugin = stack[k].plugin /\ stack'[k].next = stack[k].next
          /\ stack'[k + 1].plugin = stack[k + 1].plugin
    BY <1>2, <1>3
  <2>. QED
    BY <1>1, <1>2, <2>1 DEF Chained, Followed
<1>8. DependenciesFirst' /\ CycleIsReal'
  BY <1>1 DEF DependenciesFirst, CycleIsReal, DependsOn
<1>. QED
  BY <1>4, <1>5, <1>6, <1>7, <1>8

LEMMA VisitDependencyInv ==
  ASSUME OrderAssumption, OrderInv, VisitDependency PROVE OrderInv'
<1>. DEFINE n == Len(stack)
            p == CurrentRequirement.id
<1>. USE DEF OrderInv
<1>1. /\ InLoop /\ stack # << >> /\ orderError = "none"
      /\ visitState' = [visitState EXCEPT ![p] = "visiting"]
      /\ stack' = Append(Advanced, [plugin |-> p, next |-> 1])
      /\ visitState[p] = "new"
      /\ UNCHANGED <<requires, root, ordered, orderError>>
  BY DEF VisitDependency, InLoop, Call
<1>2. /\ p \in Plugin
      /\ stack[n].next \in 1 .. Len(requires[stack[n].plugin])
      /\ Followed(stack[n], stack[n].next).type = "plugin"
      /\ Followed(stack[n], stack[n].next).id = p
  BY <1>1, CurrentRequirementType DEF VisitDependency, Top, TopRequires, Plugin,
                                     OrderAssumption
<1>3. /\ n \in Nat \ {0}
      /\ \A k \in 1 .. n : stack[k].plugin \in Plugin /\ stack[k].next \in Nat \ {0}
  BY <1>1, TopFrame, FrameFields
<1>. HIDE DEF n, p
<1>4. /\ stack' \in Seq(Frame) /\ Len(stack') = n + 1
      /\ \A k \in 1 .. n :
           /\ stack'[k].plugin = stack[k].plugin
           /\ stack'[k].next = IF k = n THEN stack[k].next + 1 ELSE stack[k].next
      /\ stack'[n + 1].plugin = p /\ stack'[n + 1].next = 1
  <2>1. /\ Advanced \in Seq(Frame) /\ Len(Advanced) = n
        /\ \A k \in 1 .. n :
             /\ Advanced[k].plugin = stack[k].plugin
             /\ Advanced[k].next = IF k = n THEN stack[k].next + 1 ELSE stack[k].next
    BY <1>1, AdvanceEffect DEF n
  <2>2. /\ stack' \in Seq(Frame) /\ Len(stack') = Len(Advanced) + 1
        /\ \A k \in 1 .. Len(Advanced) : stack'[k] = Advanced[k]
        /\ stack'[Len(Advanced) + 1].plugin = p /\ stack'[Len(Advanced) + 1].next = 1
    BY <1>1, <1>2, <2>1, PushEffect
  <2>. QED
    BY <2>1, <2>2
<1>5. \A q \in Plugin : visitState'[q] = IF q = p THEN "visiting" ELSE visitState[q]
  BY <1>1 DEF OrderTypeOK
<1>6. OrderTypeOK'
  <2>1. visitState' \in [Plugin -> {"new", "visiting", "visited"}]
    BY <1>1 DEF OrderTypeOK
  <2>. QED
    BY <1>1, <1>4, <2>1 DEF OrderTypeOK
<1>7. Marks'
  <2>1. \A q \in Plugin :
          visitState'[q] = "visited" <=> \E i \in 1 .. Len(ordered') : ordered'[i] = q
    BY <1>1, <1>5 DEF Marks
  <2>2. \A q \in Plugin :
          visitState'[q] = "visiting" <=> \E k \in 1 .. Len(stack') : stack'[k].plugin = q
    <3>1. \A q \in Plugin :
            visitState[q] = "visiting" <=> \E k \in 1 .. n : stack[k].plugin = q
      BY DEF Marks, n
    <3>2. \A q : (\E k \in 1 .. Len(stack') : stack'[k].plugin = q)
                   <=> q = p \/ \E k \in 1 .. n : stack[k].plugin = q
      BY <1>3, <1>4
    <3>. QED
      BY <1>5, <3>1, <3>2
  <2>3. \A q \in 1 .. root' - 1 : visitState'[q] # "new"
    <3>1. \A q \in 1 .. root' - 1 : q \in Plugin /\ visitState[q] # "new"
      BY <1>1 DEF Marks, Plugin, OrderTypeOK, OrderAssumption
    <3>. QED
      BY <1>5, <3>1
  <2>. QED
    BY <2>1, <2>2, <2>3 DEF Marks
<1>8. Distinct'
  <2>1. \A k \in 1 .. n : stack[k].plugin # p
    BY <1>1, <1>2 DEF Marks, n
  <2>2. \A j, k \in 1 .. n : stack[j].plugin = stack[k].plugin => j = k
    BY DEF Distinct, n
  <2>3. \A j, k \in 1 .. Len(stack') : stack'[j].plugin = stack'[k].plugin => j = k
    BY <1>3, <1>4, <2>1, <2>2
  <2>. QED
    BY <1>1, <2>3 DEF Distinct
<1>9. Looped'
  <2>1. SUFFICES ASSUME NEW k \in 1 .. n + 1
                 PROVE  /\ stack'[k].next <= Len(requires[stack'[k].plugin]) + 1
                        /\ \A i \in 1 .. stack'[k].next - 1 :
                             Followed(stack'[k], i).type = "plugin" =>
                               /\ Followed(stack'[k], i).id \in Plugin
                               /\ \/ visitState'[Followed(stack'[k], i).id] = "visited"
                                  \/ k < n + 1 /\ i = stack'[k].next - 1
    <3>1. requires' = requires /\ Len(stack') = n + 1
      BY <1>1, <1>4
    <3>2. \A k \in 1 .. Len(stack') :
            /\ stack'[k].next <= Len(requires[stack'[k].plugin]) + 1
            /\ \A i \in 1 .. stack'[k].next - 1 :
                 Followed(stack'[k], i).type = "plugin" =>
                   /\ Followed(stack'[k], i).id \in Plugin
                   /\ \/ visitState'[Followed(stack'[k], i).id] = "visited"
                      \/ k < Len(stack') /\ i = stack'[k].next - 1
      BY <2>1, <3>1
    <3>. QED
      BY <3>1, <3>2 DEF Looped, Followed
  <2>2. CASE k < n
    <3>1. /\ stack'[k].plugin = stack[k].plugin /\ stack'[k].next = stack[k].next
          /\ k \in 1 .. n
      BY <1>3, <1>4, <2>2
    <3>2. /\ stack[k].next <= Len(requires[stack[k].plugin]) + 1
          /\ \A i \in 1 .. stack[k].next - 1 :
               Followed(stack[k], i).type = "plugin" =>
                 /\ Followed(stack[k], i).id \in Plugin
                 /\ \/ visitState[Followed(stack[k], i).id] = "visited"
                    \/ i = stack[k].next - 1
      BY <3>1 DEF Looped, n
    <3>3. requires' = requires /\ visitState[p] # "visited" /\ k < n + 1
      BY <1>1, <1>3, <2>2
    <3>4. \A i \in 1 .. stack[k].next - 1 : Followed(stack'[k], i) = Followed(stack[k], i)
      BY <3>1 DEF Followed
    <3>. QED
      BY <1>5, <3>1, <3>2, <3>3, <3>4
  <2>3. CASE k = n
    <3>1. /\ stack'[n].plugin = stack[n].plugin /\ stack'[n].next = stack[n].next + 1
          /\ stack[n].next \in Nat
      BY <1>3, <1>4
    <3>2. \A i \in 1 .. stack[n].next - 1 :
            Followed(stack[n], i).type = "plugin" =>
              /\ Followed(stack[n], i).id \in Plugin
              /\ visitState[Followed(stack[n], i).id] = "visited"
      BY <1>3 DEF Looped, n
    <3>3. requires' = requires /\ visitState[p] # "visited" /\ k < n + 1
      BY <1>1, <1>3, <2>3
    <3>4. \A i : Followed(stack'[k], i) = Followed(stack[n], i)
      BY <2>3, <3>1 DEF Followed
    <3>5. stack'[k].next <= Len(requires[stack'[k].plugin]) + 1
      BY <1>2, <2>3, <3>1
    <3>6. SUFFICES ASSUME NEW i \in 1 .. stack[n].next,
                          Followed(stack[n], i).type = "plugin"
                   PROVE  /\ Followed(stack[n], i).id \in Plugin
                          /\ \/ visitState'[Followed(stack[n], i).id] = "visited"
                             \/ i = stack[n].next
      BY <2>3, <3>1, <3>3, <3>4, <3>5
    <3>7. CASE i = stack[n].next
      BY <1>2, <3>7
    <3>8. CASE i \in 1 .. stack[n].next - 1
      BY <1>5, <3>2, <3>3, <3>6, <3>8
    <3>. QED
      BY <3>1, <3>7, <3>8
  <2>4. CASE k = n + 1
    <3>1. requires[p] \in Seq(Requirement) /\ Len(requires[p]) \in Nat
      BY <1>2, LenProperties DEF OrderTypeOK
    <3>. QED
      BY <1>4, <2>4, <3>1
  <2>. QED
    BY <1>3, <2>2, <2>3, <2>4
<1>10. Chained'
  <2>1. SUFFICES ASSUME NEW k \in 1 .. n
                 PROVE  /\ stack'[k].next > 1
                        /\ Followed(stack'[k], stack'[k].next - 1).type = "plugin"
                        /\ Followed(stack'[k], stack'[k].next - 1).id = stack'[k + 1].plugin
    BY <1>1, <1>3, <1>4 DEF Chained, Followed
  <2>2. CASE k < n
    <3>1. /\ stack'[k].plugin = stack[k].plugin /\ stack'[k].next = stack[k].next
          /\ stack'[k + 1].plugin = stack[k + 1].plugin
          /\ k \in 1 .. n - 1
      BY <1>3, <1>4, <2>2
    <3>. QED
      BY <3>1 DEF Chained, Followed, n
  <2>3. CASE k = n
    <3>1. /\ stack'[n].plugin = stack[n].plugin /\ stack'[n].next - 1 = stack[n].next
          /\ stack'[n].next > 1
          /\ stack'[n + 1].plugin = p
      BY <1>3, <1>4
    <3>. QED
      BY <1>2, <2>3, <3>1 DEF Followed
  <2>. QED
    BY <1>3, <2>2, <2>3
<1>11. DependenciesFirst' /\ CycleIsReal'
  <2>1. UNCHANGED <<requires, ordered>> /\ orderError' = "none"
    BY <1>1
  <2>. QED
    BY <2>1 DEF DependenciesFirst, CycleIsReal, DependsOn
<1>. QED
  BY <1>6, <1>7, <1>8, <1>9, <1>10, <1>11

LEMMA DependencyMissingInv ==
  ASSUME OrderAssumption, OrderInv, DependencyMissing PROVE OrderInv'
<1>. USE DEF OrderInv
<1>1. /\ orderError' = "MISSING"
      /\ UNCHANGED <<requires, root, visitState, stack, ordered>>
  BY DEF DependencyMissing
<1>2. OrderTypeOK' /\ Marks' /\ Distinct'
  BY <1>1 DEF OrderTypeOK, Marks, Distinct
<1>3. Looped' /\ Chained'
  BY <1>1 DEF Looped, Chained, Followed
<1>4. DependenciesFirst' /\ CycleIsReal'
  BY <1>1 DEF DependenciesFirst, CycleIsReal, DependsOn
<1>. QED
  BY <1>2, <1>3, <1>4

(* The plugin found again is on the stack: the calls above it, each        *)
(* requiring the next, close the cycle.                                    *)
LEMMA DependencyCycleInv ==
  ASSUME OrderAssumption, OrderInv, DependencyCycle PROVE OrderInv'
<1>. DEFINE n == Len(stack)
            d == CurrentRequirement.id
<1>. USE DEF OrderInv
<1>1. /\ orderError' = "CYCLE" /\ InLoop /\ stack # << >>
      /\ UNCHANGED <<requires, root, visitState, stack, ordered>>
      /\ visitState[d] = "visiting"
  BY DEF DependencyCycle, InLoop
<1>2. OrderTypeOK' /\ Marks' /\ Distinct'
  BY <1>1 DEF OrderTypeOK, Marks, Distinct
<1>3. Looped' /\ Chained'
  BY <1>1 DEF Looped, Chained, Followed
<1>4. DependenciesFirst'
  <2>1. UNCHANGED <<requires, ordered>>
    BY <1>1
  <2>. QED
    BY <2>1 DEF DependenciesFirst, DependsOn
<1>5. CycleIsReal'
  <2>1. d \in Plugin /\ d \in DependsOn(Top.plugin)
    BY <1>1, CurrentRequirementType
       DEF DependencyCycle, DependsOn, CurrentRequirement, TopRequires, Plugin,
           OrderAssumption
  <2>2. PICK k \in 1 .. n : stack[k].plugin = d
    BY <1>1, <2>1 DEF Marks
  <2>3. \A i \in 1 .. n - 1 :
          /\ stack[i].next - 1 \in 1 .. Len(requires[stack[i].plugin])
          /\ requires[stack[i].plugin][stack[i].next - 1].type = "plugin"
          /\ requires[stack[i].plugin][stack[i].next - 1].id = stack[i + 1].plugin
    <3>1. \A i \in 1 .. n - 1 : i \in 1 .. n
      BY FrameFields
    <3>2. \A i \in 1 .. n - 1 :
            /\ stack[i].plugin \in Plugin /\ stack[i].next \in Nat
            /\ Len(requires[stack[i].plugin]) \in Nat
      BY <3>1, FrameFields, LenProperties DEF OrderTypeOK
    <3>. QED
      BY <3>1, <3>2 DEF Looped, Chained, Followed
  <2>4. \A i \in 1 .. n - 1 : stack[i + 1].plugin \in DependsOn(stack[i].plugin)
    <3>1. \A i \in 1 .. n - 1 : stack[i + 1].plugin \in 0 .. N
      <4>1. \A i \in 1 .. n - 1 : i + 1 \in 1 .. n
        BY FrameFields
      <4>. QED
        BY <4>1, FrameFields DEF Plugin, OrderAssumption
    <3>. QED
      BY <2>3, <3>1 DEF DependsOn
  <2>5. n \in Nat
    BY FrameFields
  <2>6. \A i \in k .. n - 1 : stack[i + 1].plugin \in DependsOn(stack[i].plugin)
    BY <2>4, <2>5
  <2>7. \E j \in 1 .. Len(stack) :
          /\ \A i \in j .. Len(stack) - 1 : stack[i + 1].plugin \in DependsOn(stack[i].plugin)
          /\ stack[j].plugin \in DependsOn(Top.plugin)
    BY <2>1, <2>2, <2>6
  <2>8. UNCHANGED <<requires, stack>>
    BY <1>1
  <2>. QED
    BY <2>7, <2>8 DEF CycleIsReal, DependsOn, Top
<1>. QED
  BY <1>2, <1>3, <1>4, <1>5

LEMMA PlacePluginInv ==
  ASSUME OrderAssumption, OrderInv, PlacePlugin PROVE OrderInv'
<1>. DEFINE n == Len(stack)
            p == Top.plugin
<1>. USE DEF OrderInv
<1>1. /\ stack # << >> /\ orderError' = "none"
      /\ Top.next > Len(TopRequires)
      /\ visitState' = [visitState EXCEPT ![p] = "visited"]
      /\ ordered' = Append(ordered, p)
      /\ stack' = SubSeq(stack, 1, Len(stack) - 1)
      /\ UNCHANGED <<requires, root, orderError>>
  BY DEF PlacePlugin
<1>2. /\ n \in Nat \ {0} /\ p \in Plugin /\ p = stack[n].plugin
      /\ requires[p] \in Seq(Requirement) /\ Len(requires[p]) \in Nat
      /\ stack[n].next > Len(requires[p])
      /\ \A k \in 1 .. n : stack[k].plugin \in Plugin /\ stack[k].next \in Nat \ {0}
  BY <1>1, TopFrame, FrameFields, LenProperties DEF Top, TopRequires
<1>3. /\ stack' \in Seq(Frame) /\ Len(stack') = n - 1
      /\ \A k \in 1 .. n - 1 : stack'[k] = stack[k]
  BY <1>1, PopEffect
<1>4. /\ ordered' \in Seq(Plugin) /\ Len(ordered') = Len(ordered) + 1
      /\ Len(ordered) \in Nat
      /\ \A i \in 1 .. Len(ordered) : ordered'[i] = ordered[i]
      /\ ordered'[Len(ordered) + 1] = p
  BY <1>1, <1>2, AppendProperties, LenProperties DEF OrderTypeOK
<1>. HIDE DEF n, p
<1>5. \A q \in Plugin : visitState'[q] = IF q = p THEN "visited" ELSE visitState[q]
  BY <1>1 DEF OrderTypeOK
<1>6. visitState[p] = "visiting"
  BY <1>2 DEF Marks, n
<1>7. OrderTypeOK'
  <2>1. visitState' \in [Plugin -> {"new", "visiting", "visited"}]
    BY <1>1 DEF OrderTypeOK
  <2>. QED
    BY <1>1, <1>3, <1>4, <2>1 DEF OrderTypeOK
<1>8. \A k \in 1 .. n - 1 : k \in 1 .. n /\ stack[k].plugin # p
  BY <1>2 DEF Distinct, n
<1>9. Marks'
  <2>1. \A q \in Plugin :
          visitState'[q] = "visited" <=> \E i \in 1 .. Len(ordered') : ordered'[i] = q
    <3>1. \A q : (\E i \in 1 .. Len(ordered') : ordered'[i] = q)
                   <=> q = p \/ \E i \in 1 .. Len(ordered) : ordered[i] = q
      BY <1>4
    <3>. QED
      BY <1>5, <3>1 DEF Marks
  <2>2. \A q \in Plugin :
          visitState'[q] = "visiting" <=> \E k \in 1 .. Len(stack') : stack'[k].plugin = q
    <3>1. \A q : (\E k \in 1 .. n : stack[k].plugin = q)
                   <=> q = p \/ \E k \in 1 .. n - 1 : stack[k].plugin = q
      BY <1>2
    <3>2. \A q : (\E k \in 1 .. Len(stack') : stack'[k].plugin = q)
                   <=> q # p /\ \E k \in 1 .. n : stack[k].plugin = q
      BY <1>3, <1>8, <3>1
    <3>3. \A q \in Plugin :
            visitState[q] = "visiting" <=> \E k \in 1 .. n : stack[k].plugin = q
      BY DEF Marks, n
    <3>. QED
      BY <1>5, <3>2, <3>3
  <2>3. \A q \in 1 .. root' - 1 : visitState'[q] # "new"
    <3>1. \A q \in 1 .. root' - 1 : q \in Plugin /\ visitState[q] # "new"
      BY <1>1 DEF Marks, Plugin, OrderTypeOK, OrderAssumption
    <3>. QED
      BY <1>5, <3>1
  <2>. QED
    BY <2>1, <2>2, <2>3 DEF Marks
<1>10. Distinct'
  <2>1. \A i \in 1 .. Len(ordered) : ordered[i] # p
    BY <1>2, <1>6 DEF Marks
  <2>2. \A i, j \in 1 .. Len(ordered') : ordered'[i] = ordered'[j] => i = j
    BY <1>4, <2>1 DEF Distinct
  <2>3. \A j, k \in 1 .. Len(stack') : stack'[j].plugin = stack'[k].plugin => j = k
    BY <1>3, <1>8 DEF Distinct, n
  <2>. QED
    BY <2>2, <2>3 DEF Distinct
<1>11. Looped'
  <2>1. SUFFICES ASSUME NEW k \in 1 .. n - 1
                 PROVE  /\ stack[k].next <= Len(requires[stack[k].plugin]) + 1
                        /\ \A i \in 1 .. stack[k].next - 1 :
                             Followed(stack[k], i).type = "plugin" =>
                               /\ Followed(stack[k], i).id \in Plugin
                               /\ \/ visitState'[Followed(stack[k], i).id] = "visited"
                                  \/ k < n - 1 /\ i = stack[k].next - 1
    <3>1. requires' = requires
      BY <1>1
    <3>2. \A k \in 1 .. Len(stack') :
            /\ stack[k].next <= Len(requires[stack[k].plugin]) + 1
            /\ \A i \in 1 .. stack[k].next - 1 :
                 Followed(stack[k], i).type = "plugin" =>
                   /\ Followed(stack[k], i).id \in Plugin
                   /\ \/ visitState'[Followed(stack[k], i).id] = "visited"
                      \/ k < Len(stack') /\ i = stack[k].next - 1
      BY <1>3, <2>1
    <3>3. \A k \in 1 .. Len(stack') : stack'[k] = stack[k]
      BY <1>3
    <3>4. SUFFICES ASSUME NEW k \in 1 .. Len(stack')
                   PROVE  (/\ stack[k].next <= Len(requires[stack[k].plugin]) + 1
                           /\ \A i \in 1 .. stack[k].next - 1 :
                                Followed(stack[k], i).type = "plugin" =>
                                  /\ Followed(stack[k], i).id \in Plugin
                                  /\ \/ visitState[Followed(stack[k], i).id] = "visited"
                                     \/ k < Len(stack) /\ i = stack[k].next - 1)'
      BY DEF Looped
    <3>. QED
      BY <3>1, <3>2, <3>3 DEF Followed
  <2>2. k \in 1 .. n /\ (k < n - 1 \/ k + 1 = n)
    BY <1>2
  <2>3. /\ stack[k].next <= Len(requires[stack[k].plugin]) + 1
        /\ \A i \in 1 .. stack[k].next - 1 :
             Followed(stack[k], i).type = "plugin" =>
               /\ Followed(stack[k], i).id \in Plugin
               /\ \/ visitState[Followed(stack[k], i).id] = "visited"
                  \/ i = stack[k].next - 1
    BY <2>2 DEF Looped, n
  <2>4. Followed(stack[k], stack[k].next - 1).id = stack[k + 1].plugin
    BY DEF Chained, n
  <2>5. /\ Followed(stack[k], stack[k].next - 1).type = "plugin"
        /\ stack[k].next - 1 \in 1 .. stack[k].next - 1
        /\ stack[k].next \in Nat
    BY <1>2, <2>2 DEF Chained, n
  <2>6. SUFFICES ASSUME NEW i \in 1 .. stack[k].next - 1,
                        Followed(stack[k], i).type = "plugin"
                 PROVE  \/ visitState'[Followed(stack[k], i).id] = "visited"
                        \/ k < n - 1 /\ i = stack[k].next - 1
    BY <2>3
  <2>7. CASE visitState[Followed(stack[k], i).id] = "visited"
    BY <1>5, <2>3, <2>6, <2>7
  <2>8. CASE i = stack[k].next - 1 /\ k + 1 = n
    BY <1>2, <1>5, <2>4, <2>8
  <2>. QED
    BY <2>2, <2>3, <2>6, <2>7, <2>8
<1>12. Chained'
  <2>1. \A k \in 1 .. n - 2 : k \in 1 .. n - 1 /\ k + 1 \in 1 .. n - 1
    BY <1>2
  <2>2. \A k \in 1 .. n - 2 :
          /\ stack[k].next > 1
          /\ Followed(stack[k], stack[k].next - 1).type = "plugin"
          /\ Followed(stack[k], stack[k].next - 1).id = stack[k + 1].plugin
    BY <2>1 DEF Chained, n
  <2>3. requires' = requires /\ Len(stack') - 1 = n - 2
    BY <1>1, <1>2, <1>3
  <2>. QED
    BY <1>3, <2>1, <2>2, <2>3 DEF Chained, Followed
<1>13. DependenciesFirst'
  <2>0. SUFFICES ASSUME NEW i \in 1 .. Len(ordered'), NEW d \in DependsOn(ordered[i])'
                 PROVE  \E j \in 1 .. i - 1 : ordered'[j] = d
    BY DEF DependenciesFirst
  <2>1. i \in 1 .. Len(ordered) + 1 /\ d \in DependsOn(ordered'[i])
    <3>1. requires' = requires /\ Len(ordered') = Len(ordered) + 1
      BY <1>1, <1>4
    <3>2. d \in DependsOn(ordered'[i])
      BY <2>0, <3>1 DEF DependsOn
    <3>. QED
      BY <2>0, <3>1, <3>2
  <2>2. CASE i \in 1 .. Len(ordered)
    <3>1. \E j \in 1 .. i - 1 : ordered[j] = d
      BY <1>4, <2>1, <2>2 DEF DependenciesFirst
    <3>. QED
      BY <1>4, <2>2, <3>1
  <2>3. CASE i = Len(ordered) + 1
    <3>1. PICK r \in 1 .. Len(requires[p]) :
            requires[p][r].type = "plugin" /\ requires[p][r].id = d
      BY <1>4, <2>1, <2>3 DEF DependsOn
    <3>2. r \in 1 .. stack[n].next - 1 /\ Followed(stack[n], r) = requires[p][r]
      BY <1>2 DEF Followed
    <3>3. \A j \in 1 .. stack[n].next - 1 :
            Followed(stack[n], j).type = "plugin" =>
              /\ Followed(stack[n], j).id \in Plugin
              /\ visitState[Followed(stack[n], j).id] = "visited"
      BY <1>2 DEF Looped, n
    <3>4. \E j \in 1 .. Len(ordered) : ordered[j] = d
      BY <3>1, <3>2, <3>3 DEF Marks
    <3>. QED
      BY <1>4, <2>3, <3>4
  <2>. QED
    BY <1>4, <2>2, <2>3
<1>14. CycleIsReal'
  BY <1>1 DEF CycleIsReal
<1>. QED
  BY <1>7, <1>9, <1>10, <1>11, <1>12, <1>13, <1>14

------------------------------------------------------------------------------
(* One step of the search, for the modules that run it as part of more.    *)
LEMMA OrderNextInv ==
  ASSUME OrderAssumption, OrderInv, OrderNext \/ UNCHANGED orderVars PROVE OrderInv'
<1>1. CASE UNCHANGED orderVars
  <2>1. OrderTypeOK' /\ Marks' /\ Distinct'
    BY <1>1 DEF orderVars, OrderInv, OrderTypeOK, Marks, Distinct
  <2>2. Looped' /\ Chained'
    BY <1>1 DEF orderVars, OrderInv, Looped, Chained, Followed
  <2>3. DependenciesFirst'
    BY <1>1 DEF orderVars, OrderInv, DependenciesFirst, DependsOn
  <2>4. CycleIsReal'
    BY <1>1 DEF orderVars, OrderInv, CycleIsReal, DependsOn, Top
  <2>. QED
    BY <2>1, <2>2, <2>3, <2>4 DEF OrderInv
<1>. QED
  BY <1>1, VisitRootInv, SkipRequirementInv, VisitDependencyInv, DependencyMissingInv,
     DependencyCycleInv, PlacePluginInv DEF OrderNext

(* order_plugins keeps its bookkeeping consistent: the marks, the call     *)
(* stack and the result agree in every state of the search.                *)
THEOREM OrderInvariant == OrderSpec => []OrderInv
<1>1. OrderInit => OrderInv
  BY OrderAssumption, OrderInitInv
<1>2. OrderInv /\ [OrderNext]_orderVars => OrderInv'
  BY OrderAssumption, OrderNextInv
<1>. QED
  BY <1>1, <1>2, PTL DEF OrderSpec

(* Dependencies are placed before the plugins that require them.           *)
THEOREM DependenciesComeFirst == OrderSpec => []DependenciesFirst
<1>1. OrderInv => DependenciesFirst
  BY DEF OrderInv
<1>. QED
  BY <1>1, OrderInvariant, PTL

LEMMA OrderInvComplete ==
  ASSUME OrderAssumption, OrderInv PROVE OrderIsPermutation
<1>1. \A i, j \in 1 .. Len(ordered) : ordered[i] = ordered[j] => i = j
  BY DEF OrderInv, Distinct
<1>2. ASSUME Ordered, NEW p \in Plugin
      PROVE  \E i \in 1 .. Len(ordered) : ordered[i] = p
  <2>1. Len(stack) = 0 /\ p \in 1 .. root - 1
    BY <1>2, OrderAssumption, EmptySeq DEF Ordered, Plugin
  <2>2. visitState[p] # "new" /\ visitState[p] # "visiting"
    BY <2>1 DEF OrderInv, Marks
  <2>3. visitState[p] = "visited"
    BY <2>2 DEF OrderInv, OrderTypeOK
  <2>. QED
    BY <2>3 DEF OrderInv, Marks
<1>. QED
  BY <1>1, <1>2 DEF OrderIsPermutation

(* Every plugin is placed exactly once.                                    *)
THEOREM OrderIsComplete == OrderSpec => []OrderIsPermutation
<1>1. OrderInv => OrderIsPermutation
  BY OrderAssumption, OrderInvComplete
<1>. QED
  BY <1>1, OrderInvariant, PTL

(* A dependency cycle is reported only where there is one.                 *)
THEOREM CycleReportIsSound == OrderSpec => []CycleIsReal
<1>1. OrderInv => CycleIsReal
  BY DEF OrderInv
<1>. QED
  BY <1>1, OrderInvariant, PTL
------------------------------------------------------------------------------
(* The search and the graph.  A call reaches the plugins of the calls it   *)
(* made (Below).  The outer loop is at the call it made last, and all the  *)
(* plugins before are placed (AtRoot); so a plugin was placed either by    *)
(* its own turn or by one that reaches it, after all plugins of earlier    *)
(* turns (Placed).                                                         *)
LEMMA DirectlyReached == ASSUME NEW p, NEW d \in DependsOn(p) PROVE Reaches(p, d)
BY DEF Reaches

LEMMA ReachedThrough ==
  ASSUME NEW p, NEW x \in Plugin, Reaches(p, x), NEW d \in DependsOn(x)
  PROVE  Reaches(p, d)
<1>1. SUFFICES ASSUME NEW S \in SUBSET (0 .. N), DependsOn(p) \subseteq S, Closed(S)
               PROVE  d \in S
  BY DEF Reaches
<1>2. x \in S
  BY <1>1 DEF Reaches
<1>. QED
  BY <1>1, <1>2 DEF Closed

LEMMA ReachesStable ==
  ASSUME UNCHANGED requires
  PROVE  /\ \A p : DependsOn(p)' = DependsOn(p)
         /\ \A p, q : Reaches(p, q)' <=> Reaches(p, q)
<1>1. \A p : DependsOn(p)' = DependsOn(p)
  BY DEF DependsOn
<1>2. \A S : Closed(S)' <=> Closed(S)
  BY <1>1 DEF Closed
<1>. QED
  BY <1>1, <1>2 DEF Reaches

Below ==
  \A j, k \in 1 .. Len(stack) : j < k => Reaches(stack[j].plugin, stack[k].plugin)

AtRoot ==
  /\ stack = << >> => \A q \in 1 .. root - 1 : visitState[q] = "visited"
  /\ stack # << >> => /\ stack[1].plugin = root - 1
                      /\ \A q \in 1 .. root - 2 : visitState[q] = "visited"

Placed ==
  \A i \in 1 .. Len(ordered) : \E r \in 1 .. root - 1 :
    /\ r = ordered[i] \/ Reaches(r, ordered[i])
    /\ \A q \in 1 .. r - 1 : \E j \in 1 .. i - 1 : ordered[j] = q

MissingIsReal == orderError = "MISSING" => Incomplete

GraphInv == OrderInv /\ Below /\ AtRoot /\ Placed /\ MissingIsReal

LEMMA GraphStart == ASSUME OrderAssumption, OrderInit PROVE GraphInv
<1>1. OrderInv
  BY OrderInitInv
<1>2. Len(stack) = 0 /\ Len(ordered) = 0
  BY EmptySeq DEF OrderInit, OrderStart
<1>3. Below /\ Placed
  BY <1>2 DEF Below, Placed
<1>4. AtRoot /\ MissingIsReal
  BY DEF AtRoot, MissingIsReal, OrderInit, OrderStart
<1>. QED
  BY <1>1, <1>3, <1>4 DEF GraphInv

(* A step that places nothing and goes on with the same turn.              *)
LEMMA PlacedStable ==
  ASSUME Placed, UNCHANGED <<requires, ordered>>, root \in Nat, root' \in {root, root + 1}
  PROVE  Placed'
<1>1. \A p, q : Reaches(p, q)' <=> Reaches(p, q)
  BY ReachesStable
<1>2. \A n \in Nat : n \in {root, root + 1} => 1 .. root - 1 \subseteq 1 .. n - 1
  OBVIOUS
<1>3. root' \in Nat
  OBVIOUS
<1>4. 1 .. root - 1 \subseteq 1 .. root' - 1
  BY <1>2, <1>3
<1>5. SUFFICES ASSUME NEW i \in 1 .. Len(ordered)
               PROVE  (\E r \in 1 .. root - 1 :
                         /\ r = ordered[i] \/ Reaches(r, ordered[i])
                         /\ \A q \in 1 .. r - 1 : \E j \in 1 .. i - 1 : ordered[j] = q)'
  BY DEF Placed
<1>6. PICK r \in 1 .. root - 1 :
        /\ r = ordered[i] \/ Reaches(r, ordered[i])
        /\ \A q \in 1 .. r - 1 : \E j \in 1 .. i - 1 : ordered[j] = q
  BY DEF Placed
<1>7. r \in 1 .. root' - 1
  BY <1>4
<1>8. r = ordered'[i] \/ Reaches(r, ordered[i])'
  BY <1>1, <1>6, ReachesStable
<1>. QED
  BY <1>6, <1>7, <1>8

LEMMA MissingStable ==
  ASSUME MissingIsReal, UNCHANGED requires, orderError' \in {orderError, "CYCLE"}
  PROVE  MissingIsReal'
<1>1. \A p : DependsOn(p)' = DependsOn(p)
  BY ReachesStable
<1>. QED
  BY <1>1 DEF MissingIsReal, Incomplete

LEMMA VisitRootGraph == ASSUME OrderAssumption, GraphInv, VisitRoot PROVE GraphInv'
<1>1. /\ root \in Nat /\ root \in Plugin /\ root' = root + 1
      /\ stack = << >> /\ Len(stack) = 0
      /\ UNCHANGED <<requires, ordered, orderError>>
  BY EmptySeq DEF VisitRoot, GraphInv, OrderInv, OrderTypeOK, Plugin, OrderAssumption
<1>2. OrderInv'
  BY OrderNextInv DEF OrderNext, GraphInv
<1>3. Placed' /\ MissingIsReal'
  BY <1>1, PlacedStable, MissingStable DEF GraphInv
<1>4. \A q \in 1 .. root - 1 : visitState[q] = "visited"
  BY <1>1 DEF GraphInv, AtRoot
<1>5. CASE visitState[root] # "new"
  <2>1. UNCHANGED <<visitState, stack>>
    BY <1>5 DEF VisitRoot
  <2>2. visitState[root] = "visited"
    <3>1. visitState[root] # "visiting"
      BY <1>1 DEF GraphInv, OrderInv, Marks
    <3>. QED
      BY <1>1, <1>5, <3>1 DEF GraphInv, OrderInv, OrderTypeOK
  <2>3. \A q \in 1 .. root' - 1 : q = root \/ q \in 1 .. root - 1
    BY <1>1
  <2>4. AtRoot' /\ Below'
    BY <1>1, <1>4, <2>1, <2>2, <2>3 DEF AtRoot, Below
  <2>. QED
    BY <1>2, <1>3, <2>4 DEF GraphInv
<1>6. CASE visitState[root] = "new"
  <2>1. /\ visitState' = [visitState EXCEPT ![root] = "visiting"]
        /\ stack' = Append(stack, [plugin |-> root, next |-> 1])
    BY <1>6 DEF VisitRoot, Call
  <2>2. Len(stack') = 1 /\ stack'[1].plugin = root /\ stack' # << >>
    <3>1. stack \in Seq(Frame)
      BY DEF GraphInv, OrderInv, OrderTypeOK
    <3>2. /\ stack' \in Seq(Frame) /\ Len(stack') = Len(stack) + 1
          /\ stack'[Len(stack) + 1].plugin = root
      <4>. DEFINE f == [plugin |-> root, next |-> 1]
      <4>1. f \in Frame /\ f.plugin = root
        BY <1>1 DEF Frame
      <4>2. stack' = Append(stack, f)
        BY <2>1
      <4>. HIDE DEF f
      <4>. QED
        BY <3>1, <4>1, <4>2, AppendProperties
    <3>. QED
      BY <1>1, <3>2, EmptySeq
  <2>3. \A q \in 1 .. root' - 2 : q # root /\ q \in 1 .. root - 1
    BY <1>1
  <2>4. \A q \in 1 .. root' - 2 : visitState'[q] = visitState[q]
    BY <1>1, <2>1, <2>3 DEF GraphInv, OrderInv, OrderTypeOK, Plugin
  <2>5. AtRoot' /\ Below'
    BY <1>1, <1>4, <2>2, <2>3, <2>4 DEF AtRoot, Below
  <2>. QED
    BY <1>2, <1>3, <2>5 DEF GraphInv
<1>. QED
  BY <1>5, <1>6

LEMMA SkipRequirementGraph ==
  ASSUME OrderAssumption, GraphInv, SkipRequirement PROVE GraphInv'
<1>1. /\ stack # << >> /\ stack' = Advanced /\ OrderTypeOK
      /\ UNCHANGED <<requires, root, visitState, ordered, orderError>>
  BY DEF SkipRequirement, InLoop, GraphInv, OrderInv
<1>2. OrderInv'
  BY OrderNextInv DEF OrderNext, GraphInv
<1>3. Placed' /\ MissingIsReal'
  BY <1>1, PlacedStable, MissingStable DEF GraphInv, OrderTypeOK, OrderAssumption
<1>4. /\ Len(stack') = Len(stack) /\ stack' # << >> /\ Len(stack) \in Nat \ {0}
      /\ \A k \in 1 .. Len(stack) : stack'[k].plugin = stack[k].plugin
  BY <1>1, AdvanceEffect, TopFrame, EmptySeq
<1>5. \A p, q : Reaches(p, q)' <=> Reaches(p, q)
  BY <1>1, ReachesStable
<1>6. Below'
  BY <1>4, <1>5 DEF GraphInv, Below
<1>7. AtRoot'
  BY <1>1, <1>4 DEF GraphInv, AtRoot
<1>. QED
  BY <1>2, <1>3, <1>6, <1>7 DEF GraphInv

LEMMA VisitDependencyGraph ==
  ASSUME OrderAssumption, GraphInv, VisitDependency PROVE GraphInv'
<1>. DEFINE n == Len(stack)
            d == CurrentRequirement.id
<1>1. /\ InLoop /\ stack # << >> /\ OrderTypeOK
      /\ visitState' = [visitState EXCEPT ![d] = "visiting"]
      /\ stack' = Append(Advanced, [plugin |-> d, next |-> 1])
      /\ visitState[d] = "new"
      /\ UNCHANGED <<requires, root, ordered, orderError>>
  BY DEF VisitDependency, InLoop, Call, GraphInv, OrderInv
<1>2. /\ d \in Plugin /\ d \in DependsOn(Top.plugin)
      /\ n \in Nat \ {0} /\ Top = stack[n] /\ Top.plugin \in Plugin
  <2>1. d \in 0 .. N /\ d # 0 /\ CurrentRequirement.type = "plugin"
    BY <1>1, CurrentRequirementType DEF VisitDependency
  <2>2. d \in DependsOn(Top.plugin)
    BY <1>1, <2>1, CurrentRequirementType DEF TopRequires, CurrentRequirement, DependsOn
  <2>. QED
    BY <1>1, <2>1, <2>2, TopFrame DEF Top, Plugin, OrderAssumption
<1>. HIDE DEF n, d
<1>3. /\ Len(stack') = n + 1 /\ stack' # << >>
      /\ \A k \in 1 .. n : stack'[k].plugin = stack[k].plugin
      /\ stack'[n + 1].plugin = d
  <2>1. /\ Advanced \in Seq(Frame) /\ Len(Advanced) = n
        /\ \A k \in 1 .. n : Advanced[k].plugin = stack[k].plugin
    BY <1>1, AdvanceEffect DEF n
  <2>2. /\ stack' \in Seq(Frame) /\ Len(stack') = Len(Advanced) + 1
        /\ \A k \in 1 .. Len(Advanced) : stack'[k] = Advanced[k]
        /\ stack'[Len(Advanced) + 1].plugin = d
    BY <1>1, <1>2, <2>1, PushEffect
  <2>. QED
    BY <1>2, <2>1, <2>2, EmptySeq
<1>4. OrderInv'
  BY OrderNextInv DEF OrderNext, GraphInv
<1>5. Placed' /\ MissingIsReal'
  BY <1>1, PlacedStable, MissingStable DEF GraphInv, OrderTypeOK, OrderAssumption
<1>6. Below'
  <2>1. \A k \in 1 .. n : Reaches(stack[k].plugin, d)
    <3>1. ASSUME NEW k \in 1 .. n, k < n PROVE Reaches(stack[k].plugin, d)
      BY <1>2, <3>1, ReachedThrough DEF GraphInv, Below, n
    <3>2. Reaches(stack[n].plugin, d)
      BY <1>2, DirectlyReached
    <3>. QED
      BY <1>2, <3>1, <3>2
  <2>2. \A j, k \in 1 .. n : j < k => Reaches(stack[j].plugin, stack[k].plugin)
    BY DEF GraphInv, Below, n
  <2>3. \A p, q : Reaches(p, q)' <=> Reaches(p, q)
    BY <1>1, ReachesStable
  <2>4. SUFFICES ASSUME NEW j \in 1 .. n + 1, NEW k \in 1 .. n + 1, j < k
                 PROVE  Reaches(stack'[j].plugin, stack'[k].plugin)
    BY <1>3, <2>3 DEF Below
  <2>5. j \in 1 .. n /\ (k \in 1 .. n \/ k = n + 1)
    BY <1>2, <2>4
  <2>. QED
    BY <1>3, <2>1, <2>2, <2>4, <2>5
<1>7. AtRoot'
  <2>1. \A q \in 1 .. root - 2 : visitState'[q] = "visited"
    <3>1. \A q \in 1 .. root - 2 : q \in Plugin /\ visitState[q] = "visited"
      BY <1>1 DEF GraphInv, AtRoot, OrderTypeOK, Plugin, OrderAssumption
    <3>. QED
      BY <1>1, <3>1 DEF OrderTypeOK
  <2>. QED
    BY <1>1, <1>2, <1>3, <2>1 DEF GraphInv, AtRoot
<1>. QED
  BY <1>4, <1>5, <1>6, <1>7 DEF GraphInv

LEMMA SearchFailsGraph ==
  ASSUME OrderAssumption, GraphInv, DependencyMissing \/ DependencyCycle PROVE GraphInv'
<1>1. /\ OrderTypeOK
      /\ UNCHANGED <<requires, root, visitState, stack, ordered>>
  BY DEF DependencyMissing, DependencyCycle, GraphInv, OrderInv
<1>2. OrderInv'
  BY OrderNextInv DEF OrderNext, GraphInv
<1>3. Placed'
  BY <1>1, PlacedStable DEF GraphInv, OrderTypeOK, OrderAssumption
<1>4. AtRoot'
  BY <1>1 DEF GraphInv, AtRoot
<1>5. Below'
  BY <1>1, ReachesStable DEF GraphInv, Below
<1>6. MissingIsReal'
  <2>1. CASE DependencyCycle
    BY <2>1, <1>1, MissingStable DEF DependencyCycle, GraphInv
  <2>2. CASE DependencyMissing
    <3>1. InLoop /\ stack # << >> /\ CurrentRequirement.type = "plugin" /\ CurrentRequirement.id = 0
      BY <2>2 DEF DependencyMissing, InLoop
    <3>2. Top.plugin \in Plugin /\ 0 \in DependsOn(Top.plugin)
      BY <1>1, <3>1, CurrentRequirementType, TopFrame
         DEF DependsOn, CurrentRequirement, TopRequires, OrderAssumption
    <3>3. \A p : DependsOn(p)' = DependsOn(p)
      BY <1>1, ReachesStable
    <3>. QED
      BY <3>2, <3>3 DEF MissingIsReal, Incomplete, Plugin
  <2>. QED
    BY <2>1, <2>2
<1>. QED
  BY <1>2, <1>3, <1>4, <1>5, <1>6 DEF GraphInv

LEMMA PlacePluginGraph == ASSUME OrderAssumption, GraphInv, PlacePlugin PROVE GraphInv'
<1>. DEFINE n == Len(stack)
            p == Top.plugin
            m == Len(ordered)
<1>1. /\ stack # << >> /\ OrderTypeOK
      /\ visitState' = [visitState EXCEPT ![p] = "visited"]
      /\ ordered' = Append(ordered, p)
      /\ stack' = SubSeq(stack, 1, n - 1)
      /\ UNCHANGED <<requires, root, orderError>>
  BY DEF PlacePlugin, GraphInv, OrderInv
<1>2. n \in Nat \ {0} /\ p \in Plugin /\ p = stack[n].plugin /\ root \in Nat
  BY <1>1, TopFrame DEF Top, OrderTypeOK, OrderAssumption
<1>3. /\ Len(stack') = n - 1
      /\ \A k \in 1 .. n - 1 : stack'[k] = stack[k]
  BY <1>1, PopEffect
<1>4. /\ m \in Nat /\ Len(ordered') = m + 1 /\ ordered'[m + 1] = p
      /\ \A i \in 1 .. m : ordered'[i] = ordered[i]
  BY <1>1, <1>2, AppendProperties, LenProperties DEF OrderTypeOK
<1>5. stack' = << >> <=> n = 1
  <2>1. stack' \in Seq(Frame)
    BY <1>1, PopEffect
  <2>. QED
    BY <1>2, <1>3, <2>1, EmptySeq
<1>. HIDE DEF n, p, m
<1>6. OrderInv'
  BY OrderNextInv DEF OrderNext, GraphInv
<1>7. MissingIsReal'
  BY <1>1, MissingStable DEF GraphInv
<1>8. \A x, y : Reaches(x, y)' <=> Reaches(x, y)
  BY <1>1, ReachesStable
<1>9. Below'
  BY <1>2, <1>3, <1>8 DEF GraphInv, Below, n
<1>10. /\ stack[1].plugin = root - 1
       /\ \A q \in 1 .. root - 2 : q \in Plugin /\ visitState[q] = "visited"
  BY <1>1 DEF GraphInv, AtRoot, OrderTypeOK, Plugin, OrderAssumption
<1>11. root - 1 \in 1 .. root - 1
  <2>1. root - 1 \in Plugin
    BY <1>1, <1>2, <1>10, FrameFields DEF n
  <2>. QED
    BY <1>2, <2>1 DEF Plugin
<1>12. AtRoot'
  <2>1. \A q \in 1 .. root - 2 : visitState'[q] = "visited"
    BY <1>1, <1>10 DEF OrderTypeOK
  <2>2. n = 1 => visitState'[root - 1] = "visited"
    BY <1>1, <1>2, <1>10 DEF OrderTypeOK
  <2>3. \A q \in 1 .. root - 1 : q = root - 1 \/ q \in 1 .. root - 2
    BY <1>2
  <2>4. n # 1 => stack'[1].plugin = root - 1
    BY <1>2, <1>3, <1>10
  <2>. QED
    BY <1>1, <1>5, <2>1, <2>2, <2>3, <2>4 DEF AtRoot
<1>13. Placed'
  <2>1. ASSUME NEW i \in 1 .. m
        PROVE  \E r \in 1 .. root - 1 :
                 /\ r = ordered[i] \/ Reaches(r, ordered[i])
                 /\ \A q \in 1 .. r - 1 : \E j \in 1 .. i - 1 : ordered'[j] = q
    <3>1. PICK r \in 1 .. root - 1 :
            /\ r = ordered[i] \/ Reaches(r, ordered[i])
            /\ \A q \in 1 .. r - 1 : \E j \in 1 .. i - 1 : ordered[j] = q
      BY DEF GraphInv, Placed, m
    <3>2. \A j \in 1 .. i - 1 : ordered'[j] = ordered[j]
      BY <1>4
    <3>. QED
      BY <3>1, <3>2
  <2>2. root - 1 = p \/ Reaches(root - 1, p)
    BY <1>2, <1>10 DEF GraphInv, Below, n
  <2>3. \A q \in 1 .. root - 2 : \E j \in 1 .. m : ordered'[j] = q
    <3>1. \A q \in 1 .. root - 2 : \E j \in 1 .. m : ordered[j] = q
      BY <1>10 DEF GraphInv, OrderInv, Marks, m
    <3>. QED
      BY <1>4, <3>1
  <2>4. ASSUME NEW i \in 1 .. m + 1
        PROVE  \E r \in 1 .. root - 1 :
                 /\ r = ordered'[i] \/ Reaches(r, ordered'[i])
                 /\ \A q \in 1 .. r - 1 : \E j \in 1 .. i - 1 : ordered'[j] = q
    <3>1. CASE i \in 1 .. m
      BY <1>4, <2>1, <3>1
    <3>2. CASE i = m + 1
      <4>1. root - 1 - 1 = root - 2 /\ i - 1 = m
        BY <1>2, <1>4, <3>2
      <4>. DEFINE R == root - 1
      <4>2. R \in 1 .. R /\ R - 1 = root - 2
        BY <1>11, <4>1
      <4>. HIDE DEF R
      <4>3. R = ordered'[i] \/ Reaches(R, ordered'[i])
        BY <1>4, <2>2, <3>2 DEF R
      <4>4. \A q \in 1 .. R - 1 : \E j \in 1 .. i - 1 : ordered'[j] = q
        BY <2>3, <4>1, <4>2
      <4>5. \E r \in 1 .. R :
              /\ r = ordered'[i] \/ Reaches(r, ordered'[i])
              /\ \A q \in 1 .. r - 1 : \E j \in 1 .. i - 1 : ordered'[j] = q
        BY <4>2, <4>3, <4>4
      <4>. QED
        BY <4>5 DEF R
    <3>. QED
      BY <1>4, <3>1, <3>2
  <2>. QED
    BY <1>1, <1>4, <1>8, <2>4 DEF Placed
<1>. QED
  BY <1>6, <1>7, <1>9, <1>12, <1>13 DEF GraphInv

LEMMA GraphNextInv ==
  ASSUME OrderAssumption, GraphInv, [OrderNext]_orderVars PROVE GraphInv'
<1>1. CASE UNCHANGED orderVars
  <2>1. OrderInv'
    BY <1>1, OrderNextInv DEF GraphInv
  <2>2. \A p, q : Reaches(p, q)' <=> Reaches(p, q)
    BY <1>1, ReachesStable DEF orderVars
  <2>3. Below' /\ AtRoot' /\ Placed'
    BY <1>1, <2>2 DEF orderVars, GraphInv, Below, AtRoot, Placed
  <2>4. MissingIsReal'
    BY <1>1, MissingStable DEF orderVars, GraphInv
  <2>. QED
    BY <2>1, <2>3, <2>4 DEF GraphInv
<1>. QED
  BY <1>1, VisitRootGraph, SkipRequirementGraph, VisitDependencyGraph, SearchFailsGraph,
     PlacePluginGraph DEF OrderNext

(* A cycle through the plugin found again, and none in a list that has     *)
(* been ordered: what comes before a plugin is closed.                     *)
LEMMA GraphInvImplies == ASSUME OrderAssumption, GraphInv PROVE VerdictMatchesGraph
<1>1. ASSUME orderError = "CYCLE" PROVE Cyclic
  <2>1. PICK k \in 1 .. Len(stack) : stack[k].plugin \in DependsOn(Top.plugin)
    BY <1>1 DEF GraphInv, OrderInv, CycleIsReal
  <2>2. /\ Len(stack) \in Nat /\ stack[k].plugin \in Plugin
        /\ Top = stack[Len(stack)] /\ Top.plugin \in Plugin
    <3>1. /\ Len(stack) \in Nat
          /\ \A j \in 1 .. Len(stack) : stack[j].plugin \in Plugin
      BY FrameFields DEF GraphInv, OrderInv
    <3>2. Len(stack) \in 1 .. Len(stack)
      BY <3>1
    <3>. QED
      BY <3>1, <3>2 DEF Top
  <2>3. CASE k = Len(stack)
    BY <2>1, <2>2, <2>3, DirectlyReached DEF Cyclic
  <2>4. CASE k < Len(stack)
    <3>1. Reaches(stack[k].plugin, Top.plugin)
      BY <2>2, <2>4 DEF GraphInv, Below
    <3>2. Reaches(stack[k].plugin, stack[k].plugin)
      BY <2>1, <2>2, <3>1, ReachedThrough
    <3>. QED
      BY <2>2, <3>2 DEF Cyclic
  <2>. QED
    BY <2>2, <2>3, <2>4
<1>2. OrderIsPermutation
  BY OrderInvComplete DEF GraphInv
<1>3. Len(ordered) \in Nat /\ \A i \in 1 .. Len(ordered) : ordered[i] \in Plugin
  BY LenProperties, ElementOfSeq DEF GraphInv, OrderInv, OrderTypeOK
<1>4. ASSUME Ordered, NEW p \in Plugin PROVE ~Reaches(p, p) /\ 0 \notin DependsOn(p)
  <2>1. PICK i \in 1 .. Len(ordered) : ordered[i] = p
    BY <1>2, <1>4 DEF OrderIsPermutation
  <2>. DEFINE S == {ordered[j] : j \in 1 .. i - 1}
  <2>2. \A j \in 1 .. i - 1 : j \in 1 .. Len(ordered) /\ j # i
    BY <1>3
  <2>3. S \subseteq Plugin /\ p \notin S
    BY <1>2, <1>3, <2>1, <2>2 DEF OrderIsPermutation
  <2>4. DependsOn(p) \subseteq S
    BY <2>1 DEF GraphInv, OrderInv, DependenciesFirst
  <2>5. Closed(S)
    <3>1. SUFFICES ASSUME NEW j \in 1 .. i - 1, NEW d \in DependsOn(ordered[j])
                   PROVE  d \in S
      BY DEF Closed
    <3>2. PICK k \in 1 .. j - 1 : ordered[k] = d
      BY <2>2, <3>1 DEF GraphInv, OrderInv, DependenciesFirst
    <3>3. k \in 1 .. i - 1
      BY <1>3
    <3>. QED
      BY <3>2, <3>3
  <2>6. S \in SUBSET (0 .. N) /\ 0 \notin Plugin
    BY <2>3 DEF Plugin, OrderAssumption
  <2>. HIDE DEF S
  <2>. QED
    BY <2>3, <2>4, <2>5, <2>6 DEF Reaches
<1>. QED
  BY <1>1, <1>4 DEF VerdictMatchesGraph, Cyclic, Incomplete, GraphInv, MissingIsReal

(* PLUGIN_DEPENDENCY_CYCLE and a missing plugin are reported only of a     *)
(* graph that has the defect, and an order is returned only without one,   *)
(* whatever the length of the cycle.                                       *)
THEOREM VerdictIsOfTheGraph == OrderSpec => []VerdictMatchesGraph
<1>1. OrderInit => GraphInv
  BY OrderAssumption, GraphStart
<1>2. GraphInv /\ [OrderNext]_orderVars => GraphInv'
  BY OrderAssumption, GraphNextInv
<1>3. GraphInv => VerdictMatchesGraph
  BY OrderAssumption, GraphInvImplies
<1>. QED
  BY <1>1, <1>2, <1>3, PTL DEF OrderSpec

(* Plugins that do not depend on one another stay in the order in which    *)
(* they were registered.                                                   *)
THEOREM RegistrationOrderIsKept == OrderSpec => []RegistrationOrderKept
<1>1. OrderInit => GraphInv
  BY OrderAssumption, GraphStart
<1>2. GraphInv /\ [OrderNext]_orderVars => GraphInv'
  BY OrderAssumption, GraphNextInv
<1>3. ASSUME GraphInv PROVE RegistrationOrderKept
  <2>1. SUFFICES ASSUME NEW i \in 1 .. Len(ordered), NEW j \in 1 .. Len(ordered),
                        i < j, ordered[j] < ordered[i]
                 PROVE  \E r \in 1 .. ordered[j] : Reaches(r, ordered[i])
    BY DEF RegistrationOrderKept
  <2>2. PICK r \in 1 .. root - 1 :
          /\ r = ordered[i] \/ Reaches(r, ordered[i])
          /\ \A q \in 1 .. r - 1 : \E k \in 1 .. i - 1 : ordered[k] = q
    BY <1>3 DEF GraphInv, Placed
  <2>3. /\ Len(ordered) \in Nat /\ root \in Nat
        /\ ordered[i] \in Plugin /\ ordered[j] \in Plugin
    BY <1>3, OrderAssumption, LenProperties, ElementOfSeq
       DEF GraphInv, OrderInv, OrderTypeOK, OrderAssumption
  <2>4. r <= ordered[j]
    <3>1. SUFFICES ASSUME ordered[j] \in 1 .. r - 1 PROVE FALSE
      BY <2>2, <2>3, OrderAssumption DEF Plugin, OrderAssumption
    <3>2. PICK k \in 1 .. i - 1 : ordered[k] = ordered[j]
      BY <2>2, <3>1
    <3>3. k \in 1 .. Len(ordered) /\ k # j
      BY <2>1, <2>3
    <3>. QED
      BY <1>3, <3>2, <3>3 DEF GraphInv, OrderInv, Distinct
  <2>5. r # ordered[i] /\ r \in 1 .. ordered[j]
    BY <2>1, <2>2, <2>3, <2>4, OrderAssumption DEF Plugin, OrderAssumption
  <2>. QED
    BY <2>2, <2>5
<1>. QED
  BY <1>1, <1>2, <1>3, PTL DEF OrderSpec

------------------------------------------------------------------------------
(* Why the search ends.  A call is made for a plugin that was new; between *)
(* two calls the stack only shrinks; and while it keeps its height, a loop *)
(* goes on or the search fails.  There are finitely many plugins, so the   *)
(* steps go down a well-founded order: inclusion, then the height of the   *)
(* stack, then what is ahead of the innermost loop and of the outer one.   *)
New == {p \in Plugin : visitState[p] = "new"}
AheadOf(frames) ==
  IF frames = << >> THEN 0
  ELSE Len(requires[frames[Len(frames)].plugin]) + 1 - frames[Len(frames)].next
Ahead == (N + 1 - root) + AheadOf(stack) + (IF orderError = "none" THEN 1 ELSE 0)

Descends ==
  \/ New' \subseteq New /\ New' # New
  \/ New' = New /\ Len(stack') < Len(stack) /\ Len(stack') \in Nat
  \/ New' = New /\ Len(stack') = Len(stack) /\ Ahead' < Ahead /\ Ahead' \in Nat

(* The guards of the steps: one of them holds until the search is over.    *)
CanStep ==
  \/ stack = << >> /\ root <= N
  \/ InLoop /\ CurrentRequirement.type # "plugin"
  \/ InLoop /\ CurrentRequirement.id = 0
  \/ InLoop /\ visitState[CurrentRequirement.id] \in {"new", "visiting", "visited"}
  \/ stack # << >> /\ Top.next > Len(TopRequires)

LEMMA AheadIsNatural ==
  ASSUME OrderAssumption, OrderInv
  PROVE  /\ N + 1 - root \in Nat /\ AheadOf(stack) \in Nat /\ Ahead \in Nat
<1>1. N + 1 - root \in Nat
  BY DEF OrderInv, OrderTypeOK, OrderAssumption
<1>2. CASE stack = << >>
  <2>1. AheadOf(stack) = 0
    BY <1>2 DEF AheadOf
  <2>. QED
    BY <1>1, <2>1 DEF Ahead
<1>3. CASE stack # << >>
  <2>1. /\ Len(stack) \in Nat \ {0} /\ Top.next \in Nat \ {0} /\ TopRequires \in Seq(Requirement)
    BY <1>3, TopFrame DEF OrderInv
  <2>2. Top.next <= Len(TopRequires) + 1
    BY <2>1 DEF OrderInv, Looped, Top, TopRequires
  <2>3. AheadOf(stack) = Len(TopRequires) + 1 - Top.next
    BY <1>3 DEF AheadOf, Top, TopRequires
  <2>4. Len(TopRequires) \in Nat
    BY <2>1, LenProperties
  <2>5. AheadOf(stack) \in Nat
    BY <2>1, <2>2, <2>3, <2>4
  <2>. QED
    BY <1>1, <2>5 DEF Ahead
<1>. QED
  BY <1>2, <1>3

(* A call takes its plugin out of New.                                     *)
LEMMA CallDescends ==
  ASSUME OrderInv, NEW p \in Plugin, visitState[p] = "new",
         visitState' = [visitState EXCEPT ![p] = "visiting"]
  PROVE  Descends
<1>1. p \in New
  BY DEF New
<1>2. visitState'[p] = "visiting" /\ \A q \in Plugin : q # p => visitState'[q] = visitState[q]
  BY DEF OrderInv, OrderTypeOK
<1>3. p \notin New' /\ New' \subseteq New
  BY <1>2 DEF New
<1>. QED
  BY <1>1, <1>3 DEF Descends

LEMMA StepDescends ==
  ASSUME OrderAssumption, OrderInv, OrderInv', OrderNext
  PROVE  Descends
<1>0. /\ N + 1 - root \in Nat /\ AheadOf(stack) \in Nat /\ Ahead \in Nat
      /\ root \in Nat /\ N \in Nat
  BY AheadIsNatural DEF OrderInv, OrderTypeOK, OrderAssumption
<1>1. Ahead' \in Nat
  <2>1. N + 1 - root' \in Nat
    <3>1. root' \in 1 .. N + 1
      BY DEF OrderInv, OrderTypeOK
    <3>2. N \in Nat
      BY DEF OrderAssumption
    <3>3. \A n \in 1 .. N + 1 : N + 1 - n \in Nat
      BY <3>2
    <3>. QED
      BY <3>1, <3>3
  <2>2. CASE stack' = << >>
    BY <2>1, <2>2 DEF Ahead, AheadOf
  <2>3. CASE stack' # << >>
    <3>. DEFINE f == stack'[Len(stack')]
    <3>1. stack' \in Seq(Frame) /\ Len(stack') \in Nat \ {0}
      BY <2>3, LenProperties, EmptySeq DEF OrderInv, OrderTypeOK
    <3>2. f \in Frame
      BY <3>1, ElementOfSeq
    <3>3. f.next \in Nat /\ f.plugin \in Plugin
      BY <3>2 DEF Frame
    <3>4. f.next <= Len(requires'[f.plugin]) + 1
      BY <3>1 DEF OrderInv, Looped
    <3>5. requires'[f.plugin] \in Seq(Requirement)
      BY <3>3 DEF OrderInv, OrderTypeOK
    <3>6. Len(requires'[f.plugin]) \in Nat
      BY <3>5, LenProperties
    <3>7. AheadOf(stack)' = Len(requires'[f.plugin]) + 1 - f.next
      BY <2>3 DEF AheadOf
    <3>. HIDE DEF f
    <3>8. AheadOf(stack)' \in Nat
      BY <3>3, <3>4, <3>6, <3>7
    <3>. QED
      BY <2>1, <3>8 DEF Ahead
  <2>. QED
    BY <2>2, <2>3
<1>2. CASE VisitRoot
  <2>1. root \in Plugin
    BY <1>0, <1>2 DEF VisitRoot, Plugin, OrderInv, OrderTypeOK
  <2>2. CASE visitState[root] = "new"
    BY <1>2, <2>1, <2>2, CallDescends DEF VisitRoot, Call
  <2>3. CASE visitState[root] # "new"
    <3>1. New' = New /\ stack' = stack /\ root' = root + 1 /\ UNCHANGED <<requires, orderError>>
      BY <1>2, <2>3 DEF VisitRoot, New
    <3>2. AheadOf(stack)' = AheadOf(stack)
      BY <3>1 DEF AheadOf
    <3>3. Ahead' < Ahead
      BY <1>0, <3>1, <3>2 DEF Ahead
    <3>. QED
      BY <1>1, <3>1, <3>3 DEF Descends
  <2>. QED
    BY <2>2, <2>3
<1>3. CASE SkipRequirement
  <2>1. /\ stack # << >> /\ stack' = Advanced /\ New' = New
        /\ UNCHANGED <<requires, root, orderError>>
    BY <1>3 DEF SkipRequirement, InLoop, New
  <2>2. /\ Len(stack) \in Nat \ {0} /\ Len(stack') = Len(stack)
        /\ stack'[Len(stack)].plugin = stack[Len(stack)].plugin
        /\ stack'[Len(stack)].next = stack[Len(stack)].next + 1
        /\ stack[Len(stack)].next \in Nat /\ stack[Len(stack)].plugin \in Plugin
    BY <2>1, TopFrame, AdvanceEffect DEF OrderInv, Top
  <2>3. stack' # << >>
    BY <2>2, EmptySeq
  <2>4. Len(requires[stack[Len(stack)].plugin]) \in Nat
    BY <2>2, LenProperties DEF OrderInv, OrderTypeOK
  <2>5. AheadOf(stack)' = AheadOf(stack) - 1
    <3>. DEFINE m == stack[Len(stack)].next
                k == Len(requires[stack[Len(stack)].plugin])
    <3>1. AheadOf(stack) = k + 1 - m /\ AheadOf(stack)' = k + 1 - (m + 1)
      BY <2>1, <2>2, <2>3 DEF AheadOf
    <3>2. m \in Nat /\ k \in Nat
      BY <2>2, <2>4
    <3>. HIDE DEF m, k
    <3>. QED
      BY <3>1, <3>2
  <2>6. Ahead' < Ahead
    BY <1>0, <2>1, <2>5 DEF Ahead
  <2>. QED
    BY <1>1, <2>1, <2>2, <2>6 DEF Descends
<1>4. CASE VisitDependency
  <2>1. CurrentRequirement.id \in Plugin
    BY <1>4, CurrentRequirementType DEF VisitDependency, OrderInv, Plugin, OrderAssumption
  <2>. QED
    BY <1>4, <2>1, CallDescends DEF VisitDependency, Call
<1>5. CASE DependencyMissing \/ DependencyCycle
  <2>1. /\ orderError = "none" /\ orderError' # "none"
        /\ UNCHANGED <<requires, root, visitState, stack>>
    BY <1>5 DEF DependencyMissing, DependencyCycle, InLoop
  <2>2. New' = New /\ AheadOf(stack)' = AheadOf(stack)
    BY <2>1 DEF New, AheadOf
  <2>3. Ahead' < Ahead
    BY <1>0, <2>1, <2>2 DEF Ahead
  <2>. QED
    BY <1>1, <2>1, <2>2, <2>3 DEF Descends
<1>6. CASE PlacePlugin
  <2>1. /\ stack # << >> /\ stack' = SubSeq(stack, 1, Len(stack) - 1)
        /\ visitState' = [visitState EXCEPT ![Top.plugin] = "visited"]
    BY <1>6 DEF PlacePlugin
  <2>2. Len(stack) \in Nat \ {0} /\ Top.plugin \in Plugin /\ Len(stack') = Len(stack) - 1
    BY <2>1, TopFrame, PopEffect DEF OrderInv
  <2>3. visitState[Top.plugin] = "visiting"
    BY <2>2 DEF OrderInv, Marks, Top
  <2>4. \A q \in Plugin : visitState'[q] = IF q = Top.plugin THEN "visited" ELSE visitState[q]
    BY <2>1 DEF OrderInv, OrderTypeOK
  <2>5. New' = New
    BY <2>3, <2>4 DEF New
  <2>. QED
    BY <2>2, <2>5 DEF Descends
<1>. QED
  BY <1>2, <1>3, <1>4, <1>5, <1>6 DEF OrderNext

(* What the end of the search rests on, for any number of plugins and any  *)
(* manifests: until order_plugins returns or raises one of its steps is    *)
(* possible, and every step goes down an order without infinite descent.   *)
THEOREM SearchDescends ==
  OrderSpec => /\ [](Ordered \/ orderError # "none" \/ CanStep)
               /\ [][Descends]_orderVars
<1>1. ASSUME OrderInv PROVE Ordered \/ orderError # "none" \/ CanStep
  <2>1. CASE stack = << >>
    BY <1>1, <2>1, OrderAssumption DEF Ordered, CanStep, OrderInv, OrderTypeOK, OrderAssumption
  <2>2. CASE stack # << >> /\ orderError = "none"
    <3>1. Top.next \in Nat /\ Len(TopRequires) \in Nat
      BY <1>1, <2>2, TopFrame, LenProperties DEF OrderInv
    <3>2. CASE Top.next <= Len(TopRequires)
      <4>1. InLoop
        BY <2>2, <3>2 DEF InLoop
      <4>2. CurrentRequirement.id \in 0 .. N
        BY <1>1, <4>1, CurrentRequirementType DEF OrderInv
      <4>3. CurrentRequirement.id = 0 \/ CurrentRequirement.id \in Plugin
        BY <4>2, OrderAssumption DEF Plugin, OrderAssumption
      <4>. QED
        BY <1>1, <4>1, <4>3 DEF CanStep, OrderInv, OrderTypeOK
    <3>. QED
      BY <2>2, <3>1, <3>2 DEF CanStep
  <2>. QED
    BY <2>1, <2>2
<1>2. OrderInv /\ OrderInv' /\ [OrderNext]_orderVars => [Descends]_orderVars
  BY OrderAssumption, StepDescends
<1>. QED
  BY <1>1, <1>2, OrderInvariant, PTL DEF OrderSpec
==============================================================================
