---------------------------- MODULE Surface_proofs ----------------------------
(***************************************************************************)
(* Proofs about the parts of an application outside the request pipeline.  *)
(*                                                                         *)
(* HealthService: for any checks and any number of concurrent evaluations, *)
(* the answer is the worst of what the checks of that evaluation said.     *)
(*                                                                         *)
(* OutboundCalls: for any operations, propagators and policies, what the   *)
(* telemetry hooks and the spans say of a call that is over is what        *)
(* happened to it, and the called service continues its trace.             *)
(*                                                                         *)
(* UseCaseRoutes: for any modules and paths, an operation in a document is *)
(* served there.  The first mount that fits answers, so the proof needs    *)
(* the first place of a list (FirstPlace).                                 *)
(*                                                                         *)
(* Metrics: for any label sets, boundaries and amounts, what is exposed is *)
(* what was told.  A total is a recursive function, whose values are given *)
(* by Induction.                                                           *)
(***************************************************************************)
EXTENDS UseCaseRoutes, HealthService, OutboundCalls, Metrics, TLAPS, SequenceTheorems, FiniteSetTheorems

(* A set of naturals has a least element: of the intervals below its       *)
(* elements, which are finite, one includes none of the others.            *)
LEMMA Least ==
  ASSUME NEW S, S \subseteq Nat, S # {}
  PROVE  \E n \in S : \A m \in S : n <= m
<1>. DEFINE Under(n) == 0 .. n - 1
            Unders == {Under(n) : n \in S}
<1>1. Unders \subseteq FiniteSubsetsOf(Nat) /\ Unders # {}
  <2>1. ASSUME NEW n \in S PROVE Under(n) \in SUBSET Nat /\ IsFiniteSet(Under(n))
    BY FS_Interval
  <2>. QED
    BY <2>1 DEF FiniteSubsetsOf
<1>2. PICK u \in Unders : \A w \in Unders : <<w, u>> \notin StrictSubsetOrdering(Nat)
  <2>. HIDE DEF Unders
  <2>. QED
    BY <1>1, FS_StrictSubsetOrderingWellFounded, WFMin
<1>3. PICK n \in S : u = Under(n)
  OBVIOUS
<1>4. ASSUME NEW m \in S, m < n PROVE FALSE
  <2>1. Under(m) \in SUBSET Nat /\ Under(n) \in SUBSET Nat /\ Under(m) \subseteq Under(n)
    BY <1>4
  <2>2. m \in Under(n) /\ m \notin Under(m)
    BY <1>4
  <2>3. <<Under(m), Under(n)>> \in StrictSubsetOrdering(Nat)
    BY <2>1, <2>2 DEF StrictSubsetOrdering
  <2>. QED
    BY <2>3, <1>2, <1>3
<1>. QED
  BY <1>4

(* Induction, for a set: otherwise the least number outside it would have  *)
(* a predecessor in it.                                                    *)
LEMMA Induction ==
  ASSUME NEW S, 0 \in S, \A n \in Nat : n \in S => n + 1 \in S
  PROVE  Nat \subseteq S
<1>. SUFFICES ASSUME Nat \ S # {} PROVE FALSE
  OBVIOUS
<1>1. PICK n \in Nat \ S : \A m \in Nat \ S : n <= m
  BY Least
<1>2. n # 0 /\ n - 1 \in Nat
  OBVIOUS
<1>3. n - 1 \in S
  BY <1>1, <1>2
<1>. QED
  BY <1>2, <1>3

(* A nonempty set of places of a list has a first one.                     *)
LEMMA FirstPlace ==
  ASSUME NEW n \in Nat, NEW S \in SUBSET (1 .. n), S # {}
  PROVE  \E x \in S : \A y \in S : x <= y
<1>. S \subseteq Nat
  OBVIOUS
<1>. QED
  BY Least

------------------------------------------------------------------------------
(* The routes.  Every registration, in the registry or in a document, is   *)
(* of a module that its application has mounted, under a path made of the  *)
(* same base.                                                              *)
Root(a) == NormalBase(BasePath[a])

Mounted(list, r) ==
  /\ r.app \in App /\ r.module \in Segment /\ r.command \in Segment
  /\ r.path = Root(r.app) \o <<r.module, r.command>>
  /\ \E i \in 1 .. Len(list[r.app]) :
       /\ list[r.app][i].path = Root(r.app) \o <<r.module>>
       /\ \E k \in 1 .. Len(list[r.app][i].routes) :
            list[r.app][i].routes[k] = <<r.command, r.method>>

Mount == [path : Seq(Segment), routes : UseCaseLists]
Use == [app : App, module : Segment, command : Segment, method : STRING, path : Seq(Segment)]

RoutesInv ==
  /\ registry \in Seq(Use)
  /\ mounts \in [App -> Seq(Mount)]
  /\ DOMAIN document = App
  /\ \A a \in App : \A i \in 1 .. Len(mounts[a]) :
       \E name \in Segment : mounts[a][i].path = Root(a) \o <<name>>
  /\ \A k \in 1 .. Len(registry) : Mounted(mounts, registry[k])
  /\ \A a \in App : \A key \in DOMAIN document[a] : Mounted(mounts, document[a][key])

LEMMA LastPlace ==
  ASSUME NEW n \in Nat, NEW S \in SUBSET (1 .. n), S # {}
  PROVE  Max(S) \in S
<1>. DEFINE T == {n + 1 - x : x \in S}
<1>1. T \in SUBSET (1 .. n) /\ T # {}
  <2>1. \A x \in S : n + 1 - x \in 1 .. n
    OBVIOUS
  <2>2. \A y \in T : y \in 1 .. n
    BY <2>1
  <2>. QED
    BY <2>2
<1>2. \E x \in T : \A y \in T : x <= y
  <2>. HIDE DEF T
  <2>. QED
    BY <1>1, FirstPlace
<1>3. PICK x \in S : \A y \in S : n + 1 - x <= n + 1 - y
  BY <1>2
<1>4. \A y \in S : x >= y
  BY <1>3
<1>. QED
  BY <1>4 DEF Max

LEMMA RootIsPath ==
  ASSUME RoutesAssumption, NEW a \in App
  PROVE  Root(a) \in Seq(Segment)
<1>1. BasePath[a] \in Seq(Segment) /\ <<Empty>> \in Seq(Segment)
  BY DEF RoutesAssumption, Empty, Segment
<1>2. <<Empty>> \o BasePath[a] \in Seq(Segment)
  BY <1>1, ConcatProperties
<1>. QED
  BY <1>1, <1>2 DEF Root, NormalBase

(* A mount is a prefix of the path of a use case exactly when it is the    *)
(* one of its module.                                                      *)
LEMMA PrefixIsModule ==
  ASSUME NEW S, NEW b \in Seq(S), NEW name \in S, NEW module \in S, NEW command \in S
  PROVE  IsStrictPrefix(b \o <<name>>, b \o <<module, command>>) <=> name = module
<1>. DEFINE p == b \o <<name>>
            q == b \o <<module, command>>
            n == Len(b)
            cut == SubSeq(q, 1, n + 1)
<1>1. <<name>> \in Seq(S) /\ <<module, command>> \in Seq(S) /\ n \in Nat
  BY LenProperties
<1>2. /\ p \in Seq(S) /\ Len(p) = n + 1
      /\ \A i \in 1 .. n + 1 : p[i] = IF i <= n THEN b[i] ELSE name
  <2>1. /\ p \in Seq(S) /\ Len(p) = n + 1
        /\ \A i \in 1 .. n + 1 : p[i] = IF i <= n THEN b[i] ELSE <<name>>[i - n]
    BY <1>1, ConcatProperties
  <2>2. \A i \in 1 .. n + 1 : ~(i <= n) => i - n = 1
    BY <1>1
  <2>. QED
    BY <2>1, <2>2
<1>3. /\ q \in Seq(S) /\ Len(q) = n + 2
      /\ \A i \in 1 .. n + 1 : q[i] = IF i <= n THEN b[i] ELSE module
  <2>1. /\ q \in Seq(S) /\ Len(q) = n + 2
        /\ \A i \in 1 .. n + 2 : q[i] = IF i <= n THEN b[i] ELSE <<module, command>>[i - n]
    BY <1>1, ConcatProperties
  <2>2. \A i \in 1 .. n + 1 : i \in 1 .. n + 2 /\ (~(i <= n) => i - n = 1)
    BY <1>1
  <2>. QED
    BY <2>1, <2>2
<1>. HIDE DEF p, q, n
<1>4. SubSeq(p, 1, n + 1) = p
  BY <1>2, SubSeqFull
<1>5. cut \in Seq(S) /\ Len(cut) = n + 1 /\ \A i \in 1 .. n + 1 : cut[i] = q[i]
  <2>1. \A i \in 1 .. n + 1 : q[i] \in S
    BY <1>1, <1>3, ElementOfSeq
  <2>. DEFINE last == n + 1
              first == 1
  <2>2. first \in Int /\ last \in Int /\ cut = SubSeq(q, first, last)
        /\ \A i \in first .. last : q[i] \in S
    BY <1>1, <2>1
  <2>. HIDE DEF cut, last, first
  <2>3. /\ cut \in Seq(S)
        /\ Len(cut) = IF first <= last THEN last - first + 1 ELSE 0
        /\ \A i \in 1 .. last - first + 1 : cut[i] = q[first + i - 1]
    BY <2>2, SubSeqProperties
  <2>4. /\ first = 1 /\ last = n + 1 /\ first <= last /\ last - first + 1 = n + 1
        /\ \A i \in 1 .. n + 1 : first + i - 1 = i
    BY <1>1 DEF first, last
  <2>. QED
    BY <2>3, <2>4
<1>. HIDE DEF cut
<1>6. cut = p <=> name = module
  <2>1. ASSUME name = module PROVE cut = p
    <3>1. \A i \in 1 .. n + 1 : cut[i] = p[i]
      BY <1>2, <1>3, <1>5, <2>1
    <3>. QED
      BY <1>2, <1>5, <3>1, SeqEqual
  <2>2. ASSUME cut = p PROVE name = module
    <3>1. n + 1 \in 1 .. n + 1 /\ ~(n + 1 <= n)
      BY <1>1
    <3>2. p[n + 1] = name /\ cut[n + 1] = module
      BY <1>2, <1>3, <1>5, <3>1
    <3>. QED
      BY <2>2, <3>2
  <2>. QED
    BY <2>1, <2>2
<1>7. Len(p) <= Len(q) /\ p # q
  BY <1>1, <1>2, <1>3
<1>. QED
  BY <1>2, <1>4, <1>6, <1>7 DEF IsStrictPrefix, IsPrefix, p, q, cut

LEMMA CommandOfModule ==
  ASSUME NEW S, NEW b \in Seq(S), NEW module \in S, NEW command \in S
  PROVE  (b \o <<module>>) \o <<command>> = b \o <<module, command>>
<1>1. <<module>> \in Seq(S) /\ <<command>> \in Seq(S) /\ <<module, command>> \in Seq(S)
  OBVIOUS
<1>. DEFINE m == <<module>>
            c == <<command>>
            both == <<module, command>>
<1>2. /\ Len(m) = 1 /\ Len(c) = 1 /\ Len(both) = 2
      /\ m[1] = module /\ c[1] = command /\ both[1] = module /\ both[2] = command
  OBVIOUS
<1>. HIDE DEF m, c, both
<1>3. m \in Seq(S) /\ c \in Seq(S) /\ both \in Seq(S)
  BY <1>1 DEF m, c, both
<1>4. m \o c = both
  <2>1. /\ m \o c \in Seq(S) /\ Len(m \o c) = 2
        /\ \A i \in 1 .. 2 : (m \o c)[i] = IF i <= 1 THEN m[i] ELSE c[i - 1]
    <3>1. /\ m \o c \in Seq(S) /\ Len(m \o c) = Len(m) + Len(c)
          /\ \A i \in 1 .. Len(m) + Len(c) :
               (m \o c)[i] = IF i <= Len(m) THEN m[i] ELSE c[i - Len(m)]
      BY <1>3, ConcatProperties
    <3>. QED
      BY <1>2, <3>1
  <2>2. \A i \in 1 .. 2 : (m \o c)[i] = both[i]
    BY <1>2, <2>1
  <2>. QED
    BY <1>2, <1>3, <2>1, <2>2, SeqEqual
<1>5. (b \o m) \o c = b \o (m \o c)
  BY <1>3, ConcatAssociative
<1>. QED
  BY <1>4, <1>5 DEF m, c, both

(* Under a base whose first segment is not empty one is put before it, so  *)
(* a plugin route of one segment is never longer than a mount.             *)
LEMMA JoinedIsShort ==
  ASSUME RoutesAssumption, NEW a \in App, NEW relative \in PluginPaths, Len(relative) = 1
  PROVE  LET path == JoinPath(BasePath[a], relative)
         IN  /\ Len(path) \in Nat /\ \E S : path \in Seq(S)
             /\ Len(path) <= Len(Root(a)) + 1
<1>. DEFINE base == BasePath[a]
            all == base \o relative
            kept == {k \in 1 .. Len(all) : all[k] # Empty}
            Nth(n) == CHOOSE k \in kept : Cardinality({j \in kept : j <= k}) = n
            size == Cardinality(kept)
            parts == [n \in 1 .. size |-> all[Nth(n)]]
            Places == 1 .. Len(base) + 1
            Later == 2 .. Len(base) + 1
<1>1. /\ base \in Seq(Segment) /\ base # << >> /\ relative \in Seq(Segment)
      /\ Len(base) \in Nat /\ Len(base) # 0
  BY LenProperties DEF RoutesAssumption
<1>2. /\ Len(all) = Len(base) + 1
      /\ \A k \in 1 .. Len(base) : all[k] = base[k]
  <2>1. /\ Len(all) = Len(base) + Len(relative)
        /\ \A k \in 1 .. Len(base) + Len(relative) :
             all[k] = IF k <= Len(base) THEN base[k] ELSE relative[k - Len(base)]
    <3>1. \A s, t \in Seq(Segment) :
            /\ Len(s \o t) = Len(s) + Len(t)
            /\ \A k \in 1 .. Len(s) + Len(t) :
                 (s \o t)[k] = IF k <= Len(s) THEN s[k] ELSE t[k - Len(s)]
      BY ConcatProperties
    <3>. HIDE DEF base
    <3>. QED
      BY <1>1, <3>1
  <2>. HIDE DEF base, all
  <2>. QED
    BY <1>1, <2>1
<1>. HIDE DEF base, all
<1>3. /\ IsFiniteSet(Places) /\ Cardinality(Places) = Len(base) + 1
      /\ IsFiniteSet(Later) /\ Cardinality(Later) = Len(base)
  <2>. DEFINE last == Len(base) + 1
  <2>1. last \in Int /\ last >= 2 /\ last - 1 + 1 = Len(base) + 1 /\ last - 2 + 1 = Len(base)
    BY <1>1
  <2>. HIDE DEF last
  <2>2. IsFiniteSet(1 .. last) /\ Cardinality(1 .. last) = IF 1 > last THEN 0 ELSE last - 1 + 1
    BY <2>1, FS_Interval
  <2>3. IsFiniteSet(2 .. last) /\ Cardinality(2 .. last) = IF 2 > last THEN 0 ELSE last - 2 + 1
    BY <2>1, FS_Interval
  <2>. QED
    BY <2>1, <2>2, <2>3 DEF last
<1>4. kept \in SUBSET Places /\ (base[1] = Empty => kept \in SUBSET Later)
  <2>1. base[1] = Empty => 1 \notin kept
    <3>1. 1 \in 1 .. Len(base)
      BY <1>1
    <3>2. all[1] = base[1]
      BY <1>2, <3>1
    <3>. QED
      BY <3>2
  <2>2. kept \in SUBSET Places
    BY <1>2
  <2>. HIDE DEF kept
  <2>. QED
    BY <1>1, <2>1, <2>2
<1>5. /\ size \in Nat /\ size <= Len(base) + 1 /\ (base[1] = Empty => size <= Len(base))
  <2>. HIDE DEF kept, Places, Later
  <2>1. IsFiniteSet(kept) /\ Cardinality(kept) <= Len(base) + 1
    BY <1>3, <1>4, FS_Subset
  <2>2. base[1] = Empty => Cardinality(kept) <= Len(base)
    BY <1>3, <1>4, FS_Subset
  <2>. QED
    BY <2>1, <2>2, FS_CardinalityType
<1>6. parts \in Seq({all[Nth(n)] : n \in 1 .. size}) /\ Len(parts) = size
  <2>. HIDE DEF size, Nth
  <2>. DEFINE S == {all[Nth(n)] : n \in 1 .. size}
  <2>1. \A n \in 1 .. size : all[Nth(n)] \in S
    OBVIOUS
  <2>. HIDE DEF S
  <2>2. parts \in [1 .. size -> S]
    BY <2>1
  <2>3. parts \in Seq(S) /\ Len(parts) = size
    BY <1>5, <2>1, <2>2, IsASeq
  <2>. QED
    BY <2>3 DEF S
<1>7. JoinPath(base, relative) = <<Empty>> \o parts
  BY DEF JoinPath, all
<1>. HIDE DEF parts
<1>8. Len(<<Empty>> \o parts) = 1 + size /\ \E S : <<Empty>> \o parts \in Seq(S)
  <2>. HIDE DEF size, Nth
  <2>. DEFINE S == {all[Nth(n)] : n \in 1 .. size} \cup {Empty}
              slash == <<Empty>>
  <2>1. parts \in Seq(S)
    BY <1>6
  <2>2. slash \in Seq(S) /\ Len(slash) = 1
    OBVIOUS
  <2>. HIDE DEF S, slash
  <2>3. Len(slash \o parts) = Len(slash) + Len(parts) /\ slash \o parts \in Seq(S)
    BY <2>1, <2>2, ConcatProperties
  <2>4. \E T : slash \o parts \in Seq(T)
    BY <2>3
  <2>. QED
    BY <1>5, <1>6, <2>2, <2>3, <2>4 DEF slash
<1>9. Root(a) = IF base[1] = Empty THEN base ELSE <<Empty>> \o base
  BY DEF Root, NormalBase, base
<1>10. Len(<<Empty>> \o base) = 1 + Len(base)
  <2>1. <<Empty>> \in Seq(Segment) /\ Len(<<Empty>>) = 1
    BY DEF Empty, Segment
  <2>. QED
    BY <1>1, <2>1, ConcatProperties
<1>. HIDE DEF size
<1>12. Len(JoinPath(base, relative)) = 1 + size /\ \E S : JoinPath(base, relative) \in Seq(S)
  BY <1>7, <1>8
<1>13. Len(Root(a)) + 1 >= 1 + size
  BY <1>1, <1>5, <1>9, <1>10
<1>14. Len(JoinPath(base, relative)) <= Len(Root(a)) + 1
  <2>1. Len(Root(a)) \in Nat
    BY <1>1, <1>9, <1>10
  <2>. QED
    BY <1>5, <1>12, <1>13, <2>1
<1>. QED
  BY <1>5, <1>12, <1>14 DEF base

LEMMA RoutesStart == RoutesInit => RoutesInv
BY DEF RoutesInit, RoutesInv

(* A module() call.                                                        *)
LEMMA AddModuleInv ==
  ASSUME RoutesAssumption, RoutesInv, NEW a \in App, NEW name \in Modules, NEW uses \in UseCaseLists,
         AddModule(a, name, uses)
  PROVE  RoutesInv'
<1>. DEFINE mount == [path |-> Root(a) \o <<name>>, routes |-> uses]
            added == [k \in 1 .. Len(uses) |-> Registered(a, name, uses[k])]
            n == Len(registry)
            m == Len(mounts[a])
<1>1. /\ uses \in Seq(UseCase) /\ Len(uses) \in Nat /\ name \in Segment
      /\ \A k \in 1 .. Len(uses) : uses[k] = <<uses[k][1], uses[k][2]>>
                                   /\ uses[k][1] \in Segment /\ uses[k][2] \in STRING
  <2>1. uses \in Seq(UseCase) /\ name \in Segment
    BY DEF RoutesAssumption
  <2>2. Len(uses) \in Nat /\ \A k \in 1 .. Len(uses) : uses[k] \in UseCase
    BY <2>1, LenProperties, ElementOfSeq
  <2>. QED
    BY <2>1, <2>2 DEF UseCase
<1>2. Root(a) \in Seq(Segment)
  BY RootIsPath
<1>3. mount \in Mount
  <2>1. <<name>> \in Seq(Segment)
    BY <1>1
  <2>2. Root(a) \o <<name>> \in Seq(Segment)
    BY <1>2, <2>1, ConcatProperties
  <2>. QED
    BY <2>2 DEF Mount
<1>4. \A k \in 1 .. Len(uses) : added[k] \in Use
  <2>. SUFFICES ASSUME NEW k \in 1 .. Len(uses) PROVE added[k] \in Use
    OBVIOUS
  <2>1. added[k] = [app |-> a, module |-> name, command |-> uses[k][1], method |-> uses[k][2],
                    path |-> Root(a) \o <<name, uses[k][1]>>]
    BY DEF Registered, Root
  <2>2. <<name, uses[k][1]>> \in Seq(Segment)
    BY <1>1
  <2>3. Root(a) \o <<name, uses[k][1]>> \in Seq(Segment)
    BY <1>2, <2>2, ConcatProperties
  <2>. HIDE DEF added
  <2>. QED
    BY <1>1, <2>1, <2>3 DEF Use
<1>5. added \in Seq(Use) /\ Len(added) = Len(uses)
  <2>1. added \in [1 .. Len(uses) -> Use]
    BY <1>4
  <2>. HIDE DEF added
  <2>2. DOMAIN added = 1 .. Len(uses)
    BY <2>1
  <2>. QED
    BY <1>1, <2>1, <2>2
<1>6. /\ registry' = registry \o added
      /\ mounts' = [mounts EXCEPT ![a] = Append(mounts[a], mount)]
      /\ UNCHANGED document
  BY DEF AddModule, Root
<1>7. /\ registry \in Seq(Use) /\ n \in Nat /\ mounts \in [App -> Seq(Mount)]
      /\ mounts[a] \in Seq(Mount) /\ m \in Nat
  BY LenProperties DEF RoutesInv
<1>8. /\ Append(mounts[a], mount) \in Seq(Mount) /\ Len(Append(mounts[a], mount)) = m + 1
      /\ \A i \in 1 .. m : Append(mounts[a], mount)[i] = mounts[a][i]
      /\ Append(mounts[a], mount)[m + 1] = mount
  BY <1>3, <1>7, AppendProperties
<1>9. /\ registry' \in Seq(Use) /\ Len(registry') = n + Len(uses)
      /\ \A k \in 1 .. n + Len(uses) :
           registry'[k] = IF k <= n THEN registry[k] ELSE added[k - n]
  <2>. HIDE DEF added, mount
  <2>1. registry' = registry \o added
    BY <1>6
  <2>2. /\ registry \o added \in Seq(Use)
        /\ Len(registry \o added) = Len(registry) + Len(added)
        /\ \A k \in 1 .. Len(registry) + Len(added) :
             (registry \o added)[k] = IF k <= Len(registry) THEN registry[k]
                                      ELSE added[k - Len(registry)]
    <3>1. registry \in Seq(Use) /\ added \in Seq(Use)
      BY <1>5, <1>7
    <3>. QED
      BY <3>1, ConcatProperties
  <2>. QED
    BY <1>5, <2>1, <2>2
<1>10. /\ mounts' \in [App -> Seq(Mount)]
       /\ Len(mounts'[a]) = m + 1 /\ mounts'[a][m + 1] = mount
       /\ \A i \in 1 .. m : mounts'[a][i] = mounts[a][i]
       /\ \A b \in App : b # a => mounts'[b] = mounts[b]
  <2>. DEFINE longer == Append(mounts[a], mount)
  <2>1. mounts' = [mounts EXCEPT ![a] = longer]
    BY <1>6
  <2>2. longer \in Seq(Mount)
    BY <1>8
  <2>. HIDE DEF longer, mount
  <2>3. /\ mounts' \in [App -> Seq(Mount)] /\ mounts'[a] = longer
        /\ \A b \in App : b # a => mounts'[b] = mounts[b]
    BY <1>7, <2>1, <2>2
  <2>. QED
    BY <1>8, <2>3 DEF longer
<1>m. m = Len(mounts[a]) /\ n = Len(registry) /\ m \in Nat /\ n \in Nat
  BY <1>7
<1>. HIDE DEF n, m
<1>11. ASSUME NEW r, Mounted(mounts, r)
       PROVE  Mounted(mounts', r)
  <2>1. PICK i \in 1 .. Len(mounts[r.app]) :
          /\ mounts[r.app][i].path = Root(r.app) \o <<r.module>>
          /\ \E k \in 1 .. Len(mounts[r.app][i].routes) :
               mounts[r.app][i].routes[k] = <<r.command, r.method>>
    BY <1>11 DEF Mounted
  <2>2. i \in 1 .. Len(mounts'[r.app]) /\ mounts'[r.app][i] = mounts[r.app][i]
    <3>1. CASE r.app = a
      BY <1>m, <1>10, <2>1, <3>1
    <3>2. CASE r.app # a
      BY <1>10, <1>11, <2>1, <3>2 DEF Mounted
    <3>. QED
      BY <3>1, <3>2
  <2>. QED
    BY <1>11, <2>1, <2>2 DEF Mounted
<1>12. ASSUME NEW k \in 1 .. Len(uses)
       PROVE  Mounted(mounts', added[k])
  <2>1. added[k] = [app |-> a, module |-> name, command |-> uses[k][1], method |-> uses[k][2],
                    path |-> Root(a) \o <<name, uses[k][1]>>]
    BY DEF Registered, Root
  <2>. HIDE DEF added
  <2>2. /\ m + 1 \in 1 .. Len(mounts'[a])
        /\ mounts'[a][m + 1].path = Root(a) \o <<name>>
        /\ mounts'[a][m + 1].routes = uses
    BY <1>m, <1>10
  <2>. DEFINE r == added[k]
  <2>3. /\ r.app = a /\ r.module = name /\ r.command = uses[k][1] /\ r.method = uses[k][2]
        /\ r.path = Root(a) \o <<name, uses[k][1]>>
    BY <2>1
  <2>. HIDE DEF r, mount
  <2>4. uses[k] = <<r.command, r.method>> /\ r.command \in Segment /\ r.module \in Segment
    BY <1>1, <2>3
  <2>5. r.path = Root(r.app) \o <<r.module, r.command>>
    BY <2>3
  <2>6. \E i \in 1 .. Len(mounts'[r.app]) :
          /\ mounts'[r.app][i].path = Root(r.app) \o <<r.module>>
          /\ \E j \in 1 .. Len(mounts'[r.app][i].routes) :
               mounts'[r.app][i].routes[j] = <<r.command, r.method>>
    BY <2>2, <2>3, <2>4
  <2>7. Mounted(mounts', r)
    BY <2>3, <2>4, <2>5, <2>6 DEF Mounted
  <2>. QED
    BY <2>7 DEF r
<1>. HIDE DEF added
<1>13. \A k \in 1 .. Len(registry') : Mounted(mounts', registry'[k])
  <2>. SUFFICES ASSUME NEW k \in 1 .. Len(registry') PROVE Mounted(mounts', registry'[k])
    OBVIOUS
  <2>1. k \in 1 .. n + Len(uses)
    BY <1>9
  <2>2. CASE k <= n
    <3>1. k \in 1 .. Len(registry) /\ registry'[k] = registry[k]
      BY <1>7, <1>9, <2>1, <2>2 DEF n
    <3>2. Mounted(mounts, registry[k])
      BY <3>1 DEF RoutesInv
    <3>3. Mounted(mounts', registry[k])
      BY <1>11, <3>2
    <3>. QED
      BY <3>1, <3>3
  <2>3. CASE ~(k <= n)
    <3>1. k - n \in 1 .. Len(uses) /\ registry'[k] = added[k - n]
      BY <1>1, <1>7, <1>9, <2>1, <2>3
    <3>2. Mounted(mounts', added[k - n])
      BY <1>12, <3>1
    <3>. QED
      BY <3>1, <3>2
  <2>. QED
    BY <2>2, <2>3
<1>14. \A b \in App : \A key \in DOMAIN document'[b] : Mounted(mounts', document'[b][key])
  BY <1>6, <1>11 DEF RoutesInv
<1>15. \A b \in App : \A i \in 1 .. Len(mounts'[b]) :
         \E s \in Segment : mounts'[b][i].path = Root(b) \o <<s>>
  <2>. SUFFICES ASSUME NEW b \in App, NEW i \in 1 .. Len(mounts'[b])
                PROVE  \E s \in Segment : mounts'[b][i].path = Root(b) \o <<s>>
    OBVIOUS
  <2>1. CASE b = a /\ i = m + 1
    <3>1. mount.path = Root(b) \o <<name>>
      BY <2>1
    <3>2. mounts'[b][i] = mount
      <4>. HIDE DEF mount
      <4>. QED
        BY <1>10, <2>1
    <3>3. mounts'[b][i].path = Root(b) \o <<name>> /\ name \in Segment
      BY <1>1, <3>1, <3>2
    <3>. QED
      BY <3>3
  <2>2. CASE ~(b = a /\ i = m + 1)
    <3>1. i \in 1 .. Len(mounts[b]) /\ mounts'[b][i] = mounts[b][i]
      <4>. HIDE DEF mount
      <4>1. CASE b = a
        BY <1>m, <1>10, <2>2, <4>1
      <4>2. CASE b # a
        BY <1>10, <4>2
      <4>. QED
        BY <4>1, <4>2
    <3>. QED
      BY <3>1 DEF RoutesInv
  <2>. QED
    BY <2>1, <2>2
<1>. QED
  BY <1>6, <1>9, <1>10, <1>13, <1>14, <1>15 DEF RoutesInv

LEMMA BuildInv ==
  ASSUME RoutesInv, NEW a \in App, Build(a)
  PROVE  RoutesInv'
<1>. DEFINE Latest(key) == Max({i \in 1 .. Len(registry) : Operation(registry[i]) = key})
            Keys == {Operation(registry[i]) : i \in 1 .. Len(registry)}
            built == [key \in Keys |-> registry[Latest(key)]]
<1>1. document' = [document EXCEPT ![a] = built] /\ UNCHANGED <<registry, mounts>>
  BY DEF Build
<1>2. \A key \in Keys : Latest(key) \in 1 .. Len(registry)
  <2>. SUFFICES ASSUME NEW j \in 1 .. Len(registry)
                PROVE  Latest(Operation(registry[j])) \in 1 .. Len(registry)
    OBVIOUS
  <2>. DEFINE S == {i \in 1 .. Len(registry) : Operation(registry[i]) = Operation(registry[j])}
              n == Len(registry)
  <2>1. n \in Nat
    BY LenProperties DEF RoutesInv
  <2>2. S \in SUBSET (1 .. n) /\ S # {}
    OBVIOUS
  <2>3. Max(S) \in 1 .. Len(registry)
    <3>. HIDE DEF S, n
    <3>1. Max(S) \in S
      BY <2>1, <2>2, LastPlace
    <3>. QED
      BY <2>2, <3>1 DEF n
  <2>. QED
    BY <2>3
<1>. HIDE DEF Latest
<1>3. \A key \in Keys : Mounted(mounts, built[key])
  BY <1>2 DEF RoutesInv
<1>4. \A r : Mounted(mounts, r) => Mounted(mounts', r)
  BY <1>1 DEF Mounted
<1>5. DOMAIN built = Keys
  OBVIOUS
<1>. HIDE DEF built, Keys
<1>6. \A b \in App : \A key \in DOMAIN document'[b] : Mounted(mounts', document'[b][key])
  <2>. SUFFICES ASSUME NEW b \in App, NEW key \in DOMAIN document'[b]
                PROVE  Mounted(mounts', document'[b][key])
    OBVIOUS
  <2>1. CASE b = a
    BY <1>1, <1>3, <1>4, <1>5, <2>1 DEF RoutesInv
  <2>2. CASE b # a
    BY <1>1, <1>4, <2>2 DEF RoutesInv
  <2>. QED
    BY <2>1, <2>2
<1>7. /\ DOMAIN document' = App
      /\ \A k \in 1 .. Len(registry') : Mounted(mounts', registry'[k])
  BY <1>1, <1>4 DEF RoutesInv
<1>. QED
  BY <1>1, <1>6, <1>7 DEF RoutesInv

LEMMA RoutesNextInv ==
  ASSUME RoutesAssumption, RoutesInv, [RoutesNext]_routeVars
  PROVE  RoutesInv'
<1>1. CASE \E a \in App, name \in Modules, uses \in UseCaseLists : AddModule(a, name, uses)
  BY <1>1, AddModuleInv
<1>2. CASE Clear
  <2>1. registry' = << >> /\ UNCHANGED <<mounts, document>>
    BY <1>2 DEF Clear
  <2>2. registry' \in Seq(Use) /\ Len(registry') = 0
    BY <2>1
  <2>3. mounts' = mounts /\ document' = document
    BY <2>1
  <2>4. \A k \in 1 .. Len(registry') : Mounted(mounts', registry'[k])
    BY <2>2
  <2>. QED
    BY <2>2, <2>3, <2>4 DEF RoutesInv
<1>3. CASE \E a \in App : Build(a)
  BY <1>3, BuildInv
<1>4. CASE UNCHANGED routeVars
  BY <1>4 DEF routeVars, RoutesInv
<1>. QED
  BY <1>1, <1>2, <1>3, <1>4 DEF RoutesNext

(* The mount that answers is the first that captures the path.             *)
LEMMA AnsweringIsFirst ==
  ASSUME RoutesInv, NEW a \in App, NEW path, NEW i \in 1 .. Len(mounts[a]),
         Captures(mounts[a][i], path)
  PROVE  /\ Answering(a, path) \in 1 .. Len(mounts[a])
         /\ Captures(mounts[a][Answering(a, path)], path)
<1>. DEFINE n == Len(mounts[a])
            capturing == {j \in 1 .. n : Captures(mounts[a][j], path)}
            first == CHOOSE j \in capturing : \A k \in capturing : j <= k
<1>1. n \in Nat
  BY LenProperties DEF RoutesInv
<1>2. capturing \in SUBSET (1 .. n) /\ capturing # {}
  OBVIOUS
<1>3. Answering(a, path) = first
  BY <1>2 DEF Answering
<1>4. \E j \in capturing : \A k \in capturing : j <= k
  <2>. HIDE DEF n, capturing
  <2>. QED
    BY <1>1, <1>2, FirstPlace
<1>5. first \in capturing
  <2>. HIDE DEF capturing
  <2>. QED
    BY <1>4
<1>. HIDE DEF first
<1>. QED
  BY <1>3, <1>5

LEMMA RoutesInvImplies ==
  ASSUME RoutesAssumption, RoutesInv
  PROVE  DocumentedIsServed
<1>1. ASSUME NEW a \in App, NEW r \in Own(a), OnceIn(a, Root(a) \o <<r.module>>)
      PROVE  Served(a, r.path, r.method)
  <2>1. Mounted(mounts, r) /\ r.app = a
    BY DEF Own, RoutesInv
  <2>2. /\ r.module \in Segment /\ r.command \in Segment
        /\ r.path = Root(a) \o <<r.module, r.command>> /\ Root(a) \in Seq(Segment)
    BY <2>1, RootIsPath DEF Mounted
  <2>3. PICK i \in 1 .. Len(mounts[a]) :
          /\ mounts[a][i].path = Root(a) \o <<r.module>>
          /\ \E k \in 1 .. Len(mounts[a][i].routes) :
               mounts[a][i].routes[k] = <<r.command, r.method>>
    BY <2>1 DEF Mounted
  <2>4. Captures(mounts[a][i], r.path)
    BY <2>2, <2>3, PrefixIsModule DEF Captures
  <2>. DEFINE m == Answering(a, r.path)
  <2>5. m \in 1 .. Len(mounts[a]) /\ Captures(mounts[a][m], r.path)
    BY <2>4, AnsweringIsFirst
  <2>. HIDE DEF m
  <2>6. PICK s \in Segment : mounts[a][m].path = Root(a) \o <<s>>
    BY <2>5 DEF RoutesInv
  <2>7. s = r.module
    BY <2>2, <2>5, <2>6, PrefixIsModule DEF Captures
  <2>8. m = i
    BY <1>1, <2>3, <2>5, <2>6, <2>7 DEF OnceIn
  <2>9. Has(mounts[a][i], r.path, r.method)
    <3>1. PICK k \in 1 .. Len(mounts[a][i].routes) :
            mounts[a][i].routes[k] = <<r.command, r.method>>
      BY <2>3
    <3>2. /\ mounts[a][i].routes[k][1] = r.command
          /\ mounts[a][i].routes[k][2] = r.method
      BY <3>1
    <3>3. mounts[a][i].path \o <<mounts[a][i].routes[k][1]>> = r.path
      <4>1. (Root(a) \o <<r.module>>) \o <<r.command>> = Root(a) \o <<r.module, r.command>>
        <5>1. Root(a) \in Seq(Segment) /\ r.module \in Segment /\ r.command \in Segment
          BY <2>2, RootIsPath
        <5>. QED
          BY <5>1, CommandOfModule
      <4>. QED
        BY <2>2, <2>3, <3>2, <4>1
    <3>. QED
      BY <3>2, <3>3 DEF Has
  <2>10. m # 0
    BY <2>5
  <2>. QED
    BY <2>8, <2>9, <2>10 DEF Served, m
<1>2. ASSUME NEW a \in App, NEW relative \in PluginPaths, Len(relative) = 1
      PROVE  Answering(a, JoinPath(BasePath[a], relative)) = 0
  <2>. DEFINE path == JoinPath(BasePath[a], relative)
  <2>1. Len(path) <= Len(Root(a)) + 1 /\ Len(path) \in Nat /\ \E S : path \in Seq(S)
    BY <1>2, RoutesAssumption, JoinedIsShort
  <2>. HIDE DEF path
  <2>2. ASSUME NEW i \in 1 .. Len(mounts[a]) PROVE ~Captures(mounts[a][i], path)
    <3>1. PICK s \in Segment : mounts[a][i].path = Root(a) \o <<s>>
      BY DEF RoutesInv
    <3>2. <<s>> \in Seq(Segment) /\ Len(<<s>>) = 1 /\ Root(a) \in Seq(Segment)
      BY RootIsPath
    <3>. DEFINE one == <<s>>
                p == mounts[a][i].path
    <3>3. one \in Seq(Segment) /\ Len(one) = 1 /\ p = Root(a) \o one
      BY <3>1, <3>2
    <3>. HIDE DEF one, p
    <3>4. p \in Seq(Segment) /\ Len(p) = Len(Root(a)) + 1
      <4>1. /\ Root(a) \o one \in Seq(Segment)
            /\ Len(Root(a) \o one) = Len(Root(a)) + Len(one)
        BY <3>2, <3>3, ConcatProperties
      <4>. QED
        BY <3>3, <4>1
    <3>5. Len(Root(a)) \in Nat
      BY <3>2, LenProperties
    <3>6. ASSUME IsStrictPrefix(p, path) PROVE FALSE
      <4>1. Len(p) <= Len(path) /\ SubSeq(p, 1, Len(p)) = SubSeq(path, 1, Len(p)) /\ p # path
        BY <3>6 DEF IsStrictPrefix, IsPrefix
      <4>2. Len(p) = Len(path)
        BY <2>1, <3>4, <3>5, <4>1
      <4>3. SubSeq(p, 1, Len(p)) = p /\ SubSeq(path, 1, Len(path)) = path
        BY <2>1, <3>4, SubSeqFull
      <4>. QED
        BY <4>1, <4>2, <4>3
    <3>. QED
      BY <3>6 DEF Captures, p
  <2>3. Answering(a, path) = 0
    BY <2>2 DEF Answering
  <2>. QED
    BY <2>3 DEF path
<1>. QED
  BY <1>1, <1>2 DEF DocumentedIsServed, Root

(* For any base paths, modules and registrations: the documented path of   *)
(* every operation is one the router of its application serves, and no     *)
(* module captures a plugin route of one segment (ModularApi.module,       *)
(* ModuleBuilder.usecase, _add_route_to_spec).                             *)
THEOREM DocumentedOperationsAreServed ==
  RoutesSpec => []DocumentedIsServed
<1>1. RoutesInit => RoutesInv
  BY RoutesStart
<1>2. RoutesInv /\ [RoutesNext]_routeVars => RoutesInv'
  BY RoutesAssumption, RoutesNextInv
<1>3. RoutesInv => DocumentedIsServed
  BY RoutesAssumption, RoutesInvImplies
<1>. QED
  BY <1>1, <1>2, <1>3, PTL DEF RoutesSpec

------------------------------------------------------------------------------
Entry == [name : CheckName, is : Status \cup {Running, Cancelling}]

(* What an entry says of a check, and how the check really ended.          *)
Tells(is, how) ==
  \/ is \in {Running, Cancelling} /\ how = Running
  \/ is = PASS /\ how = PASS
  \/ is = WARN /\ how = WARN
  \/ is = FAIL /\ how \in {FAIL, "raised", "timed out"}

EntriesOK(v) ==
  /\ entries[v] \in Seq(Entry)
  /\ DOMAIN happened[v] = DOMAIN entries[v]
  /\ \A k \in DOMAIN entries[v] : Tells(entries[v][k].is, happened[v][k])

AnswerOK(v) == Answered(v) /\ NamesDiffer(v) => IsWorst(v)

VisitOK(v) ==
  /\ entries[v] = Unanswered => health[v] = Unanswered
  /\ entries[v] = << >> => health[v] # Unanswered
  /\ entries[v] # Unanswered => EntriesOK(v)
  /\ AnswerOK(v)

HealthInv ==
  /\ checks \in Seq(CheckName)
  /\ DOMAIN entries = Visit /\ DOMAIN happened = Visit /\ DOMAIN health = Visit
  /\ \A v \in Visit : VisitOK(v)

------------------------------------------------------------------------------
(* The three statuses and the two states of a check that runs differ.      *)
LEMMA StatusValues ==
  /\ Status = {PASS, WARN, FAIL}
  /\ Severity[PASS] = 0 /\ Severity[WARN] = 1 /\ Severity[FAIL] = 2
  /\ Running \notin Status /\ Cancelling \notin Status
  BY DEF Status, Severity, PASS, WARN, FAIL, Running, Cancelling

(* The worst of some statuses is one of them, and none is more severe.     *)
LEMMA WorstIsWorst ==
  ASSUME NEW results, {results[n] : n \in DOMAIN results} \subseteq Status, DOMAIN results # {}
  PROVE  /\ Worst(results) \in {results[n] : n \in DOMAIN results}
         /\ \A n \in DOMAIN results : Severity[results[n]] <= Severity[Worst(results)]
<1> DEFINE given == {results[n] : n \in DOMAIN results}
           IsMax(s) == \A other \in given : Severity[other] <= Severity[s]
<1>1. given \subseteq {PASS, WARN, FAIL} /\ given # {}
  BY StatusValues
<1>2. \E s \in given : IsMax(s)
  <2>1. CASE FAIL \in given
    BY <2>1, <1>1, StatusValues
  <2>2. CASE FAIL \notin given /\ WARN \in given
    BY <2>2, <1>1, StatusValues
  <2>3. CASE FAIL \notin given /\ WARN \notin given
    BY <2>3, <1>1, StatusValues
  <2> QED BY <2>1, <2>2, <2>3
<1>3. Worst(results) = CHOOSE s \in given : IsMax(s)
  BY DEF Worst
<1> HIDE DEF IsMax
<1>4. Worst(results) \in given /\ IsMax(Worst(results))
  BY <1>2, <1>3
<1> QED BY <1>4 DEF IsMax

(* While names differ, the result of a name is the entry of its check.     *)
LEMMA ResultOfName ==
  ASSUME NEW v \in Visit, EntriesOK(v), NamesDiffer(v)
  PROVE  /\ DOMAIN ResultsByName(v) = {entries[v][k].name : k \in DOMAIN entries[v]}
         /\ \A k \in DOMAIN entries[v] : ResultsByName(v)[entries[v][k].name] = entries[v][k].is
<1>1. DOMAIN ResultsByName(v) = {entries[v][k].name : k \in DOMAIN entries[v]}
  BY DEF ResultsByName
<1>2. ASSUME NEW k \in DOMAIN entries[v]
      PROVE  ResultsByName(v)[entries[v][k].name] = entries[v][k].is
  <2>1. {j \in DOMAIN entries[v] : entries[v][j].name = entries[v][k].name} = {k}
    BY <1>2 DEF NamesDiffer
  <2>2. k <= k
    BY <1>2 DEF EntriesOK
  <2>3. (CHOOSE i \in {k} : \A j \in {k} : j <= i) = k
    BY <2>2
  <2> QED BY <1>2, <2>1, <2>3 DEF ResultsByName
<1> QED BY <1>1, <1>2

(* The same for entries as they are collected, in terms of what happened.  *)
LEMMA WorstOfEntries ==
  ASSUME NEW collected, NEW real, NEW results,
         DOMAIN collected # {},
         \A k \in DOMAIN collected : collected[k].is \in Status,
         \A k \in DOMAIN collected : Tells(collected[k].is, real[k]),
         DOMAIN results = {collected[k].name : k \in DOMAIN collected},
         \A k \in DOMAIN collected : results[collected[k].name] = collected[k].is
  PROVE  /\ Worst(results) = FAIL
              <=> \E k \in DOMAIN collected : real[k] \in {FAIL, "raised", "timed out"}
         /\ Worst(results) # FAIL =>
              (Worst(results) = WARN <=> \E k \in DOMAIN collected : real[k] = WARN)
<1>1. \A n \in DOMAIN results : results[n] \in Status
  OBVIOUS
<1>2. DOMAIN results # {}
  OBVIOUS
<1>3. PICK worst : worst = Worst(results)
  OBVIOUS
<1>4. /\ worst \in {results[n] : n \in DOMAIN results}
      /\ \A n \in DOMAIN results : Severity[results[n]] <= Severity[worst]
  BY <1>1, <1>2, <1>3, WorstIsWorst
<1>5. PICK m \in DOMAIN collected : worst = collected[m].is
  BY <1>4
<1>6. \A k \in DOMAIN collected : Severity[collected[k].is] <= Severity[worst]
  BY <1>4
<1>7. worst \in {PASS, WARN, FAIL}
  BY <1>5, StatusValues
<1>8. ASSUME NEW k \in DOMAIN collected
      PROVE  collected[k].is = FAIL <=> real[k] \in {FAIL, "raised", "timed out"}
  BY <1>8 DEF Tells, FAIL, PASS, WARN, Running, Cancelling
<1>9. ASSUME NEW k \in DOMAIN collected
      PROVE  collected[k].is = WARN <=> real[k] = WARN
  BY <1>9 DEF Tells, FAIL, PASS, WARN, Running, Cancelling
<1>10. ASSUME NEW k \in DOMAIN collected, collected[k].is = FAIL PROVE worst = FAIL
  <2>1. 2 <= Severity[worst]
    BY <1>10, <1>6, StatusValues
  <2> QED BY <2>1, <1>7, StatusValues
<1>11. ASSUME NEW k \in DOMAIN collected, collected[k].is = WARN, worst # FAIL PROVE worst = WARN
  <2>1. 1 <= Severity[worst]
    BY <1>11, <1>6, StatusValues
  <2> QED BY <2>1, <1>7, <1>11, StatusValues
<1> QED BY <1>3, <1>5, <1>8, <1>9, <1>10, <1>11

------------------------------------------------------------------------------
(* Steps.  A visit that no variable speaks of stays as it is.              *)
LEMMA OtherVisits ==
  ASSUME NEW w \in Visit, VisitOK(w),
         entries'[w] = entries[w], happened'[w] = happened[w], health'[w] = health[w]
  PROVE  VisitOK(w)'
<1>1. EntriesOK(w) => EntriesOK(w)'
  BY DEF EntriesOK
<1>2. Answered(w)' = Answered(w) /\ NamesDiffer(w)' = NamesDiffer(w)
  BY DEF Answered, NamesDiffer
<1>3. IsWorst(w)' = IsWorst(w)
  BY DEF IsWorst, Ended
<1>4. AnswerOK(w)'
  BY <1>2, <1>3 DEF VisitOK, AnswerOK
<1> QED BY <1>1, <1>4 DEF VisitOK

LEMMA EntriesAreNoMark == Unanswered \notin Seq(Entry) /\ << >> \in Seq(Entry)
  BY HealthAssumption DEF Entry

LEMMA AddHealthCheckInv ==
  ASSUME HealthInv, NEW name \in CheckName, AddHealthCheck(name)
  PROVE  HealthInv'
<1>1. /\ checks' \in Seq(CheckName)
      /\ entries' = entries /\ happened' = happened /\ health' = health
  BY DEF HealthInv, AddHealthCheck
<1>2. \A w \in Visit : VisitOK(w)'
  BY <1>1, OtherVisits DEF HealthInv
<1> QED BY <1>1, <1>2 DEF HealthInv

LEMMA EvaluateInv ==
  ASSUME HealthInv, NEW v \in Visit, Evaluate(v)
  PROVE  HealthInv'
<1>1. /\ checks' = checks /\ checks \in Seq(CheckName)
      /\ DOMAIN entries' = Visit /\ DOMAIN happened' = Visit /\ DOMAIN health' = Visit
      /\ entries'[v] = [k \in DOMAIN checks |-> [name |-> checks[k], is |-> Running]]
      /\ happened'[v] = [k \in DOMAIN checks |-> Running]
      /\ health'[v] = IF checks = << >> THEN Nothing ELSE health[v]
  BY DEF HealthInv, Evaluate
<1>2. health[v] = Unanswered
  BY DEF HealthInv, VisitOK, Evaluate
<1>3. ASSUME NEW w \in Visit, w # v PROVE VisitOK(w)'
  <2>1. entries'[w] = entries[w] /\ happened'[w] = happened[w] /\ health'[w] = health[w]
    BY <1>3 DEF HealthInv, Evaluate
  <2> QED BY <2>1, OtherVisits DEF HealthInv
<1>4. entries'[v] \in Seq(Entry) /\ (entries'[v] = << >> => checks = << >>)
  <2>1. \A k \in DOMAIN checks : [name |-> checks[k], is |-> Running] \in Entry
    BY <1>1 DEF Entry
  <2> QED BY <1>1, <2>1
<1>5. EntriesOK(v)'
  <2>1. DOMAIN entries'[v] = DOMAIN checks /\ DOMAIN happened'[v] = DOMAIN checks
    BY <1>1
  <2>2. \A k \in DOMAIN checks : entries'[v][k].is = Running /\ happened'[v][k] = Running
    BY <1>1
  <2>3. \A k \in DOMAIN checks : Tells(entries'[v][k].is, happened'[v][k])
    BY <2>2 DEF Tells
  <2> QED BY <1>4, <2>1, <2>3 DEF EntriesOK
<1>6. CASE checks = << >>
  <2>1. health'[v] = Nothing
    BY <1>1, <1>6
  <2>2. Ended(v)' = {}
    BY <1>1, <1>6 DEF Ended
  <2>3. IsWorst(v)'
    BY <2>1, <2>2 DEF IsWorst, Nothing, PASS, WARN
  <2>4. health'[v] # Unanswered
    BY <2>1, HealthAssumption
  <2>5. VisitOK(v)'
    BY <1>4, <1>5, <2>3, <2>4, EntriesAreNoMark DEF VisitOK, AnswerOK
  <2> QED BY <1>1, <1>3, <2>5 DEF HealthInv
<1>7. CASE checks # << >>
  <2>1. health'[v] = Unanswered /\ entries'[v] # << >>
    BY <1>1, <1>2, <1>4, <1>7
  <2>2. VisitOK(v)'
    BY <1>5, <2>1 DEF VisitOK, AnswerOK, Answered
  <2> QED BY <1>1, <1>3, <2>2 DEF HealthInv
<1> QED BY <1>6, <1>7

LEMMA CheckEndsInv ==
  ASSUME HealthInv, NEW v \in Visit, NEW k, Unfinished(v, k), NEW entry, NEW how,
         entry \in Status \cup {Running, Cancelling}, Tells(entry, how),
         CheckEnds(v, k, how, entry)
  PROVE  HealthInv'
<1>1. /\ checks' = checks /\ checks \in Seq(CheckName) /\ health' = health
      /\ DOMAIN entries' = Visit /\ DOMAIN happened' = Visit /\ DOMAIN health' = Visit
      /\ entries'[v] = [entries[v] EXCEPT ![k].is = entry]
      /\ happened'[v] = [happened[v] EXCEPT ![k] = how]
  BY DEF HealthInv, CheckEnds
<1>2. health[v] = Unanswered /\ entries[v] # Unanswered /\ k \in DOMAIN entries[v]
  BY DEF Unfinished, Evaluating
<1>3. ASSUME NEW w \in Visit, w # v PROVE VisitOK(w)'
  <2>1. entries'[w] = entries[w] /\ happened'[w] = happened[w] /\ health'[w] = health[w]
    BY <1>3 DEF HealthInv, CheckEnds
  <2> QED BY <2>1, OtherVisits DEF HealthInv
<1>4. EntriesOK(v)
  BY <1>2 DEF HealthInv, VisitOK
<1>5. EntriesOK(v)'
  <2>1. entries[v] \in Seq(Entry) /\ DOMAIN happened[v] = DOMAIN entries[v]
    BY <1>4 DEF EntriesOK
  <2>2. [entries[v][k] EXCEPT !.is = entry] \in Entry
    <3>1. entries[v][k] \in Entry
      BY <1>2, <2>1
    <3> QED BY <3>1 DEF Entry
  <2>3. entries'[v] \in Seq(Entry) /\ DOMAIN entries'[v] = DOMAIN entries[v]
    BY <1>1, <1>2, <2>1, <2>2
  <2>4. entries'[v][k].is = entry /\ happened'[v][k] = how
    BY <1>1, <1>2, <2>1 DEF Entry
  <2>5. ASSUME NEW j \in DOMAIN entries[v]
        PROVE  Tells(entries'[v][j].is, happened'[v][j])
    <3>1. CASE j = k
      BY <3>1, <2>4
    <3>2. CASE j # k
      BY <3>2, <1>1, <1>2, <1>4, <2>1 DEF EntriesOK
    <3> QED BY <3>1, <3>2
  <2>6. DOMAIN happened'[v] = DOMAIN entries'[v]
    BY <1>1, <2>1, <2>3
  <2> QED BY <2>3, <2>5, <2>6 DEF EntriesOK
<1>6. entries'[v] # << >>
  BY <1>1, <1>2, <1>4 DEF EntriesOK
<1>7. VisitOK(v)'
  BY <1>1, <1>2, <1>5, <1>6 DEF VisitOK, AnswerOK, Answered
<1> QED BY <1>1, <1>3, <1>7 DEF HealthInv

LEMMA CheckCancelledInv ==
  ASSUME HealthInv, NEW v \in Visit, NEW k, CheckCancelled(v, k)
  PROVE  HealthInv'
<1>1. /\ checks' = checks /\ checks \in Seq(CheckName) /\ entries' = entries /\ happened' = happened
      /\ DOMAIN entries = Visit /\ DOMAIN happened = Visit /\ DOMAIN health' = Visit
      /\ health'[v] = Cancelled
      /\ entries[v] # Unanswered /\ k \in DOMAIN entries[v]
  BY DEF HealthInv, CheckCancelled, Unfinished, Evaluating
<1>2. ASSUME NEW w \in Visit, w # v PROVE VisitOK(w)'
  <2>1. health'[w] = health[w]
    BY <1>2 DEF HealthInv, CheckCancelled
  <2> QED BY <1>1, <2>1, OtherVisits DEF HealthInv
<1>3. EntriesOK(v)' /\ entries'[v] # << >>
  BY <1>1 DEF HealthInv, VisitOK, EntriesOK
<1>4. VisitOK(v)'
  BY <1>1, <1>3 DEF VisitOK, AnswerOK, Answered
<1> QED BY <1>1, <1>2, <1>4 DEF HealthInv

LEMMA CombineInv ==
  ASSUME HealthInv, NEW v \in Visit, Combine(v)
  PROVE  HealthInv'
<1>1. /\ checks' = checks /\ checks \in Seq(CheckName) /\ entries' = entries /\ happened' = happened
      /\ DOMAIN entries = Visit /\ DOMAIN happened = Visit /\ DOMAIN health' = Visit
      /\ health[v] = Unanswered /\ entries[v] # Unanswered
      /\ health'[v].status = Worst(ResultsByName(v))
      /\ health'[v].http = IF health'[v].status = FAIL THEN 503 ELSE 200
  BY DEF HealthInv, Combine, Evaluating, Responds
<1>2. ASSUME NEW w \in Visit, w # v PROVE VisitOK(w)'
  <2>1. health'[w] = health[w]
    BY <1>2 DEF HealthInv, Combine, Responds
  <2> QED BY <1>1, <2>1, OtherVisits DEF HealthInv
<1>3. EntriesOK(v) /\ entries[v] # << >>
  BY <1>1 DEF HealthInv, VisitOK
<1>4. \A k \in DOMAIN entries[v] : entries[v][k].is \in Status
  <2>1. \A k \in DOMAIN entries[v] : entries[v][k] \in Entry
    BY <1>3 DEF EntriesOK
  <2>2. \A k \in DOMAIN entries[v] : entries[v][k].is \notin {Running, Cancelling}
    BY DEF Combine, Unfinished
  <2> QED BY <2>1, <2>2 DEF Entry
<1>5. EntriesOK(v)' /\ ResultsByName(v)' = ResultsByName(v)
  BY <1>1, <1>3 DEF EntriesOK, ResultsByName
<1>6. NamesDiffer(v)' => IsWorst(v)'
  <2>1. SUFFICES ASSUME NamesDiffer(v)' PROVE IsWorst(v)'
    OBVIOUS
  <2>2. NamesDiffer(v)
    BY <1>1, <2>1 DEF NamesDiffer
  <2>3. /\ DOMAIN ResultsByName(v) = {entries[v][k].name : k \in DOMAIN entries[v]}
        /\ \A k \in DOMAIN entries[v] : ResultsByName(v)[entries[v][k].name] = entries[v][k].is
    BY <1>3, <2>2, ResultOfName
  <2>4. PICK collected, real, results, status, http, ended :
          /\ collected = entries[v] /\ real = happened[v] /\ results = ResultsByName(v)
          /\ status = health'[v].status /\ http = health'[v].http /\ ended = Ended(v)'
    OBVIOUS
  <2>5. /\ DOMAIN collected # {} /\ DOMAIN real = DOMAIN collected
        /\ \A k \in DOMAIN collected : Tells(collected[k].is, real[k])
    BY <1>3, <2>4 DEF EntriesOK
  <2>6. \A k \in DOMAIN collected : collected[k].is \in Status
    BY <1>4, <2>4
  <2>7. /\ DOMAIN results = {collected[k].name : k \in DOMAIN collected}
        /\ \A k \in DOMAIN collected : results[collected[k].name] = collected[k].is
    BY <2>3, <2>4
  <2>8. status = Worst(results)
    BY <1>1, <2>4
  <2>9. (status = FAIL => http = 503) /\ (status # FAIL => http = 200)
    BY <1>1, <2>4
  <2>10. ended = {real[k] : k \in DOMAIN real}
    BY <1>1, <2>4 DEF Ended
  <2>11. /\ Worst(results) = FAIL
              <=> \E k \in DOMAIN collected : real[k] \in {FAIL, "raised", "timed out"}
         /\ Worst(results) # FAIL =>
              (Worst(results) = WARN <=> \E k \in DOMAIN collected : real[k] = WARN)
    BY <2>5, <2>6, <2>7, WorstOfEntries
  <2>12. status = FAIL <=> ended \cap {FAIL, "raised", "timed out"} # {}
    BY <2>5, <2>8, <2>10, <2>11
  <2>13. status # FAIL => (status = WARN <=> WARN \in ended)
    BY <2>5, <2>8, <2>10, <2>11
  <2>14. http = 503 <=> ended \cap {FAIL, "raised", "timed out"} # {}
    <3>1. http = 503 <=> status = FAIL
      BY <2>9
    <3> QED BY <2>12, <3>1
  <2>15. http = 200 => (status = WARN <=> WARN \in ended)
    BY <2>9, <2>13
  <2> QED BY <2>4, <2>14, <2>15 DEF IsWorst
<1>7. VisitOK(v)'
  BY <1>1, <1>3, <1>5, <1>6 DEF VisitOK, AnswerOK
<1> QED BY <1>1, <1>2, <1>7 DEF HealthInv

------------------------------------------------------------------------------
LEMMA HealthInvInit == HealthInit => HealthInv
<1> SUFFICES ASSUME HealthInit PROVE HealthInv
  OBVIOUS
<1>1. checks \in Seq(CheckName)
  BY DEF HealthInit
<1>2. ASSUME NEW v \in Visit PROVE VisitOK(v)
  <2>1. entries[v] = Unanswered /\ health[v] = Unanswered
    BY DEF HealthInit
  <2>2. entries[v] # << >>
    BY <2>1, EntriesAreNoMark
  <2> QED BY <2>1, <2>2 DEF VisitOK, AnswerOK, Answered
<1> QED BY <1>1, <1>2 DEF HealthInit, HealthInv

LEMMA HealthInvNext == HealthInv /\ [HealthNext]_healthVars => HealthInv'
<1> SUFFICES ASSUME HealthInv, [HealthNext]_healthVars PROVE HealthInv'
  OBVIOUS
<1>1. ASSUME NEW name \in CheckName, AddHealthCheck(name) PROVE HealthInv'
  BY <1>1, AddHealthCheckInv
<1>2. ASSUME NEW v \in Visit, Evaluate(v) PROVE HealthInv'
  BY <1>2, EvaluateInv
<1>3. ASSUME NEW v \in Visit, Combine(v) PROVE HealthInv'
  BY <1>3, CombineInv
<1>4. ASSUME NEW v \in Visit, NEW k, CheckRaises(v, k) PROVE HealthInv'
  <2>1. FAIL \in Status \cup {Running, Cancelling} /\ Tells(FAIL, "raised")
    BY StatusValues DEF Tells
  <2> QED BY <1>4, <2>1, CheckEndsInv DEF CheckRaises
<1>5. ASSUME NEW v \in Visit, NEW k, TimerFires(v, k) PROVE HealthInv'
  <2>1. Cancelling \in Status \cup {Running, Cancelling} /\ Tells(Cancelling, Running)
    BY DEF Tells
  <2> QED BY <1>5, <2>1, CheckEndsInv DEF TimerFires
<1>6. ASSUME NEW v \in Visit, NEW k, CheckTimesOut(v, k) PROVE HealthInv'
  <2>1. FAIL \in Status \cup {Running, Cancelling} /\ Tells(FAIL, "timed out")
    BY StatusValues DEF Tells
  <2> QED BY <1>6, <2>1, CheckEndsInv DEF CheckTimesOut
<1>7. ASSUME NEW v \in Visit, NEW k, NEW status \in Status, CheckReturns(v, k, status)
      PROVE  HealthInv'
  <2>1. status \in Status \cup {Running, Cancelling} /\ Tells(status, status)
    BY <1>7, StatusValues DEF Tells
  <2> QED BY <1>7, <2>1, CheckEndsInv DEF CheckReturns
<1>8. ASSUME NEW v \in Visit, NEW k, CheckCancelled(v, k) PROVE HealthInv'
  BY <1>8, CheckCancelledInv
<1>9. CASE UNCHANGED healthVars
  <2>1. checks' = checks /\ entries' = entries /\ happened' = happened /\ health' = health
    BY <1>9 DEF healthVars
  <2>2. \A w \in Visit : VisitOK(w)'
    BY <2>1, OtherVisits DEF HealthInv
  <2> QED BY <2>1, <2>2 DEF HealthInv
<1> QED BY <1>1, <1>2, <1>3, <1>4, <1>5, <1>6, <1>7, <1>8, <1>9 DEF HealthNext, HealthStep

(* What an entry says of a check agrees with how the check ended, and every *)
(* answer with its entries, at every step.                                  *)
THEOREM HealthInvariant == HealthSpec => []HealthInv
BY HealthInvInit, HealthInvNext, PTL DEF HealthSpec

(* For any number of checks and of concurrent visits: while names differ,   *)
(* the answer is 503 exactly when some check failed, raised or ran out of   *)
(* time, and its status is the worst there was.                             *)
THEOREM WorstWins == HealthSpec => []WorstStatusWins
<1>1. HealthInv => WorstStatusWins
  BY DEF HealthInv, VisitOK, AnswerOK, WorstStatusWins
<1> QED BY <1>1, HealthInvariant, PTL

------------------------------------------------------------------------------
ServerOK ==
  /\ server = [arrived |-> server.arrived, policy |-> server.policy, parent |-> server.parent,
               requestId |-> server.requestId, status |-> server.status, error |-> server.error]
  /\ server.status \in HttpStatus \cup {Absent}
  /\ server.status # Absent => (server.error <=> server.status >= 500)

SpanOK ==
  /\ span \in [state : {"none", "open", "ended"}, error : BOOLEAN]
  /\ span.state \in {"none", "open"} => ~span.error

Heard(statuses) == server.status \in statuses \ {Absent}
Success == {200}
Unfollowed == {304}
Errors == {401, 429, 500}

(* What was heard is no success, and the span, if there is one, is an      *)
(* error when it is one.                                                   *)
Refusal ==
  \/ Heard(Unfollowed) /\ ~span.error
  \/ Heard(Errors) /\ (span.state = "ended" => span.error)

Reported ==
  /\ result = "ok" => ~span.error /\ Heard(Success)
  /\ result \in {"unauthorized", "rate_limit", "http_status"} => Refusal
  /\ Traced /\ wire # Absent => span.state = "ended"
  /\ span.state # "none" =>
       /\ span.state = "ended"
       /\ ~span.error => Heard(Success) \/ Heard(Unfollowed)

CallOK ==
  /\ phase \in {"idle", "building", "sent", "reading", "failing", "reporting", "returned", "raised"}
  /\ phase \in {"idle", "building"} => span = NoSpan /\ wire = Absent /\ result = Absent
  /\ phase = "idle" => hooks = << >>
  /\ phase \in {"building", "sent", "reading", "failing", "reporting", "raised"} => hooks = <<"started">>
  /\ phase = "sent" => (Traced <=> span.state = "open") /\ span.state # "ended"
  /\ phase \in {"reading", "failing", "raised"} =>
       /\ Traced <=> span.state = "ended"
       /\ span.state # "open"
  /\ phase = "reading" => ~span.error /\ Heard(Success)
  /\ phase \in {"failing", "raised"} => Refusal
  /\ phase \in {"sent", "reading", "failing", "raised"} => result = Absent
  /\ phase = "reporting" => result \notin {"client_closed", "refused"}
  /\ phase = "returned" =>
       IF result \in {"client_closed", "refused"} THEN hooks = << >> /\ span = NoSpan /\ wire = Absent
       ELSE hooks = <<"started", result>>
  /\ phase \in {"reporting", "returned"} => Reported

OutInv == ServerOK /\ SpanOK /\ CallOK

USE DEF HttpStatus, Success, Unfollowed, Errors, NoSpan

LEMMA OutStart ==
  OutInit => OutInv
<1>. SUFFICES ASSUME OutInit PROVE OutInv
  OBVIOUS
<1>1. ServerOK
  BY DEF OutInit, ServerOK, NoServer
<1>2. SpanOK /\ CallOK
  BY DEF OutInit, SpanOK, CallOK
<1>. QED
  BY <1>1, <1>2 DEF OutInv

(* What an end of the span leaves behind.                                  *)
LEMMA SpanEnds ==
  ASSUME SpanOK, NEW error \in BOOLEAN
  PROVE  LET s == Completed(span, error)
         IN  /\ s \in [state : {"none", "open", "ended"}, error : BOOLEAN]
             /\ span.state = "none" <=> s.state = "none"
             /\ s.state # "open" /\ (s.state = "none" => ~s.error)
             /\ span.state = "open" => (s.error <=> error)
             /\ span.state = "ended" => (s.error <=> span.error)
<1>1. CASE span.state = "none"
  BY <1>1 DEF Completed, SpanOK
<1>2. CASE span.state = "open"
  BY <1>2 DEF Completed, SpanOK
<1>3. CASE span.state = "ended"
  BY <1>3 DEF Completed, SpanOK
<1>. QED
  BY <1>1, <1>2, <1>3 DEF SpanOK

(* A condition that does not hold is the value FALSE.                      *)
LEMMA IsFalse ==
  ASSUME NEW P \in BOOLEAN, ~P PROVE P = FALSE
BY Zenon

(* The call rests: another thread closes the client, or the network and    *)
(* the called service move.  An answer once heard stays.                   *)
LEMMA OthersStep ==
  ASSUME OutInv, \/ Close \/ Travel \/ \E policy \in Policies : Arrive(policy)
                 \/ \E status \in HttpStatus : Serve(status)
  PROVE  OutInv'
<1>. USE DEF OutInv
<1>1. ServerOK' /\ (\A S \in {Success, Unfollowed, Errors} : Heard(S) => Heard(S)')
  <2>1. CASE Close \/ Travel
    BY <2>1 DEF Close, Travel, ServerOK, Heard
  <2>2. ASSUME NEW policy \in Policies, Arrive(policy)
        PROVE  ServerOK' /\ (\A S \in {Success, Unfollowed, Errors} : Heard(S) => Heard(S)')
    <3>1. server' = [arrived |-> TRUE, policy |-> policy, parent |-> Resolve(policy, wire),
                     requestId |-> wire.requestId,
                     status |-> server.status, error |-> server.error]
      BY <2>2 DEF Arrive, ServerOK
    <3>. QED
      BY <3>1 DEF ServerOK, Heard
  <2>3. ASSUME NEW status \in HttpStatus, Serve(status)
        PROVE  ServerOK' /\ (\A S \in {Success, Unfollowed, Errors} : Heard(S) => Heard(S)')
    <3>1. server.status = Absent
      BY <2>3 DEF Serve
    <3>2. CASE status >= 500
      <4>1. (status >= 500) = TRUE
        BY <3>2, Zenon
      <4>2. server' = [server EXCEPT !.status = status, !.error = TRUE]
        BY <2>3, <4>1, Zenon DEF Serve
      <4>3. server' = [arrived |-> server.arrived, policy |-> server.policy, parent |-> server.parent,
                       requestId |-> server.requestId, status |-> status, error |-> TRUE]
        BY <4>2 DEF ServerOK
      <4>. QED
        BY <3>2, <4>3, <3>1 DEF ServerOK, Heard
    <3>3. CASE ~(status >= 500)
      <4>1. (status >= 500) = FALSE
        BY <3>3, IsFalse
      <4>2. server' = [server EXCEPT !.status = status, !.error = FALSE]
        BY <2>3, <4>1, Zenon DEF Serve
      <4>3. server' = [arrived |-> server.arrived, policy |-> server.policy, parent |-> server.parent,
                       requestId |-> server.requestId, status |-> status, error |-> FALSE]
        BY <4>2 DEF ServerOK
      <4>. QED
        BY <3>3, <4>3, <3>1 DEF ServerOK, Heard
    <3>. QED
      BY <3>2, <3>3
  <2>. QED
    BY <2>1, <2>2, <2>3
<1>2. UNCHANGED <<phase, op, hooks, span, result>> /\ (wire = Absent => wire' = Absent)
  BY DEF Close, Travel, Arrive, Serve
<1>3. SpanOK' /\ (Traced' <=> Traced)
  BY <1>2 DEF SpanOK, Traced
<1>4. Refusal => Refusal'
  BY <1>1, <1>2 DEF Refusal
<1>5. phase \in {"reporting", "returned"} => Reported'
  BY <1>1, <1>2, <1>3, <1>4 DEF CallOK, Reported
<1>6. CallOK'
  BY <1>1, <1>2, <1>3, <1>4, <1>5 DEF CallOK
<1>. QED
  BY <1>1, <1>3, <1>6

LEMMA BeginStep ==
  ASSUME OutInv, (\E o \in Operations : Execute(o)) \/ HeadersFail \/ EncodingFails \/ Send
  PROVE  OutInv'
<1>. USE DEF OutInv
<1>0. ServerOK'
  <2>1. server' = server
    BY Zenon DEF Execute, HeadersFail, EncodingFails, Send
  <2>. QED
    BY <2>1 DEF ServerOK
<1>1. CASE \E o \in Operations : Execute(o)
  BY <1>0, <1>1 DEF Execute, SpanOK, CallOK, Reported
<1>2. CASE HeadersFail
  BY <1>0, <1>2 DEF HeadersFail, Ends, SpanOK, CallOK, Reported, Traced
<1>3. CASE EncodingFails
  <2>0. span' = Completed(SpanStarted, TRUE) /\ span = NoSpan
    BY <1>3 DEF EncodingFails, CallOK
  <2>1. /\ result' = "unexpected_error" /\ wire' = Absent
        /\ phase' = "reporting" /\ hooks' = <<"started">>
    BY <1>3 DEF EncodingFails, Ends, CallOK
  <2>2. CASE Traced
    <3>1. SpanStarted = [state |-> "open", error |-> FALSE]
      BY <2>0, <2>2 DEF SpanStarted
    <3>2. span' = [state |-> "ended", error |-> TRUE]
      BY <2>0, <3>1 DEF Completed
    <3>3. SpanOK'
      BY <3>2 DEF SpanOK
    <3>4. Reported'
      BY <2>1, <3>2 DEF Reported, Traced, Heard
    <3>. QED
      BY <1>0, <2>1, <3>2, <3>3, <3>4 DEF CallOK
  <2>3. CASE ~Traced
    <3>1. span' = NoSpan
      BY <2>0, <2>3 DEF SpanStarted, Completed
    <3>2. SpanOK'
      BY <3>1 DEF SpanOK
    <3>3. Reported'
      BY <2>1, <3>1 DEF Reported, Traced, Heard
    <3>. QED
      BY <1>0, <2>1, <3>1, <3>2, <3>3 DEF CallOK
  <2>. QED
    BY <2>2, <2>3
<1>4. CASE Send
  <2>1. /\ phase = "building" /\ phase' = "sent" /\ span' = SpanStarted
        /\ UNCHANGED <<op, hooks, result>>
    BY <1>4, Zenon DEF Send
  <2>2. SpanOK' /\ (Traced <=> span'.state = "open") /\ span'.state # "ended"
    <3>1. CASE Traced
      BY <2>1, <3>1 DEF SpanStarted, SpanOK, CallOK
    <3>2. CASE ~Traced
      BY <2>1, <3>2 DEF SpanStarted, SpanOK, CallOK
    <3>. QED
      BY <3>1, <3>2
  <2>3. Traced' <=> Traced
    BY <2>1 DEF Traced
  <2>. QED
    BY <1>0, <2>1, <2>2, <2>3 DEF CallOK
<1>. QED
  BY <1>1, <1>2, <1>3, <1>4

(* What holds of the span and the answer stays while both rest.            *)
LEMMA RefusalStays ==
  ASSUME span' = span, server' = server
  PROVE  (SpanOK => SpanOK') /\ (Refusal => Refusal')
<1>1. \A S : Heard(S)' <=> Heard(S)
  BY DEF Heard
<1>. QED
  BY <1>1 DEF SpanOK, Refusal

LEMMA EndStep ==
  ASSUME OutInv,
         \/ \E outcome \in {"timeout", "transport_error", "unexpected_error"} : NoAnswer(outcome)
         \/ Answer
         \/ \E outcome \in {"ok", "invalid_json", "invalid_graphql_response", "invalid_graphql_data"} :
              Decode(outcome)
         \/ \E outcome \in {"timeout", "unexpected_error"} : ReadingFails(outcome)
         \/ ReadErrorBody \/ ErrorBodyFails \/ Report
  PROVE  OutInv'
<1>. USE DEF OutInv
<1>0. ServerOK' /\ (Traced' <=> Traced) /\ (\A S : Heard(S)' <=> Heard(S))
  <2>1. server' = server /\ op' = op /\ wire' = wire
    BY DEF NoAnswer, Answer, Decode, ReadingFails, ReadErrorBody, ErrorBodyFails, Report
  <2>. QED
    BY <2>1 DEF ServerOK, Traced, Heard
<1>1. ASSUME NEW outcome \in {"timeout", "transport_error", "unexpected_error"}, NoAnswer(outcome)
      PROVE  OutInv'
  <2>0. span' = Completed(span, TRUE) /\ span.state \in {"none", "open"} /\ (Traced <=> span.state = "open")
    BY <1>1 DEF NoAnswer, CallOK, SpanOK
  <2>1. SpanOK' /\ (span'.state = "none" \/ (span'.state = "ended" /\ span'.error))
    <3>1. CASE span.state = "none"
      <4>1. span' = span
        BY <2>0, <3>1 DEF Completed
      <4>2. span'.state = "none" /\ SpanOK'
        BY <3>1, <4>1 DEF SpanOK
      <4>. QED
        BY <4>2
    <3>2. CASE span.state = "open"
      <4>1. span' = [state |-> "ended", error |-> TRUE]
        BY <2>0, <3>2 DEF Completed, SpanOK
      <4>. QED
        BY <4>1 DEF SpanOK
    <3>. QED
      BY <2>0, <3>1, <3>2
  <2>2. Traced <=> span'.state = "ended"
    BY <2>0, SpanEnds DEF SpanOK
  <2>. QED
    BY <1>0, <1>1, <2>1, <2>2 DEF NoAnswer, Ends, CallOK, Reported
<1>2. CASE Answer
  <2>1. server.status \in HttpStatus
    BY <1>2 DEF Answer, ServerOK
  <2>2. CASE server.status = 200
    <3>0. (IsSuccess(server.status) <=> TRUE) /\ ~(server.status >= 400)
      BY <2>2 DEF IsSuccess
    <3>1. (server.status >= 400) = FALSE
      BY <3>0, IsFalse
    <3>2. span' = Completed(span, FALSE) /\ phase' = "reading"
      BY <1>2, <3>0, <3>1, Zenon DEF Answer
    <3>3. SpanOK' /\ ~span'.error /\ (Traced <=> span'.state = "ended") /\ span'.state # "open"
      BY <1>2, <3>2, SpanEnds DEF Answer, CallOK, SpanOK
    <3>4. Heard(Success)
      BY <1>2, <2>2 DEF Answer, Heard
    <3>. QED
      BY <1>0, <1>2, <3>2, <3>3, <3>4 DEF Answer, CallOK
  <2>3. CASE server.status = 304
    <3>0. (IsSuccess(server.status) <=> FALSE) /\ ~(server.status >= 400)
      BY <2>3 DEF IsSuccess
    <3>1. (server.status >= 400) = FALSE
      BY <3>0, IsFalse
    <3>2. span' = Completed(span, FALSE) /\ phase' = "failing"
      BY <1>2, <3>0, <3>1, Zenon DEF Answer
    <3>3. SpanOK' /\ ~span'.error /\ (Traced <=> span'.state = "ended") /\ span'.state # "open"
      BY <1>2, <3>2, SpanEnds DEF Answer, CallOK, SpanOK
    <3>4. Heard(Unfollowed)
      BY <1>2, <2>3 DEF Answer, Heard
    <3>. QED
      BY <1>0, <1>2, <3>2, <3>3, <3>4 DEF Answer, CallOK, Refusal
  <2>4. CASE server.status \in Errors
    <3>0. ~IsSuccess(server.status) /\ server.status >= 400
      BY <2>4 DEF IsSuccess
    <3>1. (server.status >= 400) = TRUE
      BY <3>0, Zenon
    <3>2. span' = Completed(span, TRUE) /\ phase' = "failing"
      BY <1>2, <3>0, <3>1, Zenon DEF Answer
    <3>3. /\ SpanOK' /\ (span'.state = "ended" => span'.error)
          /\ (Traced <=> span'.state = "ended") /\ span'.state # "open"
      BY <1>2, <3>2, SpanEnds DEF Answer, CallOK, SpanOK
    <3>4. Heard(Errors)
      BY <1>2, <2>4 DEF Answer, Heard
    <3>. QED
      BY <1>0, <1>2, <3>2, <3>3, <3>4 DEF Answer, CallOK, Refusal
  <2>. QED
    BY <2>1, <2>2, <2>3, <2>4
<1>3. ASSUME NEW outcome \in {"ok", "invalid_json", "invalid_graphql_response", "invalid_graphql_data"},
             Decode(outcome)
      PROVE  OutInv'
  BY <1>0, <1>3 DEF Decode, Ends, SpanOK, CallOK, Reported
<1>4. ASSUME NEW outcome \in {"timeout", "unexpected_error"}, ReadingFails(outcome)
      PROVE  OutInv'
  <2>1. SpanOK' /\ (Traced <=> span'.state = "ended") /\ span'.state # "open" /\ ~span'.error
    BY <1>4, SpanEnds DEF ReadingFails, CallOK, SpanOK
  <2>2. Reported'
    BY <1>0, <1>4, <2>1 DEF ReadingFails, Ends, CallOK, SpanOK, Reported
  <2>. QED
    BY <1>0, <1>4, <2>1, <2>2 DEF ReadingFails, Ends, CallOK
<1>5. CASE ReadErrorBody
  <2>1. /\ phase = "failing" /\ phase' = "reporting" /\ span' = span /\ hooks' = <<"started">>
        /\ result' \in {"unauthorized", "rate_limit", "http_status"}
    BY <1>5 DEF ReadErrorBody, Ends, ErrorCode, CallOK
  <2>0. Refusal /\ (Traced <=> span.state = "ended") /\ span.state # "open"
    BY <2>1 DEF CallOK
  <2>2. SpanOK' /\ Refusal'
    BY <1>5, <2>0, RefusalStays DEF ReadErrorBody
  <2>3. span'.state = "ended" /\ ~span'.error => (Heard(Success) \/ Heard(Unfollowed))'
    <3>1. Heard(Unfollowed)' <=> Heard(Unfollowed)
      BY <1>0
    <3>2. span.state = "ended" /\ ~span.error => Heard(Unfollowed)
      BY <2>0 DEF Refusal
    <3>. QED
      BY <2>1, <3>1, <3>2
  <2>4. Reported'
    BY <1>0, <2>0, <2>1, <2>2, <2>3 DEF Reported, SpanOK
  <2>. QED
    BY <1>0, <2>0, <2>1, <2>2, <2>4 DEF CallOK
<1>6. CASE ErrorBodyFails
  <2>1. Refusal
    BY <1>6 DEF ErrorBodyFails, CallOK
  <2>2. SpanOK' /\ Refusal'
    BY <1>6, <2>1, RefusalStays DEF ErrorBodyFails
  <2>3. /\ phase = "failing" /\ phase' = "raised" /\ UNCHANGED <<span, hooks, result>>
        /\ hooks = <<"started">> /\ result = Absent
        /\ (Traced <=> span.state = "ended") /\ span.state # "open"
    BY <1>6 DEF ErrorBodyFails, CallOK
  <2>4. (Traced' <=> span'.state = "ended") /\ span'.state # "open"
    BY <1>0, <2>3
  <2>. QED
    BY <1>0, <2>2, <2>3, <2>4 DEF CallOK
<1>7. CASE Report
  <2>1. Reported' /\ SpanOK'
    <3>1. /\ UNCHANGED <<span, server, wire, result>> /\ Reported
          /\ Refusal => Refusal'
          /\ SpanOK'
      BY <1>7, RefusalStays DEF Report, CallOK
    <3>. QED
      BY <1>0, <3>1 DEF Reported
  <2>2. hooks' = <<"started", result>> /\ result \notin {"client_closed", "refused"}
    <3>1. hooks' = Append(hooks, result) /\ hooks = <<"started">> /\ result \notin {"client_closed", "refused"}
      BY <1>7 DEF Report, CallOK
    <3>2. Append(<<"started">>, result) = <<"started", result>>
      <4>1. <<"started">> \in Seq({"started", result}) /\ Len(<<"started">>) = 1
        OBVIOUS
      <4>2. Append(<<"started">>, result) \in Seq({"started", result})
        BY <4>1, AppendProperties
      <4>3. /\ Len(Append(<<"started">>, result)) = 2
            /\ Append(<<"started">>, result)[1] = "started"
            /\ Append(<<"started">>, result)[2] = result
        BY <4>1, AppendProperties
      <4>4. <<"started", result>> \in Seq({"started", result}) /\ Len(<<"started", result>>) = 2
        OBVIOUS
      <4>5. \A i \in 1 .. 2 : Append(<<"started">>, result)[i] = <<"started", result>>[i]
        BY <4>3
      <4>. QED
        BY <4>2, <4>3, <4>4, <4>5, SeqEqual
    <3>. QED
      BY <3>1, <3>2
  <2>. QED
    BY <1>0, <1>7, <2>1, <2>2 DEF Report, CallOK
<1>. QED
  BY <1>1, <1>2, <1>3, <1>4, <1>5, <1>6, <1>7

(* The inductive invariant of a call: each phase says which spans are open *)
(* and what was heard of the answer.                                       *)
THEOREM OutInvariant ==
  OutSpec => []OutInv
<1>1. OutInv /\ [OutNext]_outVars => OutInv'
  <2>. SUFFICES ASSUME OutInv, [OutNext]_outVars PROVE OutInv'
    OBVIOUS
  <2>1. CASE UNCHANGED outVars
    BY <2>1 DEF outVars, OutInv, ServerOK, SpanOK, CallOK, Reported, Refusal, Traced, Heard
  <2>2. CASE OutNext
    BY <2>2, OthersStep, BeginStep, EndStep DEF OutNext
  <2>. QED
    BY <2>1, <2>2
<1>. QED
  BY OutStart, <1>1, PTL DEF OutSpec

(* A call that is over was reported by the hooks and the client span as it *)
(* went, whatever closes, fails or is late meanwhile (HttpServiceClient    *)
(* and GraphqlClient.execute, ClientCallTracing.complete).                 *)
THEOREM CallsAreReported ==
  OutSpec => []CallIsReported
<1>1. OutInv => CallIsReported
  <2>. SUFFICES ASSUME OutInv, Over PROVE CallIsReported
    BY DEF CallIsReported
  <2>1. /\ Heard(Success) => IsSuccess(server.status) /\ ~server.error /\ server.status # Absent
        /\ Heard(Unfollowed) => ~server.error
        /\ Refusal => /\ server.status # Absent /\ ~IsSuccess(server.status)
                      /\ span.state = "ended" => (span.error <=> server.status >= 400)
    BY DEF OutInv, ServerOK, Heard, Refusal, IsSuccess
  <2>2. CASE phase = "raised"
    <3>1. /\ hooks = <<"started">> /\ Refusal /\ SpanOK
          /\ result \notin {"ok", "client_closed", "refused"}
          /\ Traced <=> span.state = "ended"
          /\ span.state # "open" /\ (span.state = "ended" /\ ~span.error => ~server.error)
      BY <2>1, <2>2, OutboundAssumption DEF OutInv, CallOK, Refusal
    <3>2. span.state \in {"none", "ended"}
      BY <3>1 DEF OutInv, SpanOK
    <3>3. hooks = CASE phase = "raised" -> <<"started">>
                    [] result \in {"client_closed", "refused"} -> << >>
                    [] OTHER -> <<"started", result>>
      BY <2>2, <3>1
    <3>. QED
      BY <2>1, <2>2, <3>1, <3>2, <3>3 DEF CallIsReported
  <2>3. CASE phase = "returned" /\ result \in {"client_closed", "refused"}
    BY <2>3 DEF OutInv, CallOK, CallIsReported
  <2>4. CASE phase = "returned" /\ result \notin {"client_closed", "refused"}
    <3>1. /\ hooks = <<"started", result>> /\ Reported /\ phase # "raised" /\ SpanOK
      BY <2>4 DEF OutInv, CallOK
    <3>2. result = "ok" => ~span.error /\ IsSuccess(server.status)
      BY <2>1, <3>1 DEF Reported
    <3>3. result \in {"unauthorized", "rate_limit", "http_status"} => Refusal
      BY <3>1 DEF Reported
    <3>4. /\ Traced /\ wire # Absent => span.state = "ended"
          /\ span.state # "none" => /\ span.state = "ended"
                                    /\ ~span.error => server.status # Absent /\ ~server.error
      BY <2>1, <3>1, OutboundAssumption DEF Reported, Heard
    <3>. QED
      BY <2>1, <2>4, <3>1, <3>2, <3>3, <3>4 DEF CallIsReported
  <2>. QED
    BY <2>2, <2>3, <2>4 DEF Over
<1>. QED
  BY <1>1, OutInvariant, PTL

------------------------------------------------------------------------------
(* The trace.  A request that is out carries what the call was made with   *)
(* and, where a span was injected, that span or nothing a propagator would *)
(* accept; the parent of the server span is what the policy made of it.    *)
OwnSpan == Context(SpanId, TRUE)
NoContext == {Absent, Malformed}

WireOK ==
  wire # Absent =>
    /\ phase # "idle"
    /\ op \in Operations
    /\ wire = [w3c |-> wire.w3c, cloud |-> wire.cloud, requestId |-> wire.requestId]
    /\ wire.requestId = op.requestId
    /\ wire.w3c \notin NoContext => wire.w3c.span \in 1 .. MaxSpanId
    /\ Traced /\ "w3c" \in Injectors => wire.w3c \in NoContext \cup {OwnSpan}
    /\ Traced /\ "cloud" \in Injectors => wire.cloud = CloudInject(OwnSpan)

ParentOK ==
  /\ server = [arrived |-> server.arrived, policy |-> server.policy, parent |-> server.parent,
               requestId |-> server.requestId, status |-> server.status, error |-> server.error]
  /\ server.arrived =>
       /\ wire # Absent
       /\ server.policy \in Policies
       /\ server.requestId = op.requestId
       /\ server.parent = Resolve(server.policy, wire)

TraceInv ==
  /\ wire = Absent \/ phase # "idle"
  /\ phase = "building" => wire = Absent /\ op \in Operations
  /\ WireOK /\ ParentOK

(* What the Google Cloud propagator reads back is what it injected.        *)
LEMMA CloudRoundTrip ==
  ASSUME OutboundAssumption, HeaderAssumption
  PROVE  /\ OwnSpan \notin NoContext
         /\ CloudInject(OwnSpan) \notin NoContext
         /\ CloudExtract(CloudInject(OwnSpan)) = OwnSpan
<1>1. OwnSpan \notin NoContext /\ OwnSpan.span = SpanId /\ OwnSpan.sampled = TRUE
  BY DEF OutboundAssumption, HeaderAssumption, OwnSpan, NoContext, Context
<1>2. CloudInject(OwnSpan) = [trace |-> "valid", span |-> SpanId, options |-> <<"o=1">>]
  BY <1>1 DEF CloudInject
<1>3. CloudInject(OwnSpan) \notin NoContext
  BY <1>2 DEF OutboundAssumption, HeaderAssumption, NoContext
<1>4. IsSampled(<<"o=1">>) = TRUE
  BY DEF IsSampled
<1>5. CloudExtract(CloudInject(OwnSpan)) = Context(SpanId, TRUE)
  <2>. DEFINE h == CloudInject(OwnSpan)
  <2>1. /\ h # Absent /\ h # Malformed /\ h.trace = "valid" /\ h.span = SpanId
        /\ h.options = <<"o=1">>
    BY <1>2, <1>3 DEF NoContext
  <2>2. SpanId \in 1 .. MaxSpanId
    BY DEF OutboundAssumption
  <2>. HIDE DEF h
  <2>3. CloudExtract(h) = Context(h.span, IsSampled(h.options))
    BY <2>1, <2>2 DEF CloudExtract
  <2>. QED
    BY <1>4, <2>1, <2>3 DEF h
<1>. QED
  BY <1>1, <1>3, <1>5 DEF OwnSpan

(* A propagator finds a context with an id in range, or nothing.           *)
LEMMA ExtractIsValid ==
  ASSUME HeaderAssumption, NEW headers, NEW p \in {"w3c", "cloud", "raises"},
         headers.w3c \notin NoContext => headers.w3c.span \in 1 .. MaxSpanId,
         Extract(p, headers) # Absent
  PROVE  Extract(p, headers).span \in 1 .. MaxSpanId
BY DEF Extract, CloudExtract, Context, NoContext

(* The first propagator of the chain with a valid context decides.         *)
FirstValid(policy, headers, k) ==
  /\ k \in 1 .. Len(policy.chain)
  /\ Resolve(policy, headers) = Extract(policy.chain[k], headers)
  /\ Extract(policy.chain[k], headers) # Absent
  /\ \A j \in 1 .. Len(policy.chain) : Extract(policy.chain[j], headers) # Absent => k <= j

LEMMA ResolveIsFirst ==
  ASSUME HeaderAssumption, NEW policy \in Policies, NEW headers, policy.trust,
         NEW k \in 1 .. Len(policy.chain), Extract(policy.chain[k], headers) # Absent
  PROVE  \E f : FirstValid(policy, headers, f)
<1>. DEFINE n == Len(policy.chain)
            valid == {j \in 1 .. n : Extract(policy.chain[j], headers) # Absent}
            first == CHOOSE j \in valid : \A i \in valid : j <= i
<1>1. n \in Nat
  BY LenProperties DEF HeaderAssumption
<1>2. valid \in SUBSET (1 .. n) /\ valid # {}
  OBVIOUS
<1>3. \E j \in valid : \A i \in valid : j <= i
  <2>. HIDE DEF valid, n
  <2>. QED
    BY <1>1, <1>2, FirstPlace
<1>4. first \in valid /\ \A i \in valid : first <= i
  <2>. HIDE DEF valid
  <2>. QED
    BY <1>3
<1>5. Resolve(policy, headers) = Extract(policy.chain[first], headers)
  BY <1>2 DEF Resolve
<1>. HIDE DEF first
<1>6. FirstValid(policy, headers, first)
  BY <1>4, <1>5 DEF FirstValid
<1>. QED
  BY <1>6

LEMMA TraceStart == OutInit => TraceInv
BY DEF OutInit, TraceInv, WireOK, ParentOK, NoServer

LEMMA TraceNext ==
  ASSUME OutboundAssumption, HeaderAssumption, TraceInv, [OutNext]_outVars
  PROVE  TraceInv'
<1>1. CASE \E o \in Operations : Execute(o)
  <2>1. PICK o \in Operations : Execute(o)
    BY <1>1
  <2>2. phase = "idle" /\ wire = Absent /\ UNCHANGED <<wire, server>> /\ op' = o
        /\ phase' \in {"returned", "building"}
    BY <2>1 DEF Execute, TraceInv
  <2>3. ~server.arrived
    BY <2>2 DEF TraceInv, ParentOK
  <2>. QED
    BY <2>2, <2>3 DEF TraceInv, WireOK, ParentOK
<1>2. CASE Send
  <2>. DEFINE Header(name, value, given) == IF Traced /\ name \in Injectors THEN value ELSE given
              w3c == Header("w3c", OwnSpan, op.traceparent)
              cloud == Header("cloud", CloudInject(OwnSpan), Absent)
  <2>1. /\ phase = "building" /\ phase' = "sent" /\ UNCHANGED <<op, server>>
        /\ wire' = [w3c |-> w3c, cloud |-> cloud, requestId |-> op.requestId]
    BY <1>2 DEF Send, OwnSpan
  <2>2. wire = Absent /\ op \in Operations /\ ~server.arrived
    BY <2>1 DEF TraceInv, ParentOK
  <2>3. w3c \notin NoContext => w3c.span \in 1 .. MaxSpanId
    BY <2>2 DEF OwnSpan, Context, OutboundAssumption, HeaderAssumption, NoContext
  <2>4. /\ Traced /\ "w3c" \in Injectors => w3c = OwnSpan
        /\ Traced /\ "cloud" \in Injectors => cloud = CloudInject(OwnSpan)
    OBVIOUS
  <2>. HIDE DEF w3c, cloud
  <2>5. Traced' <=> Traced
    BY <2>1 DEF Traced
  <2>6. WireOK'
    <3>1. wire'.w3c = w3c /\ wire'.cloud = cloud /\ wire'.requestId = op.requestId
      BY <2>1
    <3>2. wire' = [w3c |-> wire'.w3c, cloud |-> wire'.cloud, requestId |-> wire'.requestId]
      BY <2>1
    <3>3. Traced => ("w3c" \in Injectors => wire'.w3c = OwnSpan)
                    /\ ("cloud" \in Injectors => wire'.cloud = CloudInject(OwnSpan))
      BY <2>4, <3>1
    <3>4. wire'.w3c \notin NoContext => wire'.w3c.span \in 1 .. MaxSpanId
      BY <2>3, <3>1
    <3>5. phase' # "idle" /\ op' \in Operations /\ wire'.requestId = op'.requestId
      BY <2>1, <2>2, <3>1
    <3>. QED
      BY <2>5, <3>2, <3>3, <3>4, <3>5 DEF WireOK, OwnSpan, CloudInject
  <2>7. ParentOK'
    BY <2>1, <2>2 DEF TraceInv, ParentOK
  <2>. QED
    BY <2>1, <2>6, <2>7 DEF TraceInv
<1>3. CASE Travel
  <2>1. /\ wire # Absent /\ ~server.arrived
        /\ UNCHANGED <<phase, op, server>>
    BY <1>3 DEF Travel
  <2>2. Traced' <=> Traced
    BY <2>1 DEF Traced
  <2>3. ParentOK'
    BY <2>1 DEF TraceInv, ParentOK
  <2>4. WireOK'
    <3>1. CASE \E w \in NoContext : wire' = [wire EXCEPT !.w3c = w]
      <4>1. PICK w \in NoContext : wire' = [wire EXCEPT !.w3c = w]
        BY <3>1
      <4>2. wire' = [w3c |-> w, cloud |-> wire.cloud, requestId |-> wire.requestId]
        BY <2>1, <4>1 DEF TraceInv, WireOK
      <4>. QED
        BY <2>1, <2>2, <4>2 DEF TraceInv, WireOK
    <3>2. CASE wire.cloud = Absent /\ \E h \in CloudHeaders : wire' = [wire EXCEPT !.cloud = h]
      <4>1. PICK h \in CloudHeaders : wire' = [wire EXCEPT !.cloud = h]
        BY <3>2
      <4>2. wire' = [w3c |-> wire.w3c, cloud |-> h, requestId |-> wire.requestId]
        BY <2>1, <4>1 DEF TraceInv, WireOK
      <4>3. ~(Traced /\ "cloud" \in Injectors)
        BY <2>1, <3>2, CloudRoundTrip DEF TraceInv, WireOK, NoContext
      <4>. QED
        BY <2>1, <2>2, <4>2, <4>3 DEF TraceInv, WireOK
    <3>. QED
      BY <1>3, <3>1, <3>2 DEF Travel, NoContext
  <2>. QED
    BY <2>1, <2>3, <2>4 DEF TraceInv
<1>4. ASSUME NEW policy \in Policies, Arrive(policy)
      PROVE  TraceInv'
  <2>1. wire # Absent /\ UNCHANGED <<phase, op, wire>>
    BY <1>4 DEF Arrive
  <2>2. server' = [arrived |-> TRUE, policy |-> policy, parent |-> Resolve(policy, wire),
                   requestId |-> wire.requestId, status |-> server.status, error |-> server.error]
    BY <1>4 DEF Arrive, TraceInv, ParentOK
  <2>3. ParentOK'
    <3>1. server'.parent = Resolve(policy, wire)
      BY <2>2
    <3>2. server'.policy = policy /\ server'.requestId = wire.requestId
      BY <2>2
    <3>3. Resolve(server.policy, wire)' = Resolve(policy, wire)
      BY <2>1, <3>2 DEF Resolve, Extract, CloudExtract
    <3>. QED
      BY <2>1, <2>2, <3>1, <3>2, <3>3 DEF ParentOK, TraceInv, WireOK
  <2>. QED
    BY <2>1, <2>3 DEF TraceInv, WireOK, Traced
<1>5. ASSUME NEW status \in HttpStatus, Serve(status)
      PROVE  TraceInv'
  <2>1. UNCHANGED <<phase, op, wire>>
    BY <1>5, Zenon DEF Serve
  <2>. DEFINE e == status >= 500
  <2>2. server' = [server EXCEPT !.status = status, !.error = e]
    BY <1>5, Zenon DEF Serve
  <2>. HIDE DEF e
  <2>3. server' = [arrived |-> server.arrived, policy |-> server.policy, parent |-> server.parent,
                   requestId |-> server.requestId, status |-> status, error |-> e]
    BY <2>2 DEF TraceInv, ParentOK
  <2>4. ParentOK'
    <3>1. server'.policy = server.policy /\ server'.parent = server.parent
          /\ server'.requestId = server.requestId /\ server'.arrived = server.arrived
      BY <2>3
    <3>2. Resolve(server.policy, wire)' = Resolve(server.policy, wire)
      BY <2>1, <3>1 DEF Resolve, Extract, CloudExtract
    <3>. QED
      BY <2>1, <2>3, <3>1, <3>2 DEF ParentOK, TraceInv
  <2>. QED
    BY <2>1, <2>4 DEF TraceInv, WireOK, Traced
<1>6. CASE /\ UNCHANGED <<op, wire, server>>
           /\ phase' = phase \/ phase' \notin {"idle", "building"}
  <2>1. ParentOK'
    <3>1. Resolve(server.policy, wire)' = Resolve(server.policy, wire)
      BY <1>6 DEF Resolve, Extract, CloudExtract
    <3>. QED
      BY <1>6, <3>1 DEF TraceInv, ParentOK
  <2>. QED
    BY <1>6, <2>1 DEF TraceInv, WireOK, Traced
<1>7. CASE UNCHANGED outVars
  BY <1>6, <1>7 DEF outVars
<1>8. CASE \/ Close \/ HeadersFail \/ EncodingFails \/ Answer \/ ReadErrorBody \/ ErrorBodyFails
           \/ Report
           \/ \E outcome \in {"timeout", "transport_error", "unexpected_error"} : NoAnswer(outcome)
           \/ \E outcome \in {"ok", "invalid_json", "invalid_graphql_response",
                              "invalid_graphql_data"} : Decode(outcome)
           \/ \E outcome \in {"timeout", "unexpected_error"} : ReadingFails(outcome)
  BY <1>6, <1>8 DEF Close, HeadersFail, EncodingFails, Answer, ReadErrorBody, ErrorBodyFails,
                    Report, NoAnswer, Decode, ReadingFails, Ends
<1>. QED
  BY <1>1, <1>2, <1>3, <1>4, <1>5, <1>7, <1>8 DEF OutNext

LEMMA TraceInvImplies ==
  ASSUME OutboundAssumption, HeaderAssumption, TraceInv
  PROVE  TraceContinues
<1>. SUFFICES ASSUME server.arrived PROVE TraceContinues
  BY DEF TraceContinues
<1>. DEFINE policy == server.policy
            chain == policy.chain
            ByProxy(j) == chain[j] = "cloud" /\ "cloud" \notin Injectors /\ wire.cloud # Absent
<1>1. /\ wire # Absent /\ policy \in Policies /\ server.requestId = op.requestId
      /\ server.parent = Resolve(policy, wire)
  BY DEF TraceInv, ParentOK
<1>2. /\ Len(chain) \in Nat /\ policy.trust \in BOOLEAN
      /\ \A j \in 1 .. Len(chain) : chain[j] \in {"w3c", "cloud", "raises"}
  BY <1>1, LenProperties, ElementOfSeq DEF HeaderAssumption
<1>3. /\ wire.w3c \notin NoContext => wire.w3c.span \in 1 .. MaxSpanId
      /\ Traced /\ "w3c" \in Injectors => wire.w3c \in NoContext \cup {OwnSpan}
      /\ Traced /\ "cloud" \in Injectors => wire.cloud = CloudInject(OwnSpan)
  BY <1>1 DEF TraceInv, WireOK
<1>. HIDE DEF policy
<1>4. ~policy.trust => server.parent = Absent
  BY <1>1 DEF Resolve
<1>5. server.parent # Absent => server.parent.span \in 1 .. MaxSpanId
  <2>. SUFFICES ASSUME server.parent # Absent PROVE server.parent.span \in 1 .. MaxSpanId
    OBVIOUS
  <2>1. policy.trust /\ \E j \in 1 .. Len(chain) : Extract(chain[j], wire) # Absent
    BY <1>1 DEF Resolve
  <2>2. PICK f : FirstValid(policy, wire, f)
    BY <1>1, <2>1, ResolveIsFirst
  <2>3. f \in 1 .. Len(chain) /\ server.parent = Extract(chain[f], wire)
    BY <1>1, <2>2 DEF FirstValid
  <2>. QED
    BY <1>2, <1>3, <2>3, ExtractIsValid
<1>6. ASSUME policy.trust, NEW k \in 1 .. Len(chain), Extract(chain[k], wire) = OwnSpan,
             \A j \in 1 .. k : Extract(chain[j], wire) \in {OwnSpan, Absent}
      PROVE  server.parent = OwnSpan
  <2>1. Extract(chain[k], wire) # Absent
    BY <1>6, CloudRoundTrip DEF NoContext
  <2>2. PICK f : FirstValid(policy, wire, f)
    BY <1>1, <1>6, <2>1, ResolveIsFirst
  <2>3. f \in 1 .. k
    BY <1>2, <2>1, <2>2 DEF FirstValid
  <2>. QED
    BY <1>1, <1>6, <2>2, <2>3 DEF FirstValid
<1>7. ASSUME policy.trust, Traced, NEW k \in 1 .. Len(chain), chain[k] = "w3c", wire.w3c = OwnSpan,
             \A j \in 1 .. k - 1 : ~ByProxy(j)
      PROVE  server.parent = OwnSpan
  <2>1. Extract(chain[k], wire) = OwnSpan
    BY <1>7, CloudRoundTrip DEF Extract, NoContext
  <2>2. ASSUME NEW j \in 1 .. k PROVE Extract(chain[j], wire) \in {OwnSpan, Absent}
    <3>1. CASE chain[j] = "w3c"
      BY <1>7, <3>1, CloudRoundTrip DEF Extract, NoContext
    <3>2. CASE chain[j] = "raises"
      BY <3>2 DEF Extract
    <3>3. CASE chain[j] = "cloud"
      <4>1. Extract(chain[j], wire) = CloudExtract(wire.cloud)
        BY <3>3 DEF Extract
      <4>2. j \in 1 .. k - 1
        BY <1>2, <1>7, <3>3
      <4>3. "cloud" \in Injectors \/ wire.cloud = Absent
        BY <1>7, <3>3, <4>2
      <4>4. CASE wire.cloud = Absent
        BY <4>1, <4>4 DEF CloudExtract
      <4>5. CASE "cloud" \in Injectors
        BY <1>3, <1>7, <4>1, <4>5, CloudRoundTrip
      <4>. QED
        BY <4>3, <4>4, <4>5
    <3>. QED
      BY <1>2, <3>1, <3>2, <3>3
  <2>. QED
    BY <1>6, <1>7, <2>1, <2>2
<1>8. ASSUME policy.trust, Traced, NEW k \in 1 .. Len(chain), chain[k] = "cloud",
             {"w3c", "cloud"} \subseteq Injectors
      PROVE  server.parent = OwnSpan
  <2>1. wire.cloud = CloudInject(OwnSpan) /\ wire.w3c \in NoContext \cup {OwnSpan}
    BY <1>3, <1>8
  <2>2. Extract(chain[k], wire) = OwnSpan
    BY <1>8, <2>1, CloudRoundTrip DEF Extract
  <2>3. ASSUME NEW j \in 1 .. k PROVE Extract(chain[j], wire) \in {OwnSpan, Absent}
    BY <1>2, <2>1, CloudRoundTrip DEF Extract, NoContext
  <2>. QED
    BY <1>6, <1>8, <2>2, <2>3
<1>. QED
  BY <1>1, <1>4, <1>5, <1>7, <1>8 DEF TraceContinues, OwnSpan, policy

(* Whatever headers are lost, damaged or added on the way and whichever    *)
(* propagators the two services have: the called service continues the     *)
(* call that reached it, or nothing (ClientCallTracing,                    *)
(* PropagationPolicy.resolve, CloudTraceContextPropagator).                *)
THEOREM TracesContinue ==
  OutSpec => []TraceContinues
<1>1. OutInit => TraceInv
  BY TraceStart
<1>2. TraceInv /\ [OutNext]_outVars => TraceInv'
  BY OutboundAssumption, HeaderAssumption, TraceNext
<1>3. TraceInv => TraceContinues
  BY OutboundAssumption, HeaderAssumption, TraceInvImplies
<1>. QED
  BY <1>1, <1>2, <1>3, PTL DEF OutSpec

------------------------------------------------------------------------------
(* Metrics: what a list of amounts adds up to.  Up to each place there is  *)
(* one list of running totals, by induction on the place.                  *)
RunningTotals(amounts, n, f) == f = [k \in 0 .. n |-> IF k = 0 THEN 0 ELSE f[k - 1] + amounts[k]]

LEMMA RunningTotalsExist ==
  ASSUME NEW amounts \in Seq(Int), NEW n \in 0 .. Len(amounts)
  PROVE  \E f \in [0 .. n -> Int] : RunningTotals(amounts, n, f)
<1>. DEFINE S == {m \in Nat : m <= Len(amounts) =>
                   \E f \in [0 .. m -> Int] : RunningTotals(amounts, m, f)}
<1>0. Len(amounts) \in Nat /\ \A k \in 1 .. Len(amounts) : amounts[k] \in Int
  OBVIOUS
<1>1. 0 \in S
  <2>. DEFINE g == [k \in 0 .. 0 |-> 0]
  <2>1. g \in [0 .. 0 -> Int] /\ RunningTotals(amounts, 0, g)
    BY DEF RunningTotals
  <2>. HIDE DEF g
  <2>. QED
    BY <2>1
<1>2. ASSUME NEW m \in Nat, m \in S, m + 1 <= Len(amounts)
      PROVE  \E g \in [0 .. m + 1 -> Int] : RunningTotals(amounts, m + 1, g)
  <2>1. PICK f \in [0 .. m -> Int] : RunningTotals(amounts, m, f)
    BY <1>0, <1>2
  <2>. DEFINE g == [k \in 0 .. m + 1 |-> IF k = m + 1 THEN f[m] + amounts[m + 1] ELSE f[k]]
  <2>2. m + 1 \in 1 .. Len(amounts) /\ amounts[m + 1] \in Int /\ f[m] \in Int
    BY <1>0, <1>2
  <2>3. g \in [0 .. m + 1 -> Int]
    BY <2>2
  <2>4. \A k \in 0 .. m : f[k] = IF k = 0 THEN 0 ELSE f[k - 1] + amounts[k]
    BY <2>1 DEF RunningTotals
  <2>5. ASSUME NEW k \in 0 .. m + 1
        PROVE  g[k] = IF k = 0 THEN 0 ELSE g[k - 1] + amounts[k]
    <3>1. CASE k = m + 1
      BY <3>1
    <3>2. CASE k \in 0 .. m
      <4>1. g[k] = f[k] /\ (k # 0 => g[k - 1] = f[k - 1])
        BY <3>2
      <4>. HIDE DEF g
      <4>. QED
        BY <3>2, <4>1, <2>4
    <3>. QED
      BY <3>1, <3>2
  <2>6. g = [k \in 0 .. m + 1 |-> g[k]]
    OBVIOUS
  <2>. HIDE DEF g
  <2>7. RunningTotals(amounts, m + 1, g)
    BY <2>5, <2>6 DEF RunningTotals
  <2>. QED
    BY <2>3, <2>7
<1>3. \A m \in Nat : m \in S => m + 1 \in S
  BY <1>2
<1>. HIDE DEF S
<1>4. Nat \subseteq S
  BY <1>1, <1>3, Induction
<1>5. n \in S /\ n <= Len(amounts)
  BY <1>0, <1>4
<1>. QED
  BY <1>5 DEF S

LEMMA RunningTotalsAgree ==
  ASSUME NEW amounts, NEW n \in Nat,
         NEW f, RunningTotals(amounts, n, f), NEW g, RunningTotals(amounts, n, g)
  PROVE  \A k \in 0 .. n : f[k] = g[k]
<1>. DEFINE S == {m \in Nat : m <= n => f[m] = g[m]}
<1>1. \A k \in 0 .. n : /\ f[k] = IF k = 0 THEN 0 ELSE f[k - 1] + amounts[k]
                        /\ g[k] = IF k = 0 THEN 0 ELSE g[k - 1] + amounts[k]
  BY DEF RunningTotals
<1>2. 0 \in S
  BY <1>1
<1>3. ASSUME NEW m \in Nat, m \in S PROVE m + 1 \in S
  <2>1. CASE m + 1 <= n
    <3>1. f[m] = g[m] /\ m + 1 \in 0 .. n /\ m + 1 # 0 /\ m + 1 - 1 = m
      BY <1>3, <2>1
    <3>2. f[m + 1] = f[m + 1 - 1] + amounts[m + 1] /\ g[m + 1] = g[m + 1 - 1] + amounts[m + 1]
      BY <1>1, <3>1
    <3>. QED
      BY <3>1, <3>2
  <2>2. CASE ~(m + 1 <= n)
    BY <2>2
  <2>. QED
    BY <2>1, <2>2
<1>. HIDE DEF S
<1>4. Nat \subseteq S
  BY <1>2, <1>3, Induction
<1>. QED
  BY <1>4 DEF S

LEMMA TotalIsLast ==
  ASSUME NEW amounts \in Seq(Int), NEW f, RunningTotals(amounts, Len(amounts), f)
  PROVE  Total(amounts) = f[Len(amounts)]
<1>. DEFINE g == CHOOSE h : RunningTotals(amounts, Len(amounts), h)
<1>1. Total(amounts) = g[Len(amounts)]
  BY DEF Total, RunningTotals
<1>2. RunningTotals(amounts, Len(amounts), g)
  OBVIOUS
<1>. HIDE DEF g
<1>3. Len(amounts) \in Nat /\ Len(amounts) \in 0 .. Len(amounts)
  OBVIOUS
<1>. QED
  BY <1>1, <1>2, <1>3, RunningTotalsAgree

LEMMA TotalOfNone ==
  Total(<< >>) = 0
<1>1. ASSUME NEW amounts \in Seq(Int), Len(amounts) = 0
      PROVE  Total(amounts) = 0
  <2>. DEFINE n == Len(amounts)
  <2>0. n \in 0 .. Len(amounts)
    BY <1>1
  <2>. HIDE DEF n
  <2>1. PICK f \in [0 .. n -> Int] : RunningTotals(amounts, n, f)
    BY <2>0, RunningTotalsExist
  <2>2. f[0] = 0
    BY <1>1, <2>1 DEF RunningTotals, n
  <2>. QED
    BY <1>1, <2>1, <2>2, TotalIsLast DEF n
<1>2. << >> \in Seq(Int) /\ Len(<< >>) = 0
  OBVIOUS
<1>. QED
  BY <1>1, <1>2

LEMMA TotalOfMore ==
  ASSUME NEW amounts \in Seq(Int), NEW amount \in Int
  PROVE  /\ Total(amounts) \in Int
         /\ Total(Append(amounts, amount)) = Total(amounts) + amount
<1>. DEFINE more == Append(amounts, amount)
            n == Len(amounts)
<1>1. /\ n \in Nat /\ more \in Seq(Int) /\ Len(more) = n + 1 /\ more[n + 1] = amount
      /\ \A k \in 1 .. n : more[k] = amounts[k]
  OBVIOUS
<1>. HIDE DEF more
<1>2. PICK f \in [0 .. n + 1 -> Int] : RunningTotals(more, n + 1, f)
  <2>. HIDE DEF n
  <2>1. n + 1 \in 0 .. Len(more)
    BY <1>1
  <2>. QED
    BY <1>1, <2>1, RunningTotalsExist
<1>3. \A k \in 0 .. n + 1 : f[k] = IF k = 0 THEN 0 ELSE f[k - 1] + more[k]
  BY <1>2 DEF RunningTotals
<1>. DEFINE g == [k \in 0 .. n |-> f[k]]
<1>4. RunningTotals(amounts, n, g)
  <2>. HIDE DEF n
  <2>1. ASSUME NEW k \in 0 .. n PROVE g[k] = IF k = 0 THEN 0 ELSE g[k - 1] + amounts[k]
    <3>1. g[k] = f[k] /\ (k # 0 => k \in 1 .. n /\ g[k - 1] = f[k - 1] /\ k - 1 \in 0 .. n)
      BY <1>1
    <3>2. k \in 0 .. n + 1
      BY <1>1
    <3>. HIDE DEF g
    <3>. QED
      BY <1>1, <1>3, <3>1, <3>2
  <2>2. g = [k \in 0 .. n |-> g[k]]
    OBVIOUS
  <2>. HIDE DEF g
  <2>. QED
    BY <2>1, <2>2 DEF RunningTotals
<1>5. Total(amounts) = f[n] /\ f[n] \in Int
  <2>1. g[n] = f[n] /\ n \in 0 .. n + 1
    BY <1>1
  <2>2. Total(amounts) = g[n]
    <3>. HIDE DEF g
    <3>. QED
      BY <1>4, TotalIsLast
  <2>. QED
    BY <1>2, <2>1, <2>2
<1>6. Total(more) = f[n + 1]
  BY <1>1, <1>2, TotalIsLast
<1>7. f[n + 1] = f[n] + amount
  BY <1>1, <1>3
<1>. QED
  BY <1>5, <1>6, <1>7 DEF more

LEMMA TotalOfOne ==
  ASSUME NEW amount \in Int
  PROVE  Total(<<amount>>) = amount
<1>1. << >> \in Seq(Int) /\ Append(<< >>, amount) = <<amount>>
  OBVIOUS
<1>2. Total(Append(<< >>, amount)) = Total(<< >>) + amount
  BY <1>1, TotalOfMore
<1>3. 0 + amount = amount
  OBVIOUS
<1>. QED
  BY <1>1, <1>2, <1>3, TotalOfNone

LEMMA AtMostType ==
  ASSUME NEW amounts \in Seq(Int), NEW bound \in Int
  PROVE  AtMost(bound, amounts) \in Nat
<1>. DEFINE held == {k \in 1 .. Len(amounts) : amounts[k] <= bound}
<1>1. IsFiniteSet(1 .. Len(amounts)) /\ held \in SUBSET (1 .. Len(amounts))
  BY FS_Interval
<1>. QED
  BY <1>1, FS_Subset, FS_CardinalityType DEF AtMost

LEMMA AtMostOfNone ==
  ASSUME NEW bound
  PROVE  AtMost(bound, << >>) = 0
<1>1. {k \in 1 .. Len(<< >>) : << >>[k] <= bound} = {}
  OBVIOUS
<1>. QED
  BY <1>1, FS_EmptySet DEF AtMost

LEMMA AtMostOfMore ==
  ASSUME NEW amounts \in Seq(Int), NEW amount \in Int, NEW bound \in Int
  PROVE  AtMost(bound, Append(amounts, amount)) =
           IF amount <= bound THEN AtMost(bound, amounts) + 1 ELSE AtMost(bound, amounts)
<1>. DEFINE n == Len(amounts)
            more == Append(amounts, amount)
            held == {k \in 1 .. n : amounts[k] <= bound}
            holds == {k \in 1 .. Len(more) : more[k] <= bound}
<1>1. /\ n \in Nat /\ Len(more) = n + 1 /\ more[n + 1] = amount
      /\ \A k \in 1 .. n : more[k] = amounts[k]
  OBVIOUS
<1>2. holds = IF amount <= bound THEN held \cup {n + 1} ELSE held
  <2>. HIDE DEF more, n
  <2>1. 1 .. n + 1 = (1 .. n) \cup {n + 1}
    BY <1>1
  <2>. QED
    BY <1>1, <2>1
<1>3. IsFiniteSet(held) /\ n + 1 \notin held
  <2>1. IsFiniteSet(1 .. n) /\ held \in SUBSET (1 .. n)
    BY <1>1, FS_Interval
  <2>2. n + 1 \notin 1 .. n
    BY <1>1
  <2>. QED
    BY <2>1, <2>2, FS_Subset
<1>4. AtMost(bound, amounts) = Cardinality(held) /\ AtMost(bound, more) = Cardinality(holds)
  BY DEF AtMost
<1>. HIDE DEF held, holds, more, n
<1>5. Cardinality(held \cup {n + 1}) = Cardinality(held) + 1
  BY <1>3, FS_AddElement
<1>. QED
  BY <1>2, <1>4, <1>5 DEF more

------------------------------------------------------------------------------
(* What a family shows.  Its children have different keys, and whatever    *)
(* was told is under the key of one of them; a child whose key is its own  *)
(* shows all that was told of its labels.  A key that is shared stays      *)
(* shared, so the first time two label sets meet decides.                  *)
MetricType == {"counter", "gauge", "histogram"}
ChildRecord == [labels : LabelSets, value : Int, counts : Seq(Int)]
FamilyRecord ==
  [name : Name, type : MetricType, buckets : Seq(Int), root : Int, children : Seq(ChildRecord)]

SameKey(a, b) == LabelKey(a) = LabelKey(b)
SharedIn(f, used, labels) ==
  \E other \in used \cup {f.children[k].labels : k \in 1 .. Len(f.children)} :
    other # labels /\ SameKey(other, labels)

Shows(f, child, amounts) ==
  IF f.type # "histogram" THEN child.value = Total(amounts)
  ELSE /\ child.value = Len(amounts)
       /\ \A k \in 1 .. Len(f.buckets) : child.counts[k] = AtMost(f.buckets[k], amounts)
       /\ child.counts[Len(f.buckets) + 1] = child.value

KeysKept(f, used) ==
  /\ \A j, k \in 1 .. Len(f.children) : SameKey(f.children[j].labels, f.children[k].labels) => j = k
  /\ \A l \in used : \E k \in 1 .. Len(f.children) : SameKey(f.children[k].labels, l)
ShowsAll(f, used, past) ==
  \A k \in 1 .. Len(f.children) :
    /\ Len(f.children[k].counts) = Len(f.buckets) + 1
    /\ ~SharedIn(f, used, f.children[k].labels) =>
         Shows(f, f.children[k], past[f.children[k].labels])

PastOK(used, past) ==
  /\ used \subseteq LabelSets /\ past \in [LabelSets -> Seq(Int)]
  /\ \A l \in LabelSets \ used : past[l] = << >>
Looked(f, labels) == [f EXCEPT !.children = Children(f, labels)]
With(g, c, child) == [g EXCEPT !.children = [@ EXCEPT ![c] = child]]

FamilyOK(f, used, past) ==
  f \in FamilyRecord /\ PastOK(used, past) /\ KeysKept(f, used) /\ ShowsAll(f, used, past)

LEMMA NewShows ==
  ASSUME NEW f \in FamilyRecord, NEW labels \in LabelSets
  PROVE  /\ NewChild(f, labels) \in ChildRecord
         /\ NewChild(f, labels).labels = labels
         /\ Len(NewChild(f, labels).counts) = Len(f.buckets) + 1
         /\ Shows(f, NewChild(f, labels), << >>)
<1>. DEFINE n == Len(f.buckets)
            zeros == [k \in 1 .. n + 1 |-> 0]
<1>1. n \in Nat /\ \A k \in 1 .. n : f.buckets[k] \in Int
  BY DEF FamilyRecord
<1>2. NewChild(f, labels) = [labels |-> labels, value |-> 0, counts |-> zeros]
  BY DEF NewChild
<1>3. zeros \in Seq(Int) /\ Len(zeros) = n + 1 /\ \A k \in 1 .. n + 1 : zeros[k] = 0
  <2>. HIDE DEF n
  <2>. QED
    BY <1>1
<1>. HIDE DEF zeros, n
<1>4. n + 1 \in 1 .. n + 1 /\ \A k \in 1 .. n : k \in 1 .. n + 1
  BY <1>1
<1>5. Len(<< >>) = 0
  OBVIOUS
<1>6. Shows(f, NewChild(f, labels), << >>)
  BY <1>2, <1>3, <1>4, <1>5, TotalOfNone, AtMostOfNone DEF Shows, n
<1>. QED
  BY <1>2, <1>3, <1>6 DEF ChildRecord, n

LEMMA ChildWith ==
  ASSUME NEW child \in ChildRecord, NEW v \in Int, NEW e \in Seq(Int)
  PROVE  /\ [child EXCEPT !.value = v] \in ChildRecord
         /\ [child EXCEPT !.value = v].labels = child.labels
         /\ [child EXCEPT !.value = v].counts = child.counts
         /\ [child EXCEPT !.value = v].value = v
         /\ [child EXCEPT !.value = v, !.counts = e] \in ChildRecord
         /\ [child EXCEPT !.value = v, !.counts = e].labels = child.labels
         /\ [child EXCEPT !.value = v, !.counts = e].counts = e
         /\ [child EXCEPT !.value = v, !.counts = e].value = v
BY DEF ChildRecord

(* One more amount is one more in the buckets that hold it.                *)
LEMMA ChangedShows ==
  ASSUME NEW f \in FamilyRecord, NEW child \in ChildRecord, Len(child.counts) = Len(f.buckets) + 1,
         NEW amounts \in Seq(Int), NEW amount \in Int
  PROVE  /\ Changed(f, child, amount) \in ChildRecord
         /\ Changed(f, child, amount).labels = child.labels
         /\ Len(Changed(f, child, amount).counts) = Len(f.buckets) + 1
         /\ Shows(f, child, amounts) =>
              Shows(f, Changed(f, child, amount), Append(amounts, amount))
<1>. DEFINE n == Len(f.buckets)
            more == Append(amounts, amount)
            counts == [k \in DOMAIN child.counts |->
                        IF k = Len(child.counts) \/ amount <= f.buckets[k]
                          THEN child.counts[k] + 1 ELSE child.counts[k]]
<1>1. /\ n \in Nat /\ \A k \in 1 .. n : f.buckets[k] \in Int
      /\ child.counts \in Seq(Int) /\ Len(child.counts) = n + 1 /\ child.value \in Int
  BY DEF FamilyRecord, ChildRecord
<1>2. /\ DOMAIN child.counts = 1 .. n + 1
      /\ \A k \in 1 .. n + 1 : child.counts[k] \in Int
  BY <1>1
<1>3. Len(more) = Len(amounts) + 1
  OBVIOUS
<1>4. CASE f.type # "histogram"
  <2>1. Changed(f, child, amount) = [child EXCEPT !.value = @ + amount]
    BY <1>4 DEF Changed
  <2>2. /\ [child EXCEPT !.value = @ + amount] \in ChildRecord
        /\ [child EXCEPT !.value = @ + amount].labels = child.labels
        /\ [child EXCEPT !.value = @ + amount].counts = child.counts
        /\ [child EXCEPT !.value = @ + amount].value = child.value + amount
    <3>. DEFINE v == child.value + amount
    <3>1. v \in Int /\ child.counts \in Seq(Int)
      BY <1>1
    <3>2. [child EXCEPT !.value = @ + amount] = [child EXCEPT !.value = v]
      OBVIOUS
    <3>. HIDE DEF v
    <3>3. /\ [child EXCEPT !.value = v] \in ChildRecord
          /\ [child EXCEPT !.value = v].labels = child.labels
          /\ [child EXCEPT !.value = v].counts = child.counts
          /\ [child EXCEPT !.value = v].value = v
      BY <3>1, ChildWith
    <3>. QED
      BY <3>2, <3>3 DEF v
  <2>. QED
    BY <1>1, <1>4, <2>1, <2>2, TotalOfMore DEF Shows
<1>5. CASE f.type = "histogram"
  <2>. DEFINE d == [child EXCEPT !.value = @ + 1, !.counts = counts]
  <2>1. Changed(f, child, amount) = d
    BY <1>5 DEF Changed
  <2>2. /\ counts \in Seq(Int) /\ Len(counts) = n + 1
        /\ counts[n + 1] = child.counts[n + 1] + 1
        /\ \A k \in 1 .. n : counts[k] = IF amount <= f.buckets[k] THEN child.counts[k] + 1
                                         ELSE child.counts[k]
    <3>. HIDE DEF n
    <3>1. /\ counts \in [1 .. n + 1 -> Int]
          /\ n + 1 \in 1 .. n + 1 /\ \A k \in 1 .. n : k \in 1 .. n + 1 /\ k # n + 1
      BY <1>1, <1>2
    <3>2. /\ counts[n + 1] = child.counts[n + 1] + 1
          /\ \A k \in 1 .. n : counts[k] = IF amount <= f.buckets[k] THEN child.counts[k] + 1
                                           ELSE child.counts[k]
      BY <1>1, <1>2, <3>1
    <3>3. \A s \in [1 .. n + 1 -> Int] : s \in Seq(Int) /\ Len(s) = n + 1
      BY <1>1
    <3>. HIDE DEF counts
    <3>. QED
      BY <3>1, <3>2, <3>3
  <2>. HIDE DEF counts
  <2>3. d \in ChildRecord /\ d.labels = child.labels /\ d.value = child.value + 1 /\ d.counts = counts
    <3>. DEFINE v == child.value + 1
    <3>1. v \in Int /\ counts \in Seq(Int)
      BY <1>1, <2>2
    <3>2. d = [child EXCEPT !.value = v, !.counts = counts]
      OBVIOUS
    <3>. HIDE DEF v, d
    <3>3. ASSUME NEW u \in Int, NEW e \in Seq(Int), d = [child EXCEPT !.value = u, !.counts = e]
          PROVE  d \in ChildRecord /\ d.labels = child.labels /\ d.counts = e /\ d.value = u
      BY <3>3 DEF ChildRecord
    <3>4. d \in ChildRecord /\ d.labels = child.labels /\ d.counts = counts /\ d.value = v
      BY <3>1, <3>2, <3>3
    <3>. QED
      BY <3>4 DEF v
  <2>. HIDE DEF d
  <2>4. ASSUME Shows(f, child, amounts) PROVE Shows(f, d, more)
    <3>1. /\ child.value = Len(amounts) /\ child.counts[n + 1] = child.value
          /\ \A k \in 1 .. n : child.counts[k] = AtMost(f.buckets[k], amounts)
      BY <1>5, <2>4 DEF Shows
    <3>2. d.value = Len(more) /\ d.counts[n + 1] = d.value
      BY <1>3, <2>2, <2>3, <3>1
    <3>3. ASSUME NEW k \in 1 .. n PROVE d.counts[k] = AtMost(f.buckets[k], more)
      <4>1. f.buckets[k] \in Int
        BY <1>1
      <4>2. AtMost(f.buckets[k], more) =
              IF amount <= f.buckets[k] THEN AtMost(f.buckets[k], amounts) + 1
              ELSE AtMost(f.buckets[k], amounts)
        BY <4>1, AtMostOfMore
      <4>. QED
        BY <2>2, <2>3, <3>1, <4>2
    <3>. QED
      BY <1>5, <3>2, <3>3 DEF Shows
  <2>. QED
    BY <1>1, <2>1, <2>2, <2>3, <2>4
<1>. QED
  BY <1>4, <1>5

LEMMA ChildFound ==
  ASSUME NEW f \in FamilyRecord, NEW labels
  PROVE  LET n == Len(f.children)
         IN  \/ /\ Child(f, labels) = n + 1
                /\ \A k \in 1 .. n : ~SameKey(f.children[k].labels, labels)
             \/ /\ Child(f, labels) \in 1 .. n
                /\ SameKey(f.children[Child(f, labels)].labels, labels)
BY DEF Child, SameKey

(* labels() keeps all this: a child that is new shows nothing, and nothing *)
(* was told of labels without a child.                                     *)
LEMMA LabelsKeeps ==
  ASSUME NEW f, NEW used, NEW past, FamilyOK(f, used, past), NEW labels \in LabelSets
  PROVE  LET g == Looked(f, labels)
             c == Child(f, labels)
         IN  /\ FamilyOK(g, used, past)
             /\ c \in 1 .. Len(g.children) /\ SameKey(g.children[c].labels, labels)
<1>. DEFINE n == Len(f.children)
            g == Looked(f, labels)
            c == Child(f, labels)
            new == NewChild(f, labels)
<1>0. /\ f \in FamilyRecord /\ f.children \in Seq(ChildRecord) /\ n \in Nat
      /\ PastOK(used, past) /\ KeysKept(f, used) /\ ShowsAll(f, used, past)
  BY DEF FamilyOK, FamilyRecord
<1>1. CASE c \in 1 .. n /\ SameKey(f.children[c].labels, labels)
  <2>1. Children(f, labels) = f.children
    BY <1>0, <1>1 DEF Children
  <2>2. g = f
    BY <1>0, <2>1 DEF FamilyRecord, Looked
  <2>. QED
    BY <1>1, <2>2
<1>2. CASE c = n + 1 /\ \A k \in 1 .. n : ~SameKey(f.children[k].labels, labels)
  <2>1. Children(f, labels) = Append(f.children, new)
    BY <1>0, <1>2 DEF Children
  <2>2. new \in ChildRecord /\ new.labels = labels /\ Len(new.counts) = Len(f.buckets) + 1
        /\ Shows(f, new, << >>)
    BY <1>0, NewShows
  <2>3. /\ g \in FamilyRecord /\ g.type = f.type /\ g.buckets = f.buckets
        /\ g.children = Append(f.children, new)
    <3>1. Append(f.children, new) \in Seq(ChildRecord)
      BY <1>0, <2>2
    <3>. HIDE DEF new
    <3>. QED
      BY <1>0, <2>1, <3>1 DEF FamilyRecord, Looked
  <2>4. /\ Len(g.children) = n + 1 /\ g.children[n + 1] = new
        /\ \A k \in 1 .. n : g.children[k] = f.children[k]
    <3>1. ASSUME NEW s \in Seq(ChildRecord), NEW x \in ChildRecord
          PROVE  /\ Len(Append(s, x)) = Len(s) + 1 /\ Append(s, x)[Len(s) + 1] = x
                 /\ \A k \in 1 .. Len(s) : Append(s, x)[k] = s[k]
      OBVIOUS
    <3>. HIDE DEF g, new
    <3>. QED
      BY <1>0, <2>2, <2>3, <3>1
  <2>. HIDE DEF g, new
  <2>5. \A k \in 1 .. n + 1 : k \in 1 .. n \/ k = n + 1
    BY <1>0
  <2>6. labels \notin used /\ past[labels] = << >>
    <3>1. labels \notin used
      BY <1>0, <1>2 DEF KeysKept
    <3>. QED
      BY <1>0, <3>1 DEF PastOK
  <2>7. KeysKept(g, used)
    <3>1. ASSUME NEW j \in 1 .. n + 1, NEW k \in 1 .. n + 1,
                 SameKey(g.children[j].labels, g.children[k].labels)
          PROVE  j = k
      <4>1. CASE j \in 1 .. n /\ k \in 1 .. n
        BY <1>0, <2>4, <3>1, <4>1 DEF KeysKept
      <4>2. CASE j \in 1 .. n /\ k = n + 1
        BY <1>2, <2>2, <2>4, <3>1, <4>2
      <4>3. CASE j = n + 1 /\ k \in 1 .. n
        BY <1>2, <2>2, <2>4, <3>1, <4>3 DEF SameKey
      <4>. QED
        BY <2>5, <4>1, <4>2, <4>3
    <3>2. ASSUME NEW l \in used PROVE \E k \in 1 .. n + 1 : SameKey(g.children[k].labels, l)
      <4>1. PICK k \in 1 .. n : SameKey(f.children[k].labels, l)
        BY <1>0 DEF KeysKept
      <4>2. k \in 1 .. n + 1
        BY <1>0
      <4>. QED
        BY <2>4, <4>1, <4>2
    <3>. QED
      BY <2>4, <3>1, <3>2 DEF KeysKept
  <2>8. ASSUME NEW k \in 1 .. n + 1
        PROVE  /\ Len(g.children[k].counts) = Len(g.buckets) + 1
               /\ ~SharedIn(g, used, g.children[k].labels) =>
                    Shows(g, g.children[k], past[g.children[k].labels])
    <3>1. CASE k = n + 1
      BY <2>2, <2>3, <2>4, <2>6, <3>1 DEF Shows
    <3>2. CASE k \in 1 .. n
      <4>1. SharedIn(f, used, f.children[k].labels) => SharedIn(g, used, f.children[k].labels)
        <5>1. \A j \in 1 .. n : j \in 1 .. n + 1 /\ g.children[j].labels = f.children[j].labels
          BY <1>0, <2>4
        <5>. QED
          BY <2>4, <5>1 DEF SharedIn
      <4>2. /\ Len(f.children[k].counts) = Len(f.buckets) + 1
            /\ ~SharedIn(f, used, f.children[k].labels) =>
                 Shows(f, f.children[k], past[f.children[k].labels])
        BY <1>0, <3>2 DEF ShowsAll
      <4>. QED
        BY <2>3, <2>4, <3>2, <4>1, <4>2 DEF Shows
    <3>. QED
      BY <2>5, <3>1, <3>2
  <2>9. ShowsAll(g, used, past)
    BY <2>4, <2>8 DEF ShowsAll
  <2>10. n + 1 \in 1 .. n + 1 /\ SameKey(g.children[n + 1].labels, labels)
    BY <1>0, <2>2, <2>4 DEF SameKey
  <2>. QED
    BY <1>0, <1>2, <2>3, <2>4, <2>7, <2>9, <2>10 DEF FamilyOK, g
<1>. QED
  BY <1>0, <1>1, <1>2, ChildFound

(* The child that is found becomes `child`, which shows what was told.     *)
(* When it has other labels than those told, its key is now shared.        *)
LEMMA PutKeeps ==
  ASSUME NEW g, NEW used, NEW past, FamilyOK(g, used, past), NEW labels \in LabelSets,
         NEW c \in 1 .. Len(g.children), SameKey(g.children[c].labels, labels),
         NEW child \in ChildRecord, child.labels = g.children[c].labels,
         Len(child.counts) = Len(g.buckets) + 1, NEW amounts \in Seq(Int),
         Shows(g, g.children[c], past[labels]) => Shows(g, child, amounts)
  PROVE  FamilyOK(With(g, c, child), used \cup {labels}, [past EXCEPT ![labels] = amounts])
<1>. DEFINE n == Len(g.children)
            list == [g.children EXCEPT ![c] = child]
            h == With(g, c, child)
            told1 == used \cup {labels}
            past1 == [past EXCEPT ![labels] = amounts]
<1>0. /\ g \in FamilyRecord /\ g.children \in Seq(ChildRecord) /\ n \in Nat
      /\ PastOK(used, past) /\ KeysKept(g, used) /\ ShowsAll(g, used, past)
  BY DEF FamilyOK, FamilyRecord
<1>1. list \in Seq(ChildRecord) /\ Len(list) = n /\ list[c] = child
      /\ \A k \in 1 .. n : k # c => list[k] = g.children[k]
  BY <1>0
<1>2. /\ h \in FamilyRecord /\ h.type = g.type /\ h.buckets = g.buckets /\ h.children = list
  <2>1. h = [g EXCEPT !.children = list]
    BY DEF With
  <2>. HIDE DEF list, h
  <2>. QED
    BY <1>0, <1>1, <2>1 DEF FamilyRecord
<1>. HIDE DEF list, h
<1>3. /\ Len(h.children) = n /\ h.children[c] = child
      /\ \A k \in 1 .. n : h.children[k].labels = g.children[k].labels
      /\ \A k \in 1 .. n : k # c => h.children[k] = g.children[k]
  BY <1>1, <1>2
<1>4. PastOK(told1, past1)
  BY <1>0 DEF PastOK
<1>5. past1[labels] = amounts /\ \A l \in LabelSets : l # labels => past1[l] = past[l]
  BY <1>0 DEF PastOK
<1>. HIDE DEF past1
<1>6. KeysKept(h, told1)
  <2>1. ASSUME NEW l \in told1 PROVE \E k \in 1 .. n : SameKey(h.children[k].labels, l)
    <3>1. CASE l = labels
      BY <1>3, <3>1
    <3>2. CASE l \in used
      BY <1>0, <1>3, <3>2 DEF KeysKept
    <3>. QED
      BY <3>1, <3>2
  <2>2. \A j, k \in 1 .. n : SameKey(h.children[j].labels, h.children[k].labels) => j = k
    BY <1>0, <1>3 DEF KeysKept
  <2>. QED
    BY <1>3, <2>1, <2>2 DEF KeysKept
<1>7. ASSUME NEW k \in 1 .. n
      PROVE  /\ Len(h.children[k].counts) = Len(h.buckets) + 1
             /\ ~SharedIn(h, told1, h.children[k].labels) =>
                  Shows(h, h.children[k], past1[h.children[k].labels])
  <2>. DEFINE l == g.children[k].labels
  <2>1. h.children[k].labels = l /\ l \in LabelSets
    <3>1. g.children[k] \in ChildRecord
      BY <1>0
    <3>2. l \in LabelSets
      BY <3>1 DEF ChildRecord
    <3>. HIDE DEF l
    <3>. QED
      BY <1>3, <3>2 DEF l
  <2>2. SharedIn(g, used, l) => SharedIn(h, told1, l)
    BY <1>3 DEF SharedIn
  <2>3. /\ Len(g.children[k].counts) = Len(g.buckets) + 1
        /\ ~SharedIn(g, used, l) => Shows(g, g.children[k], past[l])
    BY <1>0 DEF ShowsAll
  <2>4. CASE k # c
    <3>1. l # labels
      BY <1>0, <2>4 DEF KeysKept, SameKey
    <3>. HIDE DEF l
    <3>. QED
      BY <1>2, <1>3, <1>5, <2>1, <2>2, <2>3, <2>4, <3>1 DEF Shows
  <2>5. CASE k = c /\ l = labels
    <3>. HIDE DEF l
    <3>1. past1[l] = amounts
      BY <1>5, <2>5
    <3>2. ~SharedIn(h, told1, l) => Shows(g, child, amounts)
      BY <2>2, <2>3, <2>5
    <3>. QED
      BY <1>2, <1>3, <2>1, <2>5, <3>1, <3>2 DEF Shows
  <2>6. CASE k = c /\ l # labels
    <3>1. SharedIn(h, told1, l)
      BY <2>6 DEF SharedIn, SameKey
    <3>. QED
      BY <1>2, <1>3, <2>1, <2>6, <3>1
  <2>. QED
    BY <2>4, <2>5, <2>6
<1>8. ShowsAll(h, told1, past1)
  BY <1>3, <1>7 DEF ShowsAll
<1>. QED
  BY <1>2, <1>4, <1>6, <1>8 DEF FamilyOK, h, list, past1

------------------------------------------------------------------------------
(* The registry: every name has one family, but for those of histograms    *)
(* with invalid buckets.                                                   *)
PastOf(i) == [l \in LabelSets |-> Past(i, l)]

NamesOK ==
  /\ \A i, j \in 1 .. Len(families) : families[i].name = families[j].name => i = j
  /\ {families[i].name : i \in 1 .. Len(families)} = names \ rejected
  /\ rejected \subseteq names
MetricsInv ==
  /\ families \in Seq(FamilyRecord) /\ NamesOK
  /\ DOMAIN told \subseteq (1 .. Len(families)) \X LabelSets
  /\ \A i \in 1 .. Len(families) : FamilyOK(families[i], Used(i), PastOf(i))

LEMMA MetricsStart ==
  MetricsInit => MetricsInv
<1>. SUFFICES ASSUME MetricsInit PROVE MetricsInv
  OBVIOUS
<1>1. families = << >> /\ Len(families) = 0 /\ families \in Seq(FamilyRecord)
  BY DEF MetricsInit
<1>2. DOMAIN told = {}
  BY DEF MetricsInit
<1>3. NamesOK
  BY <1>1 DEF MetricsInit, NamesOK
<1>. QED
  BY <1>1, <1>2, <1>3 DEF MetricsInv

(* A family whose record is replaced by one that differs in its root, or   *)
(* in its children.                                                        *)
LEMMA OneFamily ==
  ASSUME MetricsInv, NEW i \in 1 .. Len(families), NEW f,
         families' = [families EXCEPT ![i] = f], f.name = families[i].name,
         UNCHANGED <<names, rejected>>,
         FamilyOK(f, Used(i)', PastOf(i)'),
         DOMAIN told' \subseteq (1 .. Len(families)) \X LabelSets,
         \A j \in 1 .. Len(families) : j # i => Used(j)' = Used(j) /\ PastOf(j)' = PastOf(j)
  PROVE  MetricsInv'
<1>0. families \in Seq(FamilyRecord) /\ NamesOK /\ f \in FamilyRecord
  BY DEF MetricsInv, FamilyOK
<1>1. /\ families' \in Seq(FamilyRecord) /\ Len(families') = Len(families)
      /\ families'[i] = f /\ \A j \in 1 .. Len(families) : j # i => families'[j] = families[j]
  BY <1>0
<1>2. \A j \in 1 .. Len(families) : families'[j].name = families[j].name
  BY <1>1
<1>3. NamesOK'
  BY <1>0, <1>1, <1>2 DEF NamesOK
<1>4. ASSUME NEW j \in 1 .. Len(families) PROVE FamilyOK(families'[j], Used(j)', PastOf(j)')
  <2>1. CASE j = i
    BY <1>1, <2>1
  <2>2. CASE j # i
    <3>1. FamilyOK(families[j], Used(j), PastOf(j))
      BY DEF MetricsInv
    <3>. QED
      BY <1>1, <2>2, <3>1
  <2>. QED
    BY <2>1, <2>2
<1>. QED
  BY <1>1, <1>3, <1>4 DEF MetricsInv

(* Nothing more is told.                                                   *)
LEMMA ToldStays ==
  ASSUME UNCHANGED told
  PROVE  \A j : Used(j)' = Used(j) /\ PastOf(j)' = PastOf(j)
BY DEF Used, PastOf, Past

LEMMA ToldGrows ==
  ASSUME MetricsInv, NEW i \in 1 .. Len(families), NEW labels \in LabelSets, NEW amounts,
         Tell(i, labels, amounts)
  PROVE  /\ DOMAIN told' \subseteq (1 .. Len(families)) \X LabelSets
         /\ Used(i)' = Used(i) \cup {labels}
         /\ PastOf(i)' = [PastOf(i) EXCEPT ![labels] = amounts]
         /\ \A j \in 1 .. Len(families) : j # i => Used(j)' = Used(j) /\ PastOf(j)' = PastOf(j)
<1>1. /\ DOMAIN told' = DOMAIN told \cup {<<i, labels>>}
      /\ told'[<<i, labels>>] = amounts
      /\ \A x \in DOMAIN told : x # <<i, labels>> => told'[x] = told[x]
  BY DEF Tell
<1>2. DOMAIN told' \subseteq (1 .. Len(families)) \X LabelSets
  BY <1>1 DEF MetricsInv
<1>3. Used(i)' = Used(i) \cup {labels}
  BY <1>1 DEF Used
<1>4. ASSUME NEW j, NEW l, <<j, l>> # <<i, labels>> PROVE Past(j, l)' = Past(j, l)
  BY <1>1, <1>4 DEF Past
<1>5. Past(i, labels)' = amounts
  BY <1>1 DEF Past
<1>6. PastOf(i)' = [PastOf(i) EXCEPT ![labels] = amounts]
  <2>1. ASSUME NEW l \in LabelSets
        PROVE  Past(i, l)' = IF l = labels THEN amounts ELSE Past(i, l)
    BY <1>4, <1>5
  <2>. QED
    BY <2>1 DEF PastOf
<1>7. ASSUME NEW j \in 1 .. Len(families), j # i
      PROVE  Used(j)' = Used(j) /\ PastOf(j)' = PastOf(j)
  <2>1. Used(j)' = Used(j)
    BY <1>1, <1>7 DEF Used
  <2>2. \A l : Past(j, l)' = Past(j, l)
    BY <1>4, <1>7
  <2>. QED
    BY <2>1, <2>2 DEF PastOf
<1>. QED
  BY <1>2, <1>3, <1>6, <1>7

LEMMA CreateInv ==
  ASSUME MetricsInv, MetricsAssumption, NEW name \in Name, NEW type \in MetricType,
         NEW buckets \in Seq(Int), Create(name, type, buckets)
  PROVE  MetricsInv'
<1>. DEFINE n == Len(families)
            f == Family(name, type, buckets)
<1>0. /\ families \in Seq(FamilyRecord) /\ n \in Nat /\ NamesOK /\ UNCHANGED told
      /\ name \notin names /\ names' = names \cup {name}
      /\ DOMAIN told \subseteq (1 .. n) \X LabelSets
  BY DEF MetricsInv, Create
<1>1. \A j : Used(j)' = Used(j) /\ PastOf(j)' = PastOf(j)
  BY <1>0, ToldStays
<1>2. CASE rejected' = rejected \cup {name} /\ UNCHANGED families
  <2>1. NamesOK'
    BY <1>0, <1>2 DEF NamesOK
  <2>. QED
    BY <1>0, <1>1, <1>2, <2>1 DEF MetricsInv
<1>3. CASE families' = Append(families, f) /\ UNCHANGED rejected
  <2>1. /\ f \in FamilyRecord /\ f.name = name /\ f.children = << >>
    BY DEF Family, FamilyRecord
  <2>. HIDE DEF f
  <2>2. /\ families' \in Seq(FamilyRecord) /\ Len(families') = n + 1 /\ families'[n + 1] = f
        /\ \A j \in 1 .. n : families'[j] = families[j]
    BY <1>0, <1>3, <2>1
  <2>. HIDE DEF n
  <2>3. \A j \in 1 .. n + 1 : j \in 1 .. n \/ j = n + 1
    BY <1>0
  <2>4. \A j \in 1 .. n : j \in 1 .. n + 1 /\ j # n + 1
    BY <1>0
  <2>5. n + 1 \in 1 .. n + 1 /\ n + 1 \notin 1 .. n
    BY <1>0
  <2>6. {families'[j].name : j \in 1 .. n + 1} = {families[j].name : j \in 1 .. n} \cup {name}
    BY <2>1, <2>2, <2>3, <2>4, <2>5
  <2>7. {families[j].name : j \in 1 .. n} = names \ rejected /\ rejected \subseteq names
    BY <1>0 DEF NamesOK, n
  <2>8. NamesOK'
    <3>1. ASSUME NEW j \in 1 .. n + 1, NEW k \in 1 .. n + 1, families'[j].name = families'[k].name
          PROVE  j = k
      <4>1. \A m \in 1 .. n : families'[m].name \in names /\ families'[m] = families[m]
        BY <2>2, <2>7
      <4>2. families'[n + 1].name \notin names
        BY <1>0, <2>1, <2>2
      <4>. QED
        BY <1>0, <2>3, <3>1, <4>1, <4>2 DEF NamesOK, n
    <3>2. {families'[j].name : j \in 1 .. n + 1} = names' \ rejected'
      BY <1>0, <1>3, <2>6, <2>7
    <3>. QED
      BY <1>0, <1>3, <2>2, <2>7, <3>1, <3>2 DEF NamesOK
  <2>9. FamilyOK(f, Used(n + 1), PastOf(n + 1))
    <3>1. Used(n + 1) = {}
      BY <1>0, <2>5 DEF Used
    <3>2. \A l \in LabelSets : Past(n + 1, l) = << >>
      BY <1>0, <2>5 DEF Past
    <3>3. PastOK({}, PastOf(n + 1))
      <4>1. << >> \in Seq(Int)
        OBVIOUS
      <4>. QED
        BY <3>2, <4>1 DEF PastOK, PastOf
    <3>4. \A k \in 1 .. Len(f.children) : FALSE
      BY <2>1
    <3>. QED
      BY <2>1, <3>1, <3>3, <3>4 DEF FamilyOK, KeysKept, ShowsAll
  <2>10. \A j \in 1 .. n : FamilyOK(families[j], Used(j), PastOf(j))
    BY DEF MetricsInv, n
  <2>11. \A j \in 1 .. n + 1 : FamilyOK(families'[j], Used(j)', PastOf(j)')
    BY <1>1, <2>2, <2>3, <2>9, <2>10
  <2>12. DOMAIN told' \subseteq (1 .. n + 1) \X LabelSets
    BY <1>0, <2>4
  <2>. QED
    BY <2>2, <2>8, <2>11, <2>12 DEF MetricsInv
<1>. QED
  BY <1>2, <1>3 DEF Create

(* What Put makes of a family.                                             *)
LEMMA PutFamily ==
  ASSUME MetricsInv, NEW i \in 1 .. Len(families), NEW labels \in LabelSets, NEW child,
         Put(i, labels, child)
  PROVE  LET f == families[i]
             g == Looked(f, labels)
             h == With(g, Child(f, labels), child)
         IN  /\ families' = [families EXCEPT ![i] = h] /\ h.name = f.name
             /\ FamilyOK(f, Used(i), PastOf(i)) /\ FamilyOK(g, Used(i), PastOf(i))
             /\ Child(f, labels) \in 1 .. Len(g.children)
             /\ SameKey(g.children[Child(f, labels)].labels, labels)
             /\ Current(i, labels) = g.children[Child(f, labels)]
<1>. DEFINE f == families[i]
            g == Looked(f, labels)
            list == [Children(f, labels) EXCEPT ![Child(f, labels)] = child]
            h == With(g, Child(f, labels), child)
<1>1. families \in Seq(FamilyRecord) /\ FamilyOK(f, Used(i), PastOf(i)) /\ f \in FamilyRecord
  BY DEF MetricsInv
<1>2. FamilyOK(g, Used(i), PastOf(i)) /\ Child(f, labels) \in 1 .. Len(g.children)
      /\ SameKey(g.children[Child(f, labels)].labels, labels)
  BY <1>1, LabelsKeeps
<1>3. g.children = Children(f, labels) /\ g.name = f.name
  BY <1>1 DEF FamilyRecord, Looked
<1>4. h = [g EXCEPT !.children = list] /\ h.name = f.name
  <2>. HIDE DEF g, f
  <2>1. h = [g EXCEPT !.children = list] /\ h.name = g.name
    BY <1>2, <1>3 DEF With, FamilyOK, FamilyRecord
  <2>. QED
    BY <1>3, <2>1
<1>5. [g EXCEPT !.children = list] = [f EXCEPT !.children = list]
  <2>. HIDE DEF list
  <2>. QED
    BY <1>1 DEF FamilyRecord, Looked
<1>6. families' = [families EXCEPT ![i] = [f EXCEPT !.children = list]]
  BY <1>1 DEF Put
<1>. QED
  BY <1>1, <1>2, <1>3, <1>4, <1>5, <1>6 DEF Current

LEMMA ChangeInv ==
  ASSUME MetricsInv, MetricsAssumption, NEW i \in 1 .. Len(families), NEW labels \in LabelSets,
         NEW amount \in Amounts, Change(i, labels, amount)
  PROVE  MetricsInv'
<1>. DEFINE f == families[i]
            c == Child(f, labels)
            g == Looked(f, labels)
            old == Current(i, labels)
<1>0. amount \in Int
  BY DEF MetricsAssumption
<1>1. PICK child : /\ Put(i, labels, child) /\ UNCHANGED <<names, rejected>>
                   /\ \/ /\ child = Changed(f, old, amount)
                         /\ Tell(i, labels, Append(Past(i, labels), amount))
                      \/ child = old /\ UNCHANGED told
  BY DEF Change
<1>. DEFINE h == With(g, c, child)
<1>2. /\ families' = [families EXCEPT ![i] = h] /\ h.name = f.name
      /\ FamilyOK(f, Used(i), PastOf(i)) /\ FamilyOK(g, Used(i), PastOf(i))
      /\ c \in 1 .. Len(g.children) /\ SameKey(g.children[c].labels, labels)
      /\ old = g.children[c]
  BY <1>1, PutFamily
<1>3. g.type = f.type /\ g.buckets = f.buckets /\ f \in FamilyRecord /\ g \in FamilyRecord
  BY <1>2 DEF FamilyOK, FamilyRecord, Looked
<1>4. CASE child = old /\ UNCHANGED told
  <2>1. h = g
    <3>1. g.children \in Seq(ChildRecord)
      BY <1>3 DEF FamilyRecord
    <3>2. [g.children EXCEPT ![c] = child] = g.children
      BY <1>2, <1>4, <3>1
    <3>. HIDE DEF g
    <3>. QED
      BY <1>3, <3>2 DEF FamilyRecord, With
  <2>2. \A j : Used(j)' = Used(j) /\ PastOf(j)' = PastOf(j)
    BY <1>4, ToldStays
  <2>3. DOMAIN told' \subseteq (1 .. Len(families)) \X LabelSets
    BY <1>4 DEF MetricsInv
  <2>. HIDE DEF h, g, f
  <2>. QED
    BY <1>1, <1>2, <2>1, <2>2, <2>3, OneFamily DEF f
<1>5. CASE child = Changed(f, old, amount) /\ Tell(i, labels, Append(Past(i, labels), amount))
  <2>. DEFINE past == PastOf(i)
              amounts == Append(past[labels], amount)
  <2>1. past[labels] \in Seq(Int) /\ past[labels] = Past(i, labels)
    BY <1>2 DEF FamilyOK, PastOK, PastOf
  <2>2. amounts \in Seq(Int)
    BY <1>0, <2>1
  <2>3. old \in ChildRecord /\ Len(old.counts) = Len(f.buckets) + 1
    <3>1. g.children \in Seq(ChildRecord)
      BY <1>3 DEF FamilyRecord
    <3>. HIDE DEF g, old, f, c
    <3>. QED
      BY <1>2, <1>3, <3>1 DEF FamilyOK, ShowsAll
  <2>4. /\ child \in ChildRecord /\ child.labels = old.labels
        /\ Len(child.counts) = Len(f.buckets) + 1
        /\ Shows(f, old, past[labels]) => Shows(f, child, amounts)
    <3>. HIDE DEF old, f, past
    <3>. QED
      BY <1>0, <1>3, <1>5, <2>1, <2>3, ChangedShows
  <2>5. Shows(g, g.children[c], past[labels]) => Shows(g, child, amounts)
    <3>. HIDE DEF g, old, f, past, amounts, c
    <3>. QED
      BY <1>2, <1>3, <2>4 DEF Shows
  <2>6. FamilyOK(h, Used(i) \cup {labels}, [past EXCEPT ![labels] = amounts])
    <3>. HIDE DEF g, old, f, past, amounts, c
    <3>. QED
      BY <1>2, <1>3, <2>2, <2>4, <2>5, PutKeeps DEF past
  <2>7. /\ DOMAIN told' \subseteq (1 .. Len(families)) \X LabelSets
        /\ Used(i)' = Used(i) \cup {labels} /\ PastOf(i)' = [past EXCEPT ![labels] = amounts]
        /\ \A j \in 1 .. Len(families) : j # i => Used(j)' = Used(j) /\ PastOf(j)' = PastOf(j)
    BY <1>5, <2>1, ToldGrows
  <2>8. FamilyOK(h, Used(i)', PastOf(i)')
    BY <2>6, <2>7
  <2>. HIDE DEF h, f
  <2>. QED
    BY <1>1, <1>2, <2>7, <2>8, OneFamily DEF f
<1>. QED
  BY <1>1, <1>4, <1>5

LEMMA SetInv ==
  ASSUME MetricsInv, MetricsAssumption, NEW i \in 1 .. Len(families), NEW labels \in LabelSets,
         NEW amount \in Amounts, Set(i, labels, amount)
  PROVE  MetricsInv'
<1>. DEFINE f == families[i]
            c == Child(f, labels)
            g == Looked(f, labels)
            old == Current(i, labels)
            child == [old EXCEPT !.value = amount]
            h == With(g, c, child)
            past == PastOf(i)
            amounts == <<amount>>
<1>0. amount \in Int /\ amounts \in Seq(Int)
  BY DEF MetricsAssumption
<1>1. /\ Put(i, labels, child) /\ UNCHANGED <<names, rejected>>
      /\ Tell(i, labels, amounts) /\ f.type = "gauge"
  BY DEF Set
<1>2. /\ families' = [families EXCEPT ![i] = h] /\ h.name = f.name
      /\ FamilyOK(f, Used(i), PastOf(i)) /\ FamilyOK(g, Used(i), PastOf(i))
      /\ c \in 1 .. Len(g.children) /\ SameKey(g.children[c].labels, labels)
      /\ old = g.children[c]
  <2>. HIDE DEF child
  <2>. QED
    BY <1>1, PutFamily
<1>3. g.type = f.type /\ g.buckets = f.buckets /\ f \in FamilyRecord /\ g \in FamilyRecord
  BY <1>2 DEF FamilyOK, FamilyRecord, Looked
<1>4. old \in ChildRecord /\ Len(old.counts) = Len(g.buckets) + 1
  <2>1. g.children \in Seq(ChildRecord)
    BY <1>3 DEF FamilyRecord
  <2>. HIDE DEF g, old, f, c
  <2>. QED
    BY <1>2, <1>3, <2>1 DEF FamilyOK, ShowsAll
<1>5. /\ child \in ChildRecord /\ child.labels = old.labels /\ child.value = amount
      /\ Len(child.counts) = Len(g.buckets) + 1
  <2>. HIDE DEF old, g
  <2>. QED
    BY <1>0, <1>4 DEF ChildRecord
<1>6. Shows(g, child, amounts)
  <2>. HIDE DEF child, g
  <2>. QED
    BY <1>0, <1>1, <1>3, <1>5, TotalOfOne DEF Shows
<1>7. FamilyOK(h, Used(i) \cup {labels}, [past EXCEPT ![labels] = amounts])
  <2>. HIDE DEF g, old, f, amounts, c, child
  <2>. QED
    BY <1>0, <1>2, <1>5, <1>6, PutKeeps
<1>8. /\ DOMAIN told' \subseteq (1 .. Len(families)) \X LabelSets
      /\ Used(i)' = Used(i) \cup {labels} /\ PastOf(i)' = [past EXCEPT ![labels] = amounts]
      /\ \A j \in 1 .. Len(families) : j # i => Used(j)' = Used(j) /\ PastOf(j)' = PastOf(j)
  <2>. HIDE DEF amounts
  <2>. QED
    BY <1>1, ToldGrows
<1>9. FamilyOK(h, Used(i)', PastOf(i)')
  BY <1>7, <1>8
<1>. HIDE DEF h, f
<1>. QED
  BY <1>1, <1>2, <1>8, <1>9, OneFamily DEF f

(* The root is no child.                                                   *)
LEMMA RootInv ==
  ASSUME MetricsInv, NEW i \in 1 .. Len(families), NEW amount \in Int,
         families' = [families EXCEPT ![i].root = amount], UNCHANGED <<names, rejected, told>>
  PROVE  MetricsInv'
<1>. DEFINE f == families[i]
            h == [f EXCEPT !.root = amount]
<1>1. families \in Seq(FamilyRecord) /\ FamilyOK(f, Used(i), PastOf(i)) /\ f \in FamilyRecord
  BY DEF MetricsInv, FamilyOK
<1>2. families' = [families EXCEPT ![i] = h]
  BY <1>1
<1>3. /\ h \in FamilyRecord /\ h.children = f.children /\ h.type = f.type
      /\ h.buckets = f.buckets /\ h.name = f.name
  BY <1>1 DEF FamilyRecord
<1>. HIDE DEF h
<1>4. FamilyOK(h, Used(i), PastOf(i))
  <2>. HIDE DEF f
  <2>1. \A l : SharedIn(h, Used(i), l) <=> SharedIn(f, Used(i), l)
    BY <1>3 DEF SharedIn
  <2>. QED
    BY <1>1, <1>3, <2>1 DEF FamilyOK, KeysKept, ShowsAll, Shows
<1>5. \A j : Used(j)' = Used(j) /\ PastOf(j)' = PastOf(j)
  BY ToldStays
<1>6. DOMAIN told' \subseteq (1 .. Len(families)) \X LabelSets
  BY DEF MetricsInv
<1>7. FamilyOK(h, Used(i)', PastOf(i)')
  BY <1>4, <1>5
<1>. QED
  BY <1>2, <1>3, <1>5, <1>6, <1>7, OneFamily

LEMMA MetricsNextInv ==
  ASSUME MetricsInv, MetricsAssumption, [MetricsNext]_metricVars
  PROVE  MetricsInv'
<1>1. CASE UNCHANGED metricVars
  <2>1. UNCHANGED <<names, rejected, families, told>>
    BY <1>1 DEF metricVars
  <2>2. \A j : Used(j)' = Used(j) /\ PastOf(j)' = PastOf(j)
    BY <2>1, ToldStays
  <2>. QED
    BY <2>1, <2>2 DEF MetricsInv, NamesOK
<1>2. ASSUME NEW name \in Name, NEW type \in {"counter", "gauge"}, Create(name, type, << >>)
      PROVE  MetricsInv'
  <2>1. << >> \in Seq(Int) /\ type \in MetricType
    BY DEF MetricType
  <2>. QED
    BY <1>2, <2>1, CreateInv
<1>3. ASSUME NEW name \in Name, NEW b \in Buckets, Create(name, "histogram", b)
      PROVE  MetricsInv'
  <2>1. b \in Seq(Int) /\ "histogram" \in MetricType
    BY DEF MetricType, MetricsAssumption
  <2>. QED
    BY <1>3, <2>1, CreateInv
<1>4. ASSUME NEW i \in 1 .. Len(families), NEW amount \in Amounts, ChangeRoot(i, amount)
      PROVE  MetricsInv'
  <2>. DEFINE r == families[i].root + amount
  <2>1. families[i] \in FamilyRecord /\ families \in Seq(FamilyRecord)
    BY DEF MetricsInv
  <2>2. r \in Int
    <3>1. families[i].root \in Int
      BY <2>1 DEF FamilyRecord
    <3>2. amount \in Int
      BY DEF MetricsAssumption
    <3>. QED
      BY <3>1, <3>2
  <2>3. families' = [families EXCEPT ![i].root = r]
    BY <1>4, <2>1 DEF ChangeRoot
  <2>. HIDE DEF r
  <2>. QED
    BY <1>4, <2>2, <2>3, RootInv DEF ChangeRoot
<1>5. ASSUME NEW i \in 1 .. Len(families), NEW amount \in Amounts, SetRoot(i, amount)
      PROVE  MetricsInv'
  BY <1>5, RootInv DEF SetRoot, MetricsAssumption
<1>6. CASE MetricsNext
  BY <1>2, <1>3, <1>4, <1>5, <1>6, ChangeInv, SetInv DEF MetricsNext
<1>. QED
  BY <1>1, <1>6

LEMMA MetricsInvImplies ==
  MetricsInv => ExpositionIsExact
<1>. SUFFICES ASSUME MetricsInv PROVE ExpositionIsExact
  OBVIOUS
<1>1. ASSUME NEW i \in 1 .. Len(families), NEW labels \in Used(i), ~Shared(i, labels)
      PROVE  \E s \in {Samples(families[i])[k] : k \in 1 .. Len(Samples(families[i]))} :
               /\ s.labels = labels
               /\ IF families[i].type # "histogram" THEN s.value = Total(told[<<i, labels>>])
                  ELSE /\ s.value = Len(told[<<i, labels>>])
                       /\ \A k \in 1 .. Len(families[i].buckets) :
                            s.counts[k] = AtMost(families[i].buckets[k], told[<<i, labels>>])
                       /\ s.counts[Len(families[i].buckets) + 1] = s.value
  <2>. DEFINE f == families[i]
  <2>1. /\ f \in FamilyRecord /\ PastOK(Used(i), PastOf(i)) /\ KeysKept(f, Used(i))
        /\ ShowsAll(f, Used(i), PastOf(i))
    BY DEF MetricsInv, FamilyOK
  <2>2. PICK k \in 1 .. Len(f.children) : SameKey(f.children[k].labels, labels)
    BY <2>1 DEF KeysKept
  <2>3. ~SharedIn(f, Used(i), labels)
    BY <1>1 DEF Shared, SharedIn, SameKey
  <2>4. f.children[k].labels = labels
    BY <2>2, <2>3 DEF SharedIn
  <2>5. Past(i, labels) = told[<<i, labels>>] /\ PastOf(i)[labels] = Past(i, labels)
    <3>1. DOMAIN told \subseteq (1 .. Len(families)) \X LabelSets
      BY DEF MetricsInv
    <3>2. <<i, labels>> \in DOMAIN told /\ labels \in LabelSets
      BY <3>1 DEF Used
    <3>. QED
      BY <3>2 DEF Past, PastOf
  <2>6. Shows(f, f.children[k], told[<<i, labels>>])
    BY <2>1, <2>3, <2>4, <2>5 DEF ShowsAll
  <2>7. Samples(f) = f.children
    BY <2>1, <2>2 DEF Samples, FamilyRecord
  <2>. QED
    BY <2>2, <2>4, <2>6, <2>7 DEF Shows
<1>2. NamesOK
  BY DEF MetricsInv
<1>. QED
  BY <1>1, <1>2 DEF ExpositionIsExact, NamesOK

(* For any names, label sets, boundaries and amounts, what serialize()     *)
(* exposes of labels whose key is their own is exactly what the            *)
(* application did with them, and no name that was taken is lost but to    *)
(* invalid buckets.                                                        *)
THEOREM ExpositionStaysExact ==
  MetricsSpec => []ExpositionIsExact
<1>1. MetricsInit => MetricsInv
  BY MetricsStart
<1>2. MetricsInv /\ [MetricsNext]_metricVars => MetricsInv'
  BY MetricsNextInv, MetricsAssumption
<1>. QED
  BY <1>1, <1>2, MetricsInvImplies, PTL DEF MetricsSpec
==============================================================================
