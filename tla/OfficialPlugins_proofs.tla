------------------------ MODULE OfficialPlugins_proofs -------------------------
(***************************************************************************)
(* For any number of user plugins that require one another and no official *)
(* plugin: the snapshots of the official plugins are complete.             *)
(*                                                                         *)
(* Official plugins require nothing and come last in the list, so the      *)
(* search reaches each from its outer loop only (Alone), when every plugin *)
(* before it in the list is placed (InPlace).  The set up follows that     *)
(* order, so what an official plugin takes from the host is whole.         *)
(***************************************************************************)
EXTENDS OfficialPlugins, PluginOrder_proofs, FiniteSetTheorems

(* The manifests of user plugins name user plugins, or plugins that are    *)
(* not installed.                                                          *)
RequiresUsersOnly(s) ==
  \A k \in 1 .. Len(s) : s[k].type = "plugin" => s[k].id \in 0 .. Users
UsersRequireUsers == \A s \in UserRequires : RequiresUsersOnly(s)

Manifests ==
  /\ \A p \in User : RequiresUsersOnly(requires[p])
  /\ \A p \in Official : requires[p] = << >>

(* No official plugin is visited, or nothing but one the outer loop has    *)
(* just reached.                                                           *)
Alone ==
  \/ \A k \in 1 .. Len(stack) : stack[k].plugin \in User
  \/ Len(stack) = 1 /\ stack[1].plugin = root - 1

InPlace ==
  \A i \in 1 .. Len(ordered) : ordered[i] \in Official =>
    \A q \in 1 .. ordered[i] - 1 : \E j \in 1 .. i - 1 : ordered[j] = q

OfficialLast == OrderInv /\ Manifests /\ Alone /\ InPlace

SnapshotsOK ==
  /\ done \in 0 .. N
  /\ done # 0 \/ failedAt # 0 => Ordered
  /\ documents \subseteq User
  /\ \A i \in 1 .. done : ordered[i] \in User => ordered[i] \in mounted
  /\ \A i \in 1 .. done : ordered[i] = Metrics => User \subseteq labelled
  /\ \A i \in 1 .. done : ordered[i] = OpenApi => exposed = TRUE /\ spec = documents \ hidden
  /\ failedAt # Docs

OfficialInv == OfficialLast /\ SnapshotsOK

LEMMA Kinds ==
  ASSUME OfficialAssumption
  PROVE  /\ N \in Nat /\ Plugin = User \cup Official
         /\ \A p \in User : p \notin Official /\ p \in 1 .. Users
         /\ \A p \in Official : p \in Users + 1 .. Users + 5
         /\ {Health, GraphqlRuntime, Metrics, OpenApi, Docs} \subseteq Official
         /\ Metrics \notin User /\ OpenApi \notin User /\ Docs \notin User
         /\ Metrics # OpenApi /\ OpenApi < Docs
BY DEF OfficialAssumption, Plugin, User, Official, Health, GraphqlRuntime, Metrics, OpenApi, Docs

------------------------------------------------------------------------------
(* The search.                                                             *)
LEMMA OfficialStart ==
  ASSUME OrderAssumption, OfficialAssumption, UsersRequireUsers, OfficialInit
  PROVE  OfficialInv
<1>1. PICK wanted \in [User -> UserRequires] :
        requires = [p \in Plugin |-> IF p \in User THEN wanted[p] ELSE << >>]
  BY DEF OfficialInit
<1>2. \A p \in User : requires[p] = wanted[p] /\ wanted[p] \in UserRequires
  BY <1>1, Kinds
<1>3. \A p \in Official : requires[p] = << >>
  BY <1>1, Kinds
<1>4. requires \in [Plugin -> Seq(Requirement)]
  <2>1. UserRequires \subseteq Seq(Requirement)
    BY DEF OrderAssumption, OfficialAssumption
  <2>2. << >> \in Seq(Requirement)
    BY EmptySeq
  <2>3. \A p \in Plugin : requires[p] \in Seq(Requirement)
    BY <1>2, <1>3, <2>1, <2>2, Kinds
  <2>. QED
    BY <1>1, <2>3
<1>5. OrderInv
  BY <1>4, OrderStartInv DEF OfficialInit
<1>6. Len(stack) = 0 /\ Len(ordered) = 0
  BY EmptySeq DEF OfficialInit, OrderStart
<1>7. Manifests
  BY <1>2, <1>3 DEF Manifests, UsersRequireUsers
<1>8. Alone /\ InPlace
  BY <1>6 DEF Alone, InPlace
<1>9. SnapshotsOK
  BY Kinds DEF SnapshotsOK, OfficialInit, Docs, OfficialAssumption
<1>. QED
  BY <1>5, <1>7, <1>8, <1>9 DEF OfficialInv, OfficialLast

(* An official plugin has nothing to loop over.                            *)
LEMMA LoopsOverUsers ==
  ASSUME OfficialAssumption, OfficialLast, InLoop
  PROVE  /\ Top.plugin \in User
         /\ CurrentRequirement.type = "plugin" => CurrentRequirement.id \in 0 .. Users
         /\ \A k \in 1 .. Len(stack) : stack[k].plugin \in User
<1>1. OrderTypeOK /\ stack # << >>
  BY DEF OfficialLast, OrderInv, InLoop
<1>2. Top.next \in 1 .. Len(TopRequires) /\ Top.plugin \in Plugin
  BY <1>1, CurrentRequirementType, TopFrame
<1>3. Top.plugin \in User
  <2>1. Top.plugin \notin Official
    <3>1. Len(<< >>) = 0
      OBVIOUS
    <3>2. Top.plugin \in Official => TopRequires = << >>
      BY DEF OfficialLast, Manifests, TopRequires
    <3>. QED
      BY <1>2, <3>1, <3>2
  <2>. QED
    BY <1>2, <2>1, Kinds
<1>4. CurrentRequirement.type = "plugin" => CurrentRequirement.id \in 0 .. Users
  <2>1. RequiresUsersOnly(TopRequires)
    BY <1>3 DEF OfficialLast, Manifests, TopRequires
  <2>. QED
    BY <1>2, <2>1 DEF RequiresUsersOnly, CurrentRequirement
<1>5. ASSUME Len(stack) = 1 PROVE \A k \in 1 .. Len(stack) : stack[k].plugin \in User
  BY <1>3, <1>5 DEF Top
<1>6. \A k \in 1 .. Len(stack) : stack[k].plugin \in User
  BY <1>5 DEF OfficialLast, Alone
<1>. QED
  BY <1>3, <1>4, <1>6

LEMMA SearchKeepsOrder ==
  ASSUME OrderAssumption, OfficialAssumption, OfficialLast, OrderNext
  PROVE  OfficialLast'
<1>1. OrderInv /\ OrderInv' /\ OrderTypeOK
  BY OrderNextInv DEF OfficialLast, OrderInv
<1>2. UNCHANGED requires
  BY DEF OrderNext, VisitRoot, SkipRequirement, VisitDependency, DependencyMissing, DependencyCycle,
         PlacePlugin
<1>3. Manifests'
  BY <1>2 DEF OfficialLast, Manifests
<1>4. CASE VisitRoot
  <2>1. /\ ordered' = ordered /\ root' = root + 1 /\ stack = << >> /\ root \in Plugin
        /\ \/ stack' = stack
           \/ stack' = Append(stack, [plugin |-> root, next |-> 1])
    BY <1>1, <1>4, Kinds DEF VisitRoot, Call, OrderTypeOK, Plugin
  <2>2. InPlace'
    BY <2>1 DEF OfficialLast, InPlace
  <2>3. Len(stack) = 0 /\ stack \in Seq(Frame)
    BY <1>1, <2>1, EmptySeq DEF OrderTypeOK
  <2>4. ASSUME stack' = stack PROVE Alone'
    <3>1. Len(stack') = 0
      BY <2>3, <2>4
    <3>2. \A k \in 1 .. Len(stack') : stack'[k].plugin \in User
      BY <3>1
    <3>. QED
      BY <3>2 DEF Alone
  <2>5. ASSUME stack' = Append(stack, [plugin |-> root, next |-> 1]) PROVE Alone'
    <3>1. Len(stack') = 1 /\ stack'[1].plugin = root
      BY <2>1, <2>3, <2>5, PushEffect
    <3>2. root' - 1 = root
      BY <2>1, Kinds DEF Plugin
    <3>3. Len(stack') = 1 /\ stack'[1].plugin = root' - 1
      BY <3>1, <3>2
    <3>. QED
      BY <3>3 DEF Alone
  <2>6. Alone'
    BY <2>1, <2>4, <2>5
  <2>. QED
    BY <1>1, <1>3, <2>2, <2>6 DEF OfficialLast
<1>5. CASE SkipRequirement
  <2>1. InLoop /\ stack # << >> /\ stack' = Advanced /\ ordered' = ordered
    BY <1>5 DEF SkipRequirement, InLoop
  <2>2. Alone'
    BY <1>1, <2>1, LoopsOverUsers, AdvanceEffect DEF Alone
  <2>3. InPlace'
    BY <2>1 DEF OfficialLast, InPlace
  <2>. QED
    BY <1>1, <1>3, <2>2, <2>3 DEF OfficialLast
<1>6. CASE VisitDependency
  <2>. DEFINE p == CurrentRequirement.id
              n == Len(stack)
  <2>1. /\ InLoop /\ stack # << >> /\ ordered' = ordered
        /\ stack' = Append(Advanced, [plugin |-> p, next |-> 1])
        /\ CurrentRequirement.type = "plugin" /\ p # 0
    BY <1>6 DEF VisitDependency, InLoop, Call
  <2>2. p \in User /\ p \in Plugin
    BY <2>1, LoopsOverUsers, Kinds DEF OfficialAssumption, User
  <2>3. /\ Advanced \in Seq(Frame) /\ Len(Advanced) = n /\ n \in Nat
        /\ \A k \in 1 .. n : Advanced[k].plugin \in User
    BY <1>1, <2>1, LoopsOverUsers, AdvanceEffect, FrameFields
  <2>. HIDE DEF p, n
  <2>4. /\ Len(stack') = n + 1
        /\ \A k \in 1 .. n : stack'[k] = Advanced[k]
        /\ stack'[n + 1].plugin = p
    BY <2>1, <2>2, <2>3, PushEffect
  <2>5. \A k \in 1 .. Len(stack') : stack'[k].plugin \in User
    BY <2>2, <2>3, <2>4
  <2>6. InPlace'
    BY <2>1 DEF OfficialLast, InPlace
  <2>. QED
    BY <1>1, <1>3, <2>5, <2>6 DEF OfficialLast, Alone
<1>7. CASE DependencyMissing \/ DependencyCycle
  <2>1. UNCHANGED <<root, stack, ordered>>
    BY <1>7 DEF DependencyMissing, DependencyCycle
  <2>. QED
    BY <1>1, <1>3, <2>1 DEF OfficialLast, Alone, InPlace
<1>8. CASE PlacePlugin
  <2>. DEFINE p == Top.plugin
              m == Len(ordered)
              n == Len(stack)
  <2>1. /\ stack # << >> /\ root' = root /\ ordered' = Append(ordered, p)
        /\ stack' = SubSeq(stack, 1, n - 1)
    BY <1>8 DEF PlacePlugin
  <2>2. /\ p \in Plugin /\ n \in Nat \ {0} /\ p = stack[n].plugin
        /\ Len(stack') = n - 1 /\ \A k \in 1 .. n - 1 : stack'[k] = stack[k]
    BY <1>1, <2>1, TopFrame, PopEffect DEF Top
  <2>3. /\ m \in Nat /\ Len(ordered') = m + 1
        /\ \A i \in 1 .. m : ordered'[i] = ordered[i]
        /\ ordered'[m + 1] = p
    BY <1>1, <2>1, <2>2, AppendProperties, LenProperties DEF OrderTypeOK
  <2>. HIDE DEF p, m, n
  <2>4. Alone'
    <3>1. CASE \A k \in 1 .. Len(stack) : stack[k].plugin \in User
      BY <2>2, <3>1 DEF Alone, n
    <3>2. CASE Len(stack) = 1
      BY <2>2, <3>2 DEF Alone, n
    <3>. QED
      BY <3>1, <3>2 DEF OfficialLast, Alone
  <2>5. ASSUME p \in Official, NEW q \in 1 .. p - 1
        PROVE  \E j \in 1 .. m : ordered[j] = q
    <3>1. n = 1 /\ p = root - 1 /\ root \in Nat
      <4>1. stack[n].plugin \notin User /\ n \in 1 .. Len(stack)
        BY <2>2, <2>5, Kinds DEF n
      <4>2. Len(stack) = 1 /\ stack[1].plugin = root - 1
        BY <4>1 DEF OfficialLast, Alone
      <4>. QED
        BY <1>1, <2>2, <4>2, Kinds DEF OrderTypeOK, n
    <3>2. q \in Plugin /\ q \in 1 .. root - 1 /\ q # p
      BY <2>2, <2>5, <3>1, Kinds DEF Plugin
    <3>3. visitState[q] # "new" /\ visitState[q] # "visiting"
      BY <1>1, <2>2, <3>1, <3>2 DEF OrderInv, Marks, n
    <3>4. visitState[q] = "visited"
      BY <1>1, <3>2, <3>3 DEF OrderTypeOK
    <3>. QED
      BY <1>1, <3>2, <3>4 DEF OrderInv, Marks, m
  <2>6. InPlace'
    <3>. SUFFICES ASSUME NEW i \in 1 .. m + 1, ordered'[i] \in Official, NEW q \in 1 .. ordered'[i] - 1
                  PROVE  \E j \in 1 .. i - 1 : ordered'[j] = q
      BY <2>3 DEF InPlace
    <3>1. CASE i = m + 1
      <4>1. PICK j \in 1 .. m : ordered[j] = q
        BY <2>3, <2>5, <3>1
      <4>2. j \in 1 .. i - 1 /\ ordered'[j] = q
        BY <2>3, <3>1, <4>1
      <4>. QED
        BY <4>2
    <3>2. CASE i # m + 1
      <4>1. i \in 1 .. m /\ ordered'[i] = ordered[i]
        BY <2>3, <3>2
      <4>2. PICK j \in 1 .. i - 1 : ordered[j] = q
        BY <4>1 DEF OfficialLast, InPlace, m
      <4>3. j \in 1 .. m
        BY <2>3, <4>1
      <4>. QED
        BY <2>3, <4>2, <4>3
    <3>. QED
      BY <3>1, <3>2
  <2>. QED
    BY <1>1, <1>3, <2>4, <2>6 DEF OfficialLast
<1>. QED
  BY <1>4, <1>5, <1>6, <1>7, <1>8 DEF OrderNext

(* A search that returned has as many plugins as the list.                 *)
LEMMA OrderedLength ==
  ASSUME OrderAssumption, OrderInv, Ordered
  PROVE  Len(ordered) = N
<1>. DEFINE n == Len(ordered)
            places == 1 .. n
<1>1. /\ ordered \in Seq(Plugin) /\ n \in Nat /\ N \in Nat
  BY LenProperties DEF OrderInv, OrderTypeOK, OrderAssumption
<1>2. ordered \in [places -> Plugin]
  BY <1>1, LenProperties
<1>3. /\ \A i, j \in places : ordered[i] = ordered[j] => i = j
      /\ \A p \in Plugin : \E i \in places : ordered[i] = p
  BY OrderInvComplete DEF OrderIsPermutation
<1>4. /\ IsFiniteSet(places) /\ Cardinality(places) = n
      /\ IsFiniteSet(Plugin) /\ Cardinality(Plugin) = N
  <2>1. IsFiniteSet(1 .. N) /\ Cardinality(1 .. N) = N
    <3>1. 1 \in Int /\ N \in Int
      BY <1>1
    <3>2. Cardinality(1 .. N) = IF 1 > N THEN 0 ELSE N - 1 + 1
      BY <3>1, FS_Interval
    <3>. QED
      BY <1>1, <3>1, <3>2, FS_Interval
  <2>2. IsFiniteSet(places) /\ Cardinality(places) = n
    <3>. HIDE DEF n
    <3>1. 1 \in Int /\ n \in Int
      BY <1>1
    <3>2. Cardinality(1 .. n) = IF 1 > n THEN 0 ELSE n - 1 + 1
      BY <3>1, FS_Interval
    <3>. QED
      BY <1>1, <3>1, <3>2, FS_Interval
  <2>. QED
    BY <2>1, <2>2 DEF Plugin
<1>. HIDE DEF n, places
<1>5. ordered \in Injection(places, Plugin) /\ ordered \in Surjection(places, Plugin)
  BY <1>2, <1>3 DEF Injection, Surjection, IsInjective
<1>6. Cardinality(places) <= Cardinality(Plugin)
  BY <1>4, <1>5, FS_Injection
<1>7. Cardinality(Plugin) <= Cardinality(places)
  BY <1>4, <1>5, FS_Surjection
<1>. QED
  BY <1>1, <1>4, <1>6, <1>7 DEF n

------------------------------------------------------------------------------
(* The set up.                                                             *)
LEMMA SettingUpFacts ==
  ASSUME OrderAssumption, OfficialAssumption, OfficialInv, NEW p, SettingUp(p)
  PROVE  /\ Ordered /\ done \in Nat /\ done + 1 \in 1 .. Len(ordered) /\ done + 1 \in 0 .. N
         /\ ordered[done + 1] = p
         /\ p \in Official => \A q \in 1 .. p - 1 : \E j \in 1 .. done : ordered[j] = q
<1>1. /\ Ordered /\ done \in 0 .. N /\ done < N /\ ordered[done + 1] = p /\ N \in Nat
  BY Kinds DEF SettingUp, OfficialInv, SnapshotsOK
<1>2. Len(ordered) = N
  BY <1>1, OrderedLength DEF OfficialInv, OfficialLast
<1>3. done + 1 \in 1 .. Len(ordered) /\ done + 1 - 1 = done
  BY <1>1, <1>2
<1>4. p \in Official => \A q \in 1 .. p - 1 : \E j \in 1 .. done : ordered[j] = q
  BY <1>1, <1>3 DEF OfficialInv, OfficialLast, InPlace
<1>. QED
  BY <1>1, <1>3, <1>4

(* When an official plugin is set up, the user plugins are on the host.    *)
LEMMA UsersAreMounted ==
  ASSUME OrderAssumption, OfficialAssumption, OfficialInv, NEW p \in Official, SettingUp(p)
  PROVE  User \subseteq mounted
<1>. SUFFICES ASSUME NEW q \in User PROVE q \in mounted
  OBVIOUS
<1>1. q \in 1 .. p - 1
  BY Kinds DEF OfficialAssumption, User, Official
<1>2. PICK j \in 1 .. done : ordered[j] = q
  BY <1>1, SettingUpFacts
<1>. QED
  BY <1>2 DEF OfficialInv, SnapshotsOK

(* What a plugin whose setup returned has to leave behind.                 *)
LEMMA ReturnsKeeps ==
  ASSUME OrderAssumption, OfficialAssumption, OfficialInv, NEW p, SettingUp(p), Returns,
         p \in User => p \in mounted',
         mounted \subseteq mounted',
         p = Metrics => User \subseteq labelled',
         p # Metrics => labelled' = labelled,
         p = OpenApi => exposed' = TRUE /\ spec' = documents \ hidden,
         p # OpenApi => exposed' = exposed /\ spec' = spec
  PROVE  OfficialInv'
<1>1. /\ UNCHANGED <<requires, root, visitState, stack, ordered, orderError>>
      /\ UNCHANGED <<needsSpec, documents, hidden, failedAt>>
      /\ done' = done + 1
  BY DEF Returns, orderVars, manifests
<1>2. OfficialLast'
  <2>1. OrderInv'
    BY <1>1, OrderNextInv DEF OfficialInv, OfficialLast, orderVars
  <2>. QED
    BY <1>1, <2>1 DEF OfficialInv, OfficialLast, Manifests, Alone, InPlace
<1>3. Ordered' /\ done' \in 0 .. N /\ failedAt' # Docs /\ documents' \subseteq User
  BY <1>1, SettingUpFacts DEF Ordered, OfficialInv, SnapshotsOK
<1>4. ASSUME NEW i \in 1 .. done'
      PROVE  \/ i \in 1 .. done /\ ordered[i] # p
             \/ ordered[i] = p
  BY <1>1, <1>4, SettingUpFacts
<1>5. \A i \in 1 .. done' : ordered[i] \in User => ordered[i] \in mounted'
  BY <1>4 DEF OfficialInv, SnapshotsOK
<1>6. \A i \in 1 .. done' : ordered[i] = Metrics => User \subseteq labelled'
  BY <1>4 DEF OfficialInv, SnapshotsOK
<1>7. \A i \in 1 .. done' : ordered[i] = OpenApi => exposed' = TRUE /\ spec' = documents \ hidden
  BY <1>4 DEF OfficialInv, SnapshotsOK
<1>. QED
  BY <1>1, <1>2, <1>3, <1>5, <1>6, <1>7 DEF OfficialInv, SnapshotsOK

(* A setup that raises changes nothing but failedAt.                       *)
LEMMA RaisesKeeps ==
  ASSUME OrderAssumption, OfficialAssumption, OfficialInv, NEW p, SettingUp(p), Raises(p), p # Docs
  PROVE  OfficialInv'
<1>1. /\ UNCHANGED <<requires, root, visitState, stack, ordered, orderError>>
      /\ UNCHANGED <<needsSpec, documents, hidden, done, mounted, labelled, spec, exposed>>
      /\ failedAt' = p
  BY DEF Raises, orderVars, manifests
<1>2. OfficialLast'
  <2>1. OrderInv'
    BY <1>1, OrderNextInv DEF OfficialInv, OfficialLast, orderVars
  <2>. QED
    BY <1>1, <2>1 DEF OfficialInv, OfficialLast, Manifests, Alone, InPlace
<1>. QED
  BY <1>1, <1>2 DEF OfficialInv, SnapshotsOK, Ordered, SettingUp

LEMMA OfficialNextInv ==
  ASSUME OrderAssumption, OfficialAssumption, OfficialInv, [OfficialNext]_officialVars
  PROVE  OfficialInv'
<1>. USE Kinds
<1>1. CASE Search
  <2>1. OrderNext /\ UNCHANGED <<done, documents, hidden, mounted, labelled, spec, exposed, failedAt>>
    BY <1>1 DEF Search, manifests, host
  <2>2. OfficialLast'
    BY <2>1, SearchKeepsOrder DEF OfficialInv
  <2>3. ~Ordered
    <3>1. ASSUME Ordered PROVE FALSE
      <4>1. stack = << >> /\ root = N + 1 /\ ~(root <= N)
        BY <3>1 DEF Ordered
      <4>. QED
        BY <2>1, <4>1 DEF OrderNext, VisitRoot, SkipRequirement, VisitDependency, DependencyMissing,
                          DependencyCycle, PlacePlugin, InLoop
    <3>. QED
      BY <3>1
  <2>4. done = 0 /\ failedAt = 0
    BY <2>3 DEF OfficialInv, SnapshotsOK
  <2>. QED
    BY <2>1, <2>2, <2>4 DEF OfficialInv, SnapshotsOK
<1>2. ASSUME NEW p \in User, SetUpUser(p) PROVE OfficialInv'
  <2>1. SettingUp(p) /\ p # Docs /\ p # Metrics /\ p # OpenApi
    BY <1>2 DEF SetUpUser
  <2>2. CASE Raises(p)
    BY <2>1, <2>2, RaisesKeeps
  <2>3. CASE Returns /\ Mounts(p) /\ UNCHANGED <<labelled, spec, exposed>>
    BY <2>1, <2>3, ReturnsKeeps DEF Mounts
  <2>. QED
    BY <1>2, <2>2, <2>3 DEF SetUpUser
<1>3. CASE SetUpHealth
  <2>1. Health \notin User /\ Health # Metrics /\ Health # OpenApi
    BY DEF OfficialAssumption, User, Health, Metrics, OpenApi
  <2>. QED
    BY <1>3, <2>1, ReturnsKeeps DEF SetUpHealth, Mounts
<1>4. CASE SetUpGraphql
  <2>1. GraphqlRuntime \notin User /\ GraphqlRuntime # Metrics /\ GraphqlRuntime # OpenApi
    BY DEF OfficialAssumption, User, GraphqlRuntime, Metrics, OpenApi
  <2>. QED
    BY <1>4, <2>1, ReturnsKeeps DEF SetUpGraphql
<1>5. CASE SetUpMetrics
  <2>1. User \subseteq mounted
    BY <1>5, UsersAreMounted DEF SetUpMetrics
  <2>. QED
    BY <1>5, <2>1, ReturnsKeeps DEF SetUpMetrics, Mounts
<1>6. CASE SetUpOpenApi
  <2>1. User \subseteq mounted
    BY <1>6, UsersAreMounted DEF SetUpOpenApi
  <2>2. (mounted \cap documents) \ hidden = documents \ hidden
    BY <2>1 DEF OfficialInv, SnapshotsOK
  <2>. QED
    BY <1>6, <2>2, ReturnsKeeps DEF SetUpOpenApi, Mounts
<1>7. CASE SetUpDocs
  <2>1. SettingUp(Docs) /\ Docs \in Official
    BY <1>7 DEF SetUpDocs
  <2>2. OpenApi \in 1 .. Docs - 1
    BY DEF OfficialAssumption, OpenApi, Docs
  <2>3. PICK j \in 1 .. done : ordered[j] = OpenApi
    BY <2>1, <2>2, SettingUpFacts
  <2>4. exposed = TRUE
    BY <2>3 DEF OfficialInv, SnapshotsOK
  <2>5. Docs \notin User /\ Docs # Metrics /\ Docs # OpenApi
    BY DEF OfficialAssumption, User, Metrics, OpenApi, Docs
  <2>. QED
    BY <1>7, <2>1, <2>4, <2>5, ReturnsKeeps DEF SetUpDocs, Mounts
<1>8. CASE UNCHANGED officialVars
  <2>1. /\ UNCHANGED <<requires, root, visitState, stack, ordered, orderError>>
        /\ UNCHANGED <<documents, hidden, done, mounted, labelled, spec, exposed, failedAt>>
    BY <1>8 DEF officialVars, orderVars, manifests, host
  <2>2. OrderInv'
    BY <2>1, OrderNextInv DEF OfficialInv, OfficialLast, orderVars
  <2>. QED
    BY <2>1, <2>2 DEF OfficialInv, OfficialLast, Manifests, Alone, InPlace, SnapshotsOK, Ordered
<1>. QED
  BY <1>1, <1>2, <1>3, <1>4, <1>5, <1>6, <1>7, <1>8 DEF OfficialNext

LEMMA SnapshotsInvImplies ==
  ASSUME OrderAssumption, OfficialAssumption, OfficialInv
  PROVE  SnapshotsAreComplete
<1>1. ASSUME AllSetUp PROVE spec = documents \ hidden /\ User \subseteq labelled
  <2>1. done = N /\ N # 0 /\ Ordered
    BY <1>1 DEF AllSetUp, OfficialAssumption, OfficialInv, SnapshotsOK
  <2>2. \A p \in Plugin : \E i \in 1 .. N : ordered[i] = p
    BY <2>1, OrderInvComplete, OrderedLength DEF OfficialInv, OfficialLast, OrderIsPermutation
  <2>. QED
    BY <2>1, <2>2, Kinds DEF OfficialInv, SnapshotsOK
<1>. QED
  BY <1>1 DEF SnapshotsAreComplete, OfficialInv, SnapshotsOK

(* Where user plugins require one another only, the OpenAPI document, the  *)
(* labels of the request metrics and the docs page are complete, whatever  *)
(* the order of the manifests, the routes and the requirements             *)
(* (build_runtime_plugins, merge_plugin_routes_into_spec).                 *)
THEOREM SnapshotsSeeEveryRoute ==
  ASSUME UsersRequireUsers
  PROVE  OfficialSpec => []SnapshotsAreComplete
<1>1. OfficialInit => OfficialInv
  BY OrderAssumption, OfficialAssumption, OfficialStart
<1>2. OfficialInv /\ [OfficialNext]_officialVars => OfficialInv'
  BY OrderAssumption, OfficialAssumption, OfficialNextInv
<1>3. OfficialInv => SnapshotsAreComplete
  BY OrderAssumption, OfficialAssumption, SnapshotsInvImplies
<1>. QED
  BY <1>1, <1>2, <1>3, PTL DEF OfficialSpec
==============================================================================
