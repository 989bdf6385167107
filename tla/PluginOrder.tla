----------------------------- MODULE PluginOrder -----------------------------
(***************************************************************************)
(* order_plugins (core/plugin.py): the depth-first search that turns the   *)
(* list of plugins given to ModularApi.build into the order in which they  *)
(* are set up.                                                             *)
(*                                                                         *)
(* build() has checked before that manifest ids are distinct, so a plugin  *)
(* is named by its position in the registration list: 1..N.  The recursive *)
(* `visit` closure is modelled by its call stack, one frame per active     *)
(* call, and one step of the model is one iteration of its loop.           *)
(***************************************************************************)
EXTENDS Naturals, Sequences

CONSTANTS
  N,            \* number of plugins in the registration list
  Requirements  \* the `requires` lists a manifest may declare

Plugin == 1 .. N

(* A requirement names another plugin, or something the search ignores     *)
(* (`requirement.type != "plugin"`).  Id 0 is any id that is not in the    *)
(* registration list.                                                      *)
Requirement == [type : {"plugin", "capability"}, id : 0 .. N]

ASSUME OrderAssumption ==
  /\ N \in Nat
  /\ Requirements \subseteq Seq(Requirement)

VARIABLES
  requires,    \* manifest.requires of every plugin
  root,        \* next plugin of the outer loop
  visitState,  \* visit_state: "new" stands for a key that is absent
  stack,       \* active calls of visit: the plugin and the next requirement
  ordered,     \* plugins appended so far
  orderError   \* code of the PluginHostError raised, "none" if there is none

orderVars == <<requires, root, visitState, stack, ordered, orderError>>

Frame == [plugin : Plugin, next : Nat \ {0}]

OrderTypeOK ==
  /\ requires \in [Plugin -> Seq(Requirement)]
  /\ root \in 1 .. N + 1
  /\ visitState \in [Plugin -> {"new", "visiting", "visited"}]
  /\ stack \in Seq(Frame)
  /\ ordered \in Seq(Plugin)
  /\ orderError \in {"none", "CYCLE", "MISSING"}

(* The search about to begin, over the manifests of `requires`.            *)
OrderStart ==
  /\ root = 1
  /\ visitState = [p \in Plugin |-> "new"]
  /\ stack = << >>
  /\ ordered = << >>
  /\ orderError = "none"

OrderInit ==
  /\ requires \in [Plugin -> Requirements]
  /\ OrderStart

------------------------------------------------------------------------------
Top == stack[Len(stack)]
TopRequires == requires[Top.plugin]
CurrentRequirement == TopRequires[Top.next]

Advanced == [stack EXCEPT ![Len(stack)].next = @ + 1]

Call(p, frames) ==
  /\ visitState' = [visitState EXCEPT ![p] = "visiting"]
  /\ stack' = Append(frames, [plugin |-> p, next |-> 1])

(* Mutant: the outer loop does not look at visit_state.                    *)
VisitRootAgain ==
  /\ orderError = "none" /\ stack = << >> /\ root <= N
  /\ root' = root + 1
  /\ Call(root, stack)
  /\ UNCHANGED <<requires, ordered, orderError>>

(* Mutant: the outer loop runs over the list backwards.                    *)
VisitRootBackwards ==
  /\ orderError = "none" /\ stack = << >> /\ root <= N
  /\ root' = root + 1
  /\ IF visitState[N + 1 - root] = "new"
       THEN Call(N + 1 - root, stack)
       ELSE UNCHANGED <<visitState, stack>>
  /\ UNCHANGED <<requires, ordered, orderError>>

(* `for plugin in plugins: visit(plugin)`.  A plugin an earlier search     *)
(* already placed returns at once.                                         *)
VisitRoot ==
  /\ orderError = "none" /\ stack = << >> /\ root <= N
  /\ root' = root + 1
  /\ IF visitState[root] = "new"
       THEN Call(root, stack)
       ELSE UNCHANGED <<visitState, stack>>
  /\ UNCHANGED <<requires, ordered, orderError>>

InLoop ==
  /\ orderError = "none" /\ stack # << >>
  /\ Top.next <= Len(TopRequires)

(* Mutant: a plugin that is still being visited counts as placed.          *)
SkipVisiting ==
  /\ InLoop
  /\ \/ CurrentRequirement.type # "plugin"
     \/ /\ CurrentRequirement.id # 0
        /\ visitState[CurrentRequirement.id] # "new"
  /\ stack' = Advanced
  /\ UNCHANGED <<requires, root, visitState, ordered, orderError>>

(* The requirement is not a plugin, or that plugin is already placed.      *)
SkipRequirement ==
  /\ InLoop
  /\ \/ CurrentRequirement.type # "plugin"
     \/ /\ CurrentRequirement.id # 0
        /\ visitState[CurrentRequirement.id] = "visited"
  /\ stack' = Advanced
  /\ UNCHANGED <<requires, root, visitState, ordered, orderError>>

VisitDependency ==
  /\ InLoop
  /\ CurrentRequirement.type = "plugin" /\ CurrentRequirement.id # 0
  /\ visitState[CurrentRequirement.id] = "new"
  /\ Call(CurrentRequirement.id, Advanced)
  /\ UNCHANGED <<requires, root, ordered, orderError>>

DependencyMissing ==
  /\ InLoop
  /\ CurrentRequirement.type = "plugin" /\ CurrentRequirement.id = 0
  /\ orderError' = "MISSING"
  /\ UNCHANGED <<requires, root, visitState, stack, ordered>>

DependencyCycle ==
  /\ InLoop
  /\ CurrentRequirement.type = "plugin" /\ CurrentRequirement.id # 0
  /\ visitState[CurrentRequirement.id] = "visiting"
  /\ orderError' = "CYCLE"
  /\ UNCHANGED <<requires, root, visitState, stack, ordered>>

(* Mutant: the last requirement is not followed.                           *)
PlaceTooEarly ==
  /\ orderError = "none" /\ stack # << >>
  /\ Top.next >= Len(TopRequires)
  /\ visitState' = [visitState EXCEPT ![Top.plugin] = "visited"]
  /\ ordered' = Append(ordered, Top.plugin)
  /\ stack' = SubSeq(stack, 1, Len(stack) - 1)
  /\ UNCHANGED <<requires, root, orderError>>

(* Mutant: visit_state is left at "visiting".                              *)
PlaceWithoutMark ==
  /\ orderError = "none" /\ stack # << >>
  /\ Top.next > Len(TopRequires)
  /\ ordered' = Append(ordered, Top.plugin)
  /\ stack' = SubSeq(stack, 1, Len(stack) - 1)
  /\ UNCHANGED <<requires, root, visitState, orderError>>

(* Every requirement has been followed: the call appends its plugin and    *)
(* returns.                                                                *)
PlacePlugin ==
  /\ orderError = "none" /\ stack # << >>
  /\ Top.next > Len(TopRequires)
  /\ visitState' = [visitState EXCEPT ![Top.plugin] = "visited"]
  /\ ordered' = Append(ordered, Top.plugin)
  /\ stack' = SubSeq(stack, 1, Len(stack) - 1)
  /\ UNCHANGED <<requires, root, orderError>>

OrderNext ==
  \/ VisitRoot
  \/ SkipRequirement \/ VisitDependency
  \/ DependencyMissing \/ DependencyCycle
  \/ PlacePlugin

Ordered == orderError = "none" /\ stack = << >> /\ root = N + 1

(* The search is straight-line synchronous code: it runs until it returns  *)
(* or raises.                                                              *)
OrderSpec == OrderInit /\ [][OrderNext]_orderVars /\ WF_orderVars(OrderNext)

------------------------------------------------------------------------------
(* The plugins p names as plugin requirements.                             *)
DependsOn(p) ==
  {d \in 0 .. N : \E k \in 1 .. Len(requires[p]) :
                    requires[p][k].type = "plugin" /\ requires[p][k].id = d}

(* A plugin is placed only after every plugin it requires, whatever the    *)
(* graph and even while the search is still running or has failed.         *)
DependenciesFirst ==
  \A i \in 1 .. Len(ordered) : \A d \in DependsOn(ordered[i]) :
    \E j \in 1 .. i - 1 : ordered[j] = d

(* No plugin is placed twice, and a search that returns has placed all:    *)
(* the result is a permutation of the registration list.                   *)
OrderIsPermutation ==
  /\ \A i, j \in 1 .. Len(ordered) : ordered[i] = ordered[j] => i = j
  /\ Ordered => \A p \in Plugin : \E i \in 1 .. Len(ordered) : ordered[i] = p

(* PLUGIN_DEPENDENCY_CYCLE is raised only for a real cycle: the active     *)
(* calls from the plugin found again up to the top of the stack.           *)
CycleIsReal ==
  orderError = "CYCLE" =>
    \E k \in 1 .. Len(stack) :
      /\ \A i \in k .. Len(stack) - 1 : stack[i + 1].plugin \in DependsOn(stack[i].plugin)
      /\ stack[k].plugin \in DependsOn(Top.plugin)

(* q is required by p, directly or through others: it is in every set that *)
(* holds what p requires and, with a plugin, all that this one requires.   *)
Closed(S) == \A x \in S \cap Plugin : DependsOn(x) \subseteq S
Reaches(p, q) == \A S \in SUBSET (0 .. N) : DependsOn(p) \subseteq S /\ Closed(S) => q \in S

Cyclic == \E p \in Plugin : Reaches(p, p)
Incomplete == \E p \in Plugin : 0 \in DependsOn(p)

(* The verdict is that of the graph: an order is returned only if there is *)
(* no cycle and no missing plugin, and the code raised names a defect the  *)
(* graph has.                                                              *)
VerdictMatchesGraph ==
  /\ Ordered => ~Cyclic /\ ~Incomplete
  /\ orderError = "CYCLE" => Cyclic
  /\ orderError = "MISSING" => Incomplete

(* Registration order decides where dependencies leave a choice: a plugin  *)
(* overtakes one registered before it only if that one, or another one     *)
(* registered before it, requires it.                                      *)
RegistrationOrderKept ==
  \A i, j \in 1 .. Len(ordered) :
    (i < j /\ ordered[j] < ordered[i]) =>
      \E r \in 1 .. ordered[j] : Reaches(r, ordered[i])
==============================================================================
