---------------------------- MODULE Startup_proofs ----------------------------
(***************************************************************************)
(* For every number of plugins, whatever they register and wherever their  *)
(* code fails: plugins are torn down after the plugins that require them,  *)
(* the drain runs the hooks backwards, shutdown follows setup, the host    *)
(* serves only when it is complete, and never changes once frozen; what is *)
(* registered stays, and the assembled stack nests as it should.           *)
(*                                                                         *)
(* The inductive invariant ties the list of hooks to the order of          *)
(* PluginOrder: hooks are registered in the order of setup, and every      *)
(* plugin set up so far has its shutdown in the list exactly once.         *)
(***************************************************************************)
EXTENDS Startup, PluginOrder_proofs, FiniteSetTheorems

HostTypeOK ==
  /\ phase \in Phases
  /\ cursor \in 1 .. Len(ordered) + 1
  /\ frozen \in BOOLEAN /\ blocked \in BOOLEAN
  /\ hooks \in Seq(Hook)
  /\ drainFrom \in Nat /\ toRun \in Nat /\ ran \in Seq(Nat)

(* What the phase says of the rest of the state.                           *)
Early == phase \in {"checkIds", "order"}

Phased ==
  /\ Early => hooks = << >> /\ cursor = 1
  /\ Early \/ phase \in {"setup", "exited"} => ~frozen
  /\ phase \in {"validate", "serving", "stopTracing", "stop", "stopped"} => frozen
  /\ phase \in {"setup", "validate", "serving"} => Ordered
  /\ phase \in {"checkIds", "order", "setup", "validate", "serving"} => startupError = "none"
  /\ phase = "serving" => ~blocked
  /\ active # 0 => phase = "setup" /\ cursor <= Len(ordered) /\ active = ordered[cursor]

(* A hook belongs to a plugin whose setup has begun (or to no plugin, when *)
(* a hook registered it), and the owners follow the order of setup.        *)
Owned ==
  \A i \in 1 .. Len(hooks) : hooks[i].plugin # 0 =>
    \E a \in 1 .. Len(ordered) :
      /\ hooks[i].plugin = ordered[a]
      /\ phase = "setup" => a <= cursor /\ (active = 0 => a < cursor)

InOrder ==
  \A i, j \in 1 .. Len(hooks), a, b \in 1 .. Len(ordered) :
    i < j /\ hooks[i].plugin = ordered[a] /\ hooks[j].plugin = ordered[b] => a <= b

(* The shutdown hooks are those of the plugins set up, once each.          *)
IsShutdown(i, p) == hooks[i].kind = "shutdown" /\ hooks[i].plugin = p

Shutdowns ==
  /\ \A i \in 1 .. Len(hooks) : hooks[i].kind = "shutdown" /\ ~frozen =>
       \E k \in 1 .. cursor - 1 : ordered[k] = hooks[i].plugin
  /\ \A i, j \in 1 .. Len(hooks) :
       IsShutdown(i, hooks[j].plugin) /\ hooks[j].kind = "shutdown" => i = j
  /\ \A k \in 1 .. Len(ordered) : frozen \/ k < cursor =>
       \E i \in 1 .. Len(hooks) : IsShutdown(i, ordered[k])

(* The hooks from drainFrom down to toRun have been called, in that order. *)
Drained ==
  /\ toRun <= drainFrom /\ drainFrom <= Len(hooks)
  /\ \A k \in 1 .. Len(ran) : toRun <= ran[k] /\ (Draining => toRun < ran[k])
  /\ \A j, k \in 1 .. Len(ran) : j < k => ran[k] < ran[j]
  /\ Draining => Len(ran) = drainFrom - toRun
  /\ phase \notin {"abort", "stop", "raised", "stopped"} => ran = << >> /\ drainFrom = 0
  /\ phase \in {"raised", "stopped"} /\ raised # "hook" => Len(ran) = drainFrom

HostInv == HostTypeOK /\ Phased /\ Owned /\ InOrder /\ Shutdowns /\ Drained

StartupInv == OrderInv /\ HostInv
------------------------------------------------------------------------------
USE DEF orderVars, registrations, control, drain, outcome, inputs

LEMMA HookFields ==
  ASSUME HostTypeOK
  PROVE  /\ Len(hooks) \in Nat
         /\ \A i \in 1 .. Len(hooks) : hooks[i].plugin \in 0 .. N
<1>1. hooks \in Seq(Hook)
  BY DEF HostTypeOK
<1>2. \A i \in 1 .. Len(hooks) : hooks[i] \in Hook
  BY <1>1, ElementOfSeq
<1>. QED
  BY <1>1, <1>2, LenProperties DEF Hook, Owner

LEMMA OrderFields ==
  ASSUME OrderInv, OrderAssumption
  PROVE  /\ N \in Nat /\ Len(ordered) \in Nat
         /\ \A a \in 1 .. Len(ordered) : ordered[a] \in 1 .. N
         /\ \A a, b \in 1 .. Len(ordered) : ordered[a] = ordered[b] => a = b
<1>1. ordered \in Seq(Plugin)
  BY DEF OrderInv, OrderTypeOK
<1>2. \A a \in 1 .. Len(ordered) : ordered[a] \in Plugin
  BY <1>1, ElementOfSeq
<1>. QED
  BY <1>1, <1>2, LenProperties DEF OrderInv, Distinct, Plugin, OrderAssumption

(* A step that leaves the hooks and the plugins set up alone.              *)
LEMMA HooksStable ==
  ASSUME Owned, InOrder, Shutdowns,
         UNCHANGED <<ordered, hooks, frozen, cursor>>,
         phase' = "setup" => phase = "setup" /\ (active' = 0 => active = 0)
  PROVE  Owned' /\ InOrder' /\ Shutdowns'
<1>1. Owned'
  BY DEF Owned
<1>2. InOrder'
  BY DEF InOrder
<1>3. Shutdowns'
  BY DEF Shutdowns, IsShutdown
<1>. QED
  BY <1>1, <1>2, <1>3

(* A step of startup or of the serving application: no drain is going on.  *)
LEMMA DrainStable ==
  ASSUME HostTypeOK, Drained, Len(hooks') \in Nat, Len(hooks') >= Len(hooks),
         UNCHANGED <<drain, phase, raised>>
  PROVE  Drained'
<1>1. Len(hooks) \in Nat
  BY LenProperties DEF HostTypeOK
<1>. QED
  BY <1>1 DEF Drained, Draining, HostTypeOK

LEMMA AppendHook ==
  ASSUME HostTypeOK, NEW h \in Hook, hooks' = Append(hooks, h)
  PROVE  /\ hooks' \in Seq(Hook)
         /\ Len(hooks') = Len(hooks) + 1
         /\ \A i \in 1 .. Len(hooks) : hooks'[i] = hooks[i]
         /\ hooks'[Len(hooks) + 1] = h
         /\ \A i \in 1 .. Len(hooks') : i \in 1 .. Len(hooks) \/ i = Len(hooks) + 1
<1>1. hooks \in Seq(Hook) /\ Len(hooks) \in Nat
  BY LenProperties DEF HostTypeOK
<1>2. /\ hooks' \in Seq(Hook)
      /\ Len(hooks') = Len(hooks) + 1
      /\ \A i \in 1 .. Len(hooks) : hooks'[i] = hooks[i]
      /\ hooks'[Len(hooks) + 1] = h
  BY <1>1, AppendProperties
<1>. QED
  BY <1>1, <1>2

(* A hook of the plugin being set up, or of nobody, goes to the end of the *)
(* list: its owner is not before the others in the order of setup.         *)
LEMMA OwnerLast ==
  ASSUME OrderInv, OrderAssumption, HostInv,
         NEW h \in Hook, hooks' = Append(hooks, h), UNCHANGED ordered,
         h.plugin # 0 => /\ phase = "setup" /\ cursor <= Len(ordered)
                         /\ h.plugin = ordered[cursor]
  PROVE  InOrder'
<1>1. SUFFICES ASSUME NEW i \in 1 .. Len(hooks'), NEW j \in 1 .. Len(hooks'),
                      NEW a \in 1 .. Len(ordered), NEW b \in 1 .. Len(ordered),
                      i < j, hooks'[i].plugin = ordered[a], hooks'[j].plugin = ordered[b]
               PROVE  a <= b
  BY DEF InOrder
<1>2. /\ Len(hooks) \in Nat /\ cursor \in Nat
      /\ Len(hooks') = Len(hooks) + 1 /\ hooks'[Len(hooks) + 1] = h
      /\ \A k \in 1 .. Len(hooks) : hooks'[k] = hooks[k]
  BY AppendHook, HookFields, OrderFields DEF HostInv, HostTypeOK
<1>3. i \in 1 .. Len(hooks) /\ hooks[i].plugin = ordered[a]
  BY <1>1, <1>2
<1>4. CASE j \in 1 .. Len(hooks)
  <2>1. hooks[j].plugin = ordered[b]
    BY <1>1, <1>2, <1>4
  <2>. QED
    BY <1>1, <1>3, <1>4, <2>1 DEF HostInv, InOrder
<1>5. CASE j = Len(hooks) + 1
  <2>1. /\ ordered[a] # 0 /\ ordered[b] # 0
        /\ \A c, d \in 1 .. Len(ordered) : ordered[c] = ordered[d] => c = d
        /\ Len(ordered) \in Nat
    BY OrderFields
  <2>2. h.plugin = ordered[b] /\ phase = "setup" /\ cursor \in 1 .. Len(ordered)
        /\ b = cursor
    <3>1. h.plugin = ordered[b]
      BY <1>1, <1>2, <1>5
    <3>. QED
      BY <2>1, <3>1 DEF HostInv, HostTypeOK
  <2>3. PICK c \in 1 .. Len(ordered) : hooks[i].plugin = ordered[c] /\ c <= cursor
    BY <1>3, <2>1, <2>2 DEF HostInv, Owned
  <2>4. c = a
    BY <1>3, <2>1, <2>3
  <2>. QED
    BY <2>2, <2>3, <2>4
<1>. QED
  BY <1>2, <1>4, <1>5

(* on_shutdown, called by plugin code.                                     *)
LEMMA CallbackRegisteredInv ==
  ASSUME OrderInv, OrderAssumption, HostInv,
         NEW h \in Hook, hooks' = Append(hooks, h), h.kind = "callback", h.plugin = active,
         UNCHANGED <<orderVars, control, drain, outcome, inputs, blocked>>,
         ~frozen, ~Early
  PROVE  HostInv'
<1>1. /\ Len(hooks) \in Nat /\ hooks' \in Seq(Hook)
      /\ Len(hooks') = Len(hooks) + 1 /\ hooks'[Len(hooks) + 1] = h
      /\ \A i \in 1 .. Len(hooks) : hooks'[i] = hooks[i]
      /\ \A i \in 1 .. Len(hooks') : i \in 1 .. Len(hooks) \/ i = Len(hooks) + 1
  BY AppendHook, HookFields DEF HostInv
<1>2. active # 0 => phase = "setup" /\ cursor \in 1 .. Len(ordered) /\ active = ordered[cursor]
  BY OrderFields DEF HostInv, HostTypeOK, Phased
<1>3. HostTypeOK'
  BY <1>1 DEF HostInv, HostTypeOK
<1>4. Phased'
  BY DEF HostInv, Phased, Early, Ordered
<1>5. Owned'
  <2>1. SUFFICES ASSUME NEW i \in 1 .. Len(hooks'), hooks'[i].plugin # 0
                 PROVE  \E a \in 1 .. Len(ordered) :
                          /\ hooks'[i].plugin = ordered[a]
                          /\ phase = "setup" => a <= cursor /\ (active = 0 => a < cursor)
    BY DEF Owned
  <2>2. CASE i \in 1 .. Len(hooks)
    BY <1>1, <2>1, <2>2 DEF HostInv, Owned
  <2>3. CASE i = Len(hooks) + 1
    BY <1>1, <1>2, <2>1, <2>3 DEF HostInv, HostTypeOK
  <2>. QED
    BY <1>1, <2>2, <2>3
<1>6. InOrder'
  BY <1>2, OwnerLast
<1>7. Shutdowns'
  <2>1. \A i \in 1 .. Len(hooks') : hooks'[i].kind = "shutdown" =>
          i \in 1 .. Len(hooks) /\ hooks'[i] = hooks[i]
    BY <1>1
  <2>2. \A i \in 1 .. Len(hooks) : i \in 1 .. Len(hooks') /\ hooks'[i] = hooks[i]
    BY <1>1
  <2>3. \A i \in 1 .. Len(hooks') : hooks'[i].kind = "shutdown" /\ ~frozen' =>
          \E k \in 1 .. cursor' - 1 : ordered'[k] = hooks'[i].plugin
    BY <2>1 DEF HostInv, Shutdowns
  <2>4. \A i, j \in 1 .. Len(hooks') :
          IsShutdown(i, hooks[j].plugin)' /\ hooks'[j].kind = "shutdown" => i = j
    BY <2>1 DEF HostInv, Shutdowns, IsShutdown
  <2>5. \A k \in 1 .. Len(ordered') : frozen' \/ k < cursor' =>
          \E i \in 1 .. Len(hooks') : IsShutdown(i, ordered[k])'
    BY <2>2 DEF HostInv, Shutdowns, IsShutdown
  <2>. QED
    BY <2>3, <2>4, <2>5 DEF Shutdowns
<1>8. Drained'
  BY <1>1, DrainStable DEF HostInv
<1>. QED
  BY <1>3, <1>4, <1>5, <1>6, <1>7, <1>8 DEF HostInv

(* setup returned: the plugin's own shutdown.                              *)
LEMMA EndSetupInv ==
  ASSUME OrderInv, OrderAssumption, HostInv, NEW async \in BOOLEAN, EndSetup(async)
  PROVE  HostInv'
<1>. DEFINE h == [plugin |-> ordered[cursor], kind |-> "shutdown", async |-> async]
<1>0. /\ phase = "setup" /\ active # 0 /\ hooks' = Append(hooks, h)
      /\ active' = 0 /\ cursor' = cursor + 1
      /\ UNCHANGED <<orderVars, phase, frozen, drain, outcome, inputs, blocked>>
  BY DEF EndSetup
<1>1. /\ cursor \in 1 .. Len(ordered) /\ ~frozen /\ ~Early
      /\ Len(ordered) \in Nat /\ ordered[cursor] \in 1 .. N
      /\ \A a, b \in 1 .. Len(ordered) : ordered[a] = ordered[b] => a = b
  BY <1>0, OrderFields DEF HostInv, HostTypeOK, Phased, Early
<1>2. h \in Hook /\ h.plugin = ordered[cursor] /\ h.kind = "shutdown"
  BY <1>1, OrderAssumption DEF Hook, Owner
<1>. HIDE DEF h
<1>3. /\ Len(hooks) \in Nat /\ hooks' \in Seq(Hook)
      /\ Len(hooks') = Len(hooks) + 1 /\ hooks'[Len(hooks) + 1] = h
      /\ \A i \in 1 .. Len(hooks) : hooks'[i] = hooks[i]
      /\ \A i \in 1 .. Len(hooks') : i \in 1 .. Len(hooks) \/ i = Len(hooks) + 1
  BY <1>0, <1>2, AppendHook, HookFields DEF HostInv
<1>4. HostTypeOK'
  BY <1>0, <1>1, <1>3 DEF HostInv, HostTypeOK
<1>5. Phased'
  BY <1>0, <1>1 DEF HostInv, Phased, Early, Ordered
<1>6. Owned'
  <2>1. SUFFICES ASSUME NEW i \in 1 .. Len(hooks'), hooks'[i].plugin # 0
                 PROVE  \E a \in 1 .. Len(ordered) :
                          hooks'[i].plugin = ordered[a] /\ a < cursor + 1
    BY <1>0, <1>1 DEF Owned
  <2>2. CASE i \in 1 .. Len(hooks)
    BY <1>0, <1>1, <1>3, <2>1, <2>2 DEF HostInv, Owned
  <2>3. CASE i = Len(hooks) + 1
    BY <1>1, <1>2, <1>3, <2>3
  <2>. QED
    BY <1>3, <2>2, <2>3
<1>7. InOrder'
  BY <1>0, <1>1, <1>2, OwnerLast
<1>8. Shutdowns'
  <2>1. \A i \in 1 .. Len(hooks) : hooks[i].kind = "shutdown" =>
          \E k \in 1 .. cursor - 1 : ordered[k] = hooks[i].plugin
    BY <1>1 DEF HostInv, Shutdowns
  <2>2. \A i \in 1 .. Len(hooks) : hooks[i].kind = "shutdown" =>
          hooks[i].plugin # ordered[cursor]
    BY <1>1, <2>1
  <2>3. \A i \in 1 .. Len(hooks') : hooks'[i].kind = "shutdown" /\ ~frozen' =>
          \E k \in 1 .. cursor' - 1 : ordered'[k] = hooks'[i].plugin
    <3>1. \A i \in 1 .. Len(hooks) : hooks'[i].kind = "shutdown" =>
            \E k \in 1 .. cursor : ordered[k] = hooks'[i].plugin
      BY <1>1, <1>3, <2>1
    <3>2. \E k \in 1 .. cursor : ordered[k] = hooks'[Len(hooks) + 1].plugin
      BY <1>1, <1>2, <1>3
    <3>. QED
      BY <1>0, <1>1, <1>3, <3>1, <3>2
  <2>4. \A i, j \in 1 .. Len(hooks') :
          IsShutdown(i, hooks[j].plugin)' /\ hooks'[j].kind = "shutdown" => i = j
    <3>1. \A i, j \in 1 .. Len(hooks) :
            /\ hooks[i].kind = "shutdown" /\ hooks[j].kind = "shutdown"
            /\ hooks[i].plugin = hooks[j].plugin
            => i = j
      BY DEF HostInv, Shutdowns, IsShutdown
    <3>. QED
      BY <1>2, <1>3, <2>2, <3>1 DEF IsShutdown
  <2>5. \A k \in 1 .. Len(ordered') : frozen' \/ k < cursor' =>
          \E i \in 1 .. Len(hooks') : IsShutdown(i, ordered[k])'
    <3>1. SUFFICES ASSUME NEW k \in 1 .. Len(ordered), k <= cursor
                   PROVE  \E i \in 1 .. Len(hooks') :
                            hooks'[i].kind = "shutdown" /\ hooks'[i].plugin = ordered[k]
      <4>1. /\ ordered' = ordered /\ ~frozen'
            /\ \A k \in 1 .. Len(ordered) : k < cursor' => k <= cursor
        BY <1>0, <1>1
      <4>. QED
        BY <4>1 DEF IsShutdown
    <3>2. CASE k = cursor
      BY <1>2, <1>3, <3>2
    <3>3. CASE k < cursor
      <4>1. PICK i \in 1 .. Len(hooks) :
              hooks[i].kind = "shutdown" /\ hooks[i].plugin = ordered[k]
        BY <3>3 DEF HostInv, Shutdowns, IsShutdown
      <4>. QED
        BY <1>3, <4>1
    <3>. QED
      BY <1>1, <3>1, <3>2, <3>3
  <2>. QED
    BY <2>3, <2>4, <2>5 DEF Shutdowns
<1>9. Drained'
  BY <1>0, <1>3, DrainStable DEF HostInv
<1>. QED
  BY <1>4, <1>5, <1>6, <1>7, <1>8, <1>9 DEF HostInv


------------------------------------------------------------------------------
(* The steps that leave the hooks alone.                                   *)

LEMMA CheckIdsInv == ASSUME HostInv, CheckIds PROVE HostInv'
<1>1. /\ phase = "checkIds" /\ phase' \in {"order", "raised"}
      /\ phase' = "order" => raised' = raised
      /\ UNCHANGED <<orderVars, hooks, cursor, active, frozen, drain, startupError, blocked>>
  BY DEF CheckIds
<1>2. HostTypeOK'
  BY <1>1 DEF HostInv, HostTypeOK, Phases
<1>3. Phased'
  BY <1>1 DEF HostInv, Phased, Early, Ordered
<1>4. Owned' /\ InOrder' /\ Shutdowns'
  BY <1>1, HooksStable DEF HostInv
<1>5. Drained'
  <2>1. ran = << >> /\ drainFrom = 0 /\ Len(ran) = 0
    BY <1>1, EmptySeq DEF HostInv, Drained
  <2>. QED
    BY <1>1, <2>1 DEF HostInv, Drained, Draining
<1>. QED
  BY <1>2, <1>3, <1>4, <1>5 DEF HostInv

(* No hook is registered before the order is complete.                     *)
LEMMA OrderStepInv ==
  ASSUME OrderAssumption, OrderInv, OrderInv', HostInv, OrderStep PROVE HostInv'
<1>1. /\ phase = "order"
      /\ UNCHANGED <<hooks, control, drain, outcome, blocked>>
  BY DEF OrderStep
<1>2. /\ hooks = << >> /\ Len(hooks) = 0 /\ cursor = 1 /\ ~frozen
      /\ Len(ordered) \in Nat /\ Len(ordered') \in Nat
  <2>1. ordered' \in Seq(Plugin)
    BY DEF OrderInv, OrderTypeOK
  <2>. QED
    BY <1>1, <2>1, OrderFields, EmptySeq, LenProperties DEF HostInv, Phased, Early
<1>3. HostTypeOK'
  BY <1>1, <1>2 DEF HostInv, HostTypeOK
<1>4. Phased'
  <2>1. active = 0
    BY <1>1 DEF HostInv, Phased
  <2>. QED
    BY <1>1, <2>1 DEF HostInv, Phased, Early
<1>5. Owned' /\ InOrder'
  BY <1>1, <1>2 DEF Owned, InOrder
<1>6. Shutdowns'
  BY <1>1, <1>2 DEF Shutdowns
<1>7. Drained'
  BY <1>1, <1>2, DrainStable DEF HostInv
<1>. QED
  BY <1>3, <1>4, <1>5, <1>6, <1>7 DEF HostInv

LEMMA OrderEndsInv == ASSUME HostInv, OrderEnds PROVE HostInv'
<1>1. /\ phase = "order" /\ phase' \in {"setup", "raised"}
      /\ phase' = "setup" => Ordered /\ raised' = raised
      /\ UNCHANGED <<orderVars, hooks, cursor, active, frozen, drain, startupError, blocked>>
  BY DEF OrderEnds
<1>2. hooks = << >> /\ Len(hooks) = 0 /\ cursor = 1 /\ ~frozen /\ active = 0
  BY <1>1, EmptySeq DEF HostInv, Phased, Early
<1>3. HostTypeOK'
  BY <1>1 DEF HostInv, HostTypeOK, Phases
<1>4. Phased'
  BY <1>1, <1>2 DEF HostInv, Phased, Early, Ordered
<1>5. Owned' /\ InOrder'
  BY <1>1, <1>2 DEF Owned, InOrder
<1>6. Shutdowns'
  BY <1>1, <1>2 DEF HostInv, Shutdowns, IsShutdown
<1>7. Drained'
  <2>1. ran = << >> /\ drainFrom = 0 /\ Len(ran) = 0
    BY <1>1, EmptySeq DEF HostInv, Drained
  <2>. QED
    BY <1>1, <2>1 DEF HostInv, Drained, Draining
<1>. QED
  BY <1>3, <1>4, <1>5, <1>6, <1>7 DEF HostInv

LEMMA BeginSetupInv == ASSUME OrderAssumption, OrderInv, HostInv, BeginSetup PROVE HostInv'
<1>1. /\ phase = "setup" /\ active = 0 /\ cursor <= Len(ordered)
      /\ active' = ordered[cursor]
      /\ UNCHANGED <<orderVars, hooks, phase, cursor, frozen, drain, outcome, blocked>>
  BY DEF BeginSetup
<1>2. HostTypeOK'
  BY <1>1 DEF HostInv, HostTypeOK
<1>3. Phased'
  BY <1>1 DEF HostInv, Phased, Early, Ordered
<1>4. Owned' /\ InOrder' /\ Shutdowns'
  BY <1>1, HooksStable DEF HostInv
<1>5. Drained'
  BY <1>1, HookFields, DrainStable DEF HostInv
<1>. QED
  BY <1>2, <1>3, <1>4, <1>5 DEF HostInv

(* Where the drain begins: every hook is still to be called.               *)
LEMMA BeginDrainInv ==
  ASSUME HostInv, phase \in {"setup", "validate", "stopTracing"},
         phase' \in {"abort", "stop"},
         drainFrom' = Len(hooks), toRun' = Len(hooks), UNCHANGED <<ran, hooks>>
  PROVE  Drained' /\ drainFrom' \in Nat /\ toRun' \in Nat
<1>1. ran = << >> /\ Len(ran) = 0
  BY EmptySeq DEF HostInv, Drained
<1>. QED
  BY <1>1, HookFields DEF HostInv, Drained, Draining

LEMMA StartupFailsInv ==
  ASSUME HostInv, NEW code, StartupFails(code), phase \in {"setup", "validate"}
  PROVE  HostInv'
<1>1. /\ phase' = "abort" /\ active' = 0
      /\ drainFrom' = Len(hooks) /\ toRun' = Len(hooks)
      /\ UNCHANGED <<orderVars, hooks, ran, cursor, frozen, blocked>>
  BY DEF StartupFails, BeginDrain
<1>2. Drained' /\ drainFrom' \in Nat /\ toRun' \in Nat
  BY <1>1, BeginDrainInv
<1>3. HostTypeOK'
  BY <1>1, <1>2 DEF HostInv, HostTypeOK, Phases
<1>4. Phased'
  BY <1>1 DEF HostInv, Phased, Early, Ordered
<1>5. Owned' /\ InOrder' /\ Shutdowns'
  BY <1>1, HooksStable DEF HostInv
<1>. QED
  BY <1>2, <1>3, <1>4, <1>5 DEF HostInv

LEMMA SetupExitsInv == ASSUME HostInv, SetupExits PROVE HostInv'
<1>1. /\ phase = "setup" /\ phase' = "exited" /\ active' = 0
      /\ UNCHANGED <<orderVars, hooks, cursor, frozen, drain, outcome, blocked>>
  BY DEF SetupExits
<1>2. HostTypeOK' /\ Phased'
  BY <1>1 DEF HostInv, HostTypeOK, Phases, Phased, Early, Ordered
<1>3. Owned' /\ InOrder' /\ Shutdowns'
  BY <1>1, HooksStable DEF HostInv
<1>4. Drained'
  BY <1>1 DEF HostInv, Drained, Draining
<1>. QED
  BY <1>2, <1>3, <1>4 DEF HostInv


LEMMA FreezeInv == ASSUME OrderAssumption, OrderInv, HostInv, Freeze PROVE HostInv'
<1>1. /\ phase = "setup" /\ active = 0 /\ cursor = Len(ordered) + 1
      /\ frozen' = TRUE /\ phase' = "validate" /\ cursor' = 1
      /\ UNCHANGED <<orderVars, hooks, active, drain, outcome, blocked>>
  BY DEF Freeze
<1>2. Len(ordered) \in Nat /\ ~frozen
  BY <1>1, OrderFields DEF HostInv, Phased
<1>3. HostTypeOK'
  BY <1>1, <1>2 DEF HostInv, HostTypeOK, Phases
<1>4. Phased'
  BY <1>1 DEF HostInv, Phased, Early, Ordered
<1>5. Owned' /\ InOrder'
  BY <1>1 DEF HostInv, Owned, InOrder
<1>6. Shutdowns'
  <2>1. \A k \in 1 .. Len(ordered) : k < cursor
    BY <1>1, <1>2
  <2>. QED
    BY <1>1, <2>1 DEF HostInv, Shutdowns, IsShutdown
<1>7. Drained'
  BY <1>1 DEF HostInv, Drained, Draining
<1>. QED
  BY <1>3, <1>4, <1>5, <1>6, <1>7 DEF HostInv

LEMMA ValidateInv ==
  ASSUME OrderAssumption, OrderInv, HostInv, NEW blocking \in BOOLEAN, Validate(blocking)
  PROVE  HostInv'
<1>1. /\ phase = "validate" /\ cursor <= Len(ordered)
      /\ blocked' = (blocked \/ blocking) /\ cursor' = cursor + 1
      /\ UNCHANGED <<orderVars, hooks, phase, active, frozen, drain, outcome>>
  BY DEF Validate
<1>2. Len(ordered) \in Nat /\ frozen /\ active = 0
  BY <1>1, OrderFields DEF HostInv, Phased
<1>3. HostTypeOK'
  <2>1. blocked' \in BOOLEAN
    BY <1>1
  <2>2. cursor' \in 1 .. Len(ordered) + 1
    BY <1>1, <1>2 DEF HostInv, HostTypeOK
  <2>. QED
    BY <1>1, <2>1, <2>2 DEF HostInv, HostTypeOK
<1>4. Phased'
  BY <1>1, <1>2 DEF HostInv, Phased, Early, Ordered
<1>5. Owned' /\ InOrder'
  BY <1>1 DEF HostInv, Owned, InOrder
<1>6. Shutdowns'
  BY <1>1, <1>2 DEF HostInv, Shutdowns, IsShutdown
<1>7. Drained'
  BY <1>1 DEF HostInv, Drained, Draining
<1>. QED
  BY <1>3, <1>4, <1>5, <1>6, <1>7 DEF HostInv

LEMMA AssertValidInv == ASSUME HostInv, AssertValid PROVE HostInv'
<1>1. CASE blocked /\ StartupFails("blocking")
  BY <1>1, StartupFailsInv DEF AssertValid
<1>2. CASE ~blocked
  <2>1. /\ phase = "validate" /\ phase' = "serving"
        /\ UNCHANGED <<orderVars, hooks, cursor, active, frozen, drain, outcome, blocked>>
    BY <1>2 DEF AssertValid
  <2>2. HostTypeOK' /\ Phased'
    BY <1>2, <2>1 DEF HostInv, HostTypeOK, Phases, Phased, Early, Ordered
  <2>3. Owned' /\ InOrder' /\ Shutdowns'
    BY <2>1, HooksStable DEF HostInv
  <2>4. Drained'
    BY <2>1 DEF HostInv, Drained, Draining
  <2>. QED
    BY <2>2, <2>3, <2>4 DEF HostInv
<1>. QED
  BY <1>1, <1>2 DEF AssertValid

LEMMA StopRequestedInv == ASSUME HostInv, StopRequested PROVE HostInv'
<1>1. /\ phase = "serving" /\ phase' = "stopTracing"
      /\ UNCHANGED <<orderVars, hooks, cursor, active, frozen, drain, outcome, blocked>>
  BY DEF StopRequested
<1>2. HostTypeOK' /\ Phased'
  BY <1>1 DEF HostInv, HostTypeOK, Phases, Phased, Early, Ordered
<1>3. Owned' /\ InOrder' /\ Shutdowns'
  BY <1>1, HooksStable DEF HostInv
<1>4. Drained'
  BY <1>1 DEF HostInv, Drained, Draining
<1>. QED
  BY <1>2, <1>3, <1>4 DEF HostInv

LEMMA TracingShutdownInv == ASSUME HostInv, TracingShutdown PROVE HostInv'
<1>1. /\ phase = "stopTracing" /\ phase' = "stop"
      /\ drainFrom' = Len(hooks) /\ toRun' = Len(hooks)
      /\ UNCHANGED <<orderVars, hooks, ran, cursor, active, frozen, outcome, blocked>>
  BY DEF TracingShutdown, BeginDrain
<1>2. Drained' /\ drainFrom' \in Nat /\ toRun' \in Nat
  BY <1>1, BeginDrainInv
<1>3. HostTypeOK' /\ Phased'
  BY <1>1, <1>2 DEF HostInv, HostTypeOK, Phases, Phased, Early, Ordered
<1>4. Owned' /\ InOrder' /\ Shutdowns'
  BY <1>1, HooksStable DEF HostInv
<1>. QED
  BY <1>2, <1>3, <1>4 DEF HostInv

------------------------------------------------------------------------------
(* The drain.                                                              *)

(* The hook called next comes below those called before.                   *)
LEMMA RanAppended ==
  ASSUME HostInv, Draining, toRun > 0, ran' = Append(ran, toRun)
  PROVE  /\ ran' \in Seq(Nat)
         /\ Len(ran) \in Nat /\ Len(ran') = Len(ran) + 1
         /\ \A k \in 1 .. Len(ran') : toRun <= ran'[k]
         /\ \A j, k \in 1 .. Len(ran') : j < k => ran'[k] < ran'[j]
<1>1. /\ ran \in Seq(Nat) /\ toRun \in Nat
  BY DEF HostInv, HostTypeOK
<1>2. /\ ran' \in Seq(Nat)
      /\ Len(ran) \in Nat /\ Len(ran') = Len(ran) + 1
      /\ \A k \in 1 .. Len(ran) : ran'[k] = ran[k]
      /\ ran'[Len(ran) + 1] = toRun
  BY <1>1, AppendProperties, LenProperties
<1>3. \A k \in 1 .. Len(ran) : ran[k] \in Nat
  BY <1>1, ElementOfSeq
<1>4. /\ \A k \in 1 .. Len(ran) : toRun < ran[k]
      /\ \A j, k \in 1 .. Len(ran) : j < k => ran[k] < ran[j]
  BY DEF HostInv, Drained
<1>. QED
  BY <1>1, <1>2, <1>3, <1>4

LEMMA RunHookInv == ASSUME HostInv, RunHook PROVE HostInv'
<1>1. /\ Draining /\ toRun > 0
      /\ ran' = Append(ran, toRun) /\ toRun' = toRun - 1
      /\ UNCHANGED <<orderVars, hooks, control, drainFrom, outcome, blocked>>
  BY DEF RunHook, Draining
<1>2. /\ ran' \in Seq(Nat)
      /\ Len(ran) \in Nat /\ Len(ran') = Len(ran) + 1
      /\ \A k \in 1 .. Len(ran') : toRun <= ran'[k]
      /\ \A j, k \in 1 .. Len(ran') : j < k => ran'[k] < ran'[j]
  BY <1>1, RanAppended
<1>3. toRun \in Nat /\ drainFrom \in Nat /\ toRun' \in Nat
  BY <1>1 DEF HostInv, HostTypeOK
<1>4. HostTypeOK' /\ Phased'
  BY <1>1, <1>2, <1>3 DEF HostInv, HostTypeOK, Phased, Early, Ordered
<1>5. Owned' /\ InOrder' /\ Shutdowns'
  BY <1>1, HooksStable DEF HostInv
<1>6. Drained'
  <2>1. \A k \in 1 .. Len(ran') : toRun' <= ran'[k] /\ toRun' < ran'[k]
    <3>1. \A k \in 1 .. Len(ran') : ran'[k] \in Nat
      BY <1>2, ElementOfSeq
    <3>. QED
      BY <1>1, <1>2, <1>3, <3>1
  <2>2. Len(ran') = drainFrom' - toRun' /\ toRun' <= drainFrom'
    <3>1. Len(ran) = drainFrom - toRun /\ toRun <= drainFrom
      BY <1>1 DEF HostInv, Drained
    <3>2. drainFrom' = drainFrom
      BY <1>1
    <3>. QED
      BY <1>1, <1>2, <1>3, <3>1, <3>2
  <2>. QED
    BY <1>1, <1>2, <2>1, <2>2 DEF HostInv, Drained, Draining
<1>. QED
  BY <1>4, <1>5, <1>6 DEF HostInv

LEMMA HookRaisesInv == ASSUME HostInv, HookRaises PROVE HostInv'
<1>1. /\ Draining /\ toRun > 0 /\ raised' = "hook"
      /\ ran' = ran \/ ran' = Append(ran, toRun)
      /\ (phase = "abort" /\ phase' = "raised") \/ (phase = "stop" /\ phase' = "stopped")
      /\ UNCHANGED <<orderVars, hooks, cursor, active, frozen, drainFrom, toRun,
                     startupError, blocked>>
  BY DEF HookRaises, Draining
<1>2. /\ ran' \in Seq(Nat)
      /\ \A k \in 1 .. Len(ran') : toRun <= ran'[k]
      /\ \A j, k \in 1 .. Len(ran') : j < k => ran'[k] < ran'[j]
  <2>1. CASE ran' = ran
    BY <2>1 DEF HostInv, HostTypeOK, Drained
  <2>2. CASE ran' = Append(ran, toRun)
    BY <1>1, <2>2, RanAppended
  <2>. QED
    BY <1>1, <2>1, <2>2
<1>3. HostTypeOK' /\ Phased'
  BY <1>1, <1>2 DEF HostInv, HostTypeOK, Phases, Phased, Early, Ordered
<1>4. Owned' /\ InOrder' /\ Shutdowns'
  BY <1>1, HooksStable DEF HostInv
<1>5. Drained'
  BY <1>1, <1>2 DEF HostInv, Drained, Draining
<1>. QED
  BY <1>3, <1>4, <1>5 DEF HostInv

LEMMA DrainEndsInv == ASSUME HostInv, DrainEnds PROVE HostInv'
<1>1. /\ Draining /\ toRun = 0
      /\ (phase = "abort" /\ phase' = "raised") \/ (phase = "stop" /\ phase' = "stopped")
      /\ UNCHANGED <<orderVars, hooks, cursor, active, frozen, drain, startupError, blocked>>
  BY DEF DrainEnds, Draining
<1>2. HostTypeOK' /\ Phased'
  BY <1>1 DEF HostInv, HostTypeOK, Phases, Phased, Early, Ordered
<1>3. Owned' /\ InOrder' /\ Shutdowns'
  BY <1>1, HooksStable DEF HostInv
<1>4. Drained'
  <2>1. Len(ran) = drainFrom
    BY <1>1 DEF HostInv, HostTypeOK, Drained
  <2>. QED
    BY <1>1, <2>1 DEF HostInv, Drained, Draining
<1>. QED
  BY <1>2, <1>3, <1>4 DEF HostInv

------------------------------------------------------------------------------
(* A call on the host is rejected, or registers a hook, or leaves the      *)
(* hooks alone; only an unfrozen host changes.                             *)
CallRejected == phase \in {"setup", "validate"} /\ StartupFails("rejected")

CallAccepted == ~frozen /\ InPluginCode /\ UNCHANGED elsewhere

LeavesHooks == CallAccepted /\ UNCHANGED hooks /\ blocked' \in {blocked, TRUE}

AddsHook ==
  /\ CallAccepted /\ UNCHANGED blocked
  /\ \E async \in BOOLEAN :
       hooks' = Append(hooks, [plugin |-> active, kind |-> "callback", async |-> async])

LEMMA HostCallEffect ==
  ASSUME HostTypeOK, HostCall PROVE CallRejected \/ LeavesHooks \/ AddsHook
<1>. USE DEF Registering, Rejected, CallRejected, CallAccepted
<1>1. ASSUME NEW key \in RouteKeys, RegisterRoute(key)
      PROVE  CallRejected \/ LeavesHooks
  BY <1>1 DEF RegisterRoute, LeavesHooks
<1>2. ASSUME NEW slot \in Slots, NEW order \in MiddlewareOrders,
             RegisterMiddleware(slot, order)
      PROVE  CallRejected \/ LeavesHooks
  BY <1>2 DEF RegisterMiddleware, LeavesHooks
<1>3. ASSUME NEW c \in Capabilities, ExposeCapability(c) \/ RequireCapability(c)
      PROVE  CallRejected \/ LeavesHooks
  BY <1>3 DEF ExposeCapability, RequireCapability, LeavesHooks
<1>4. ASSUME NEW x \in Points, NEW mode \in {"single", "multi"},
             DeclareExtensionPoint(x, mode)
      PROVE  CallRejected \/ LeavesHooks
  BY <1>4 DEF DeclareExtensionPoint, LeavesHooks
<1>5. ASSUME NEW x \in Points, NEW m \in Modules, Contribute(x, m)
      PROVE  CallRejected \/ LeavesHooks
  BY <1>5 DEF Contribute, LeavesHooks
<1>6. ASSUME NEW blocking \in BOOLEAN, AddStartupValidation(blocking)
      PROVE  CallRejected \/ LeavesHooks
  <2>1. CASE frozen
    BY <1>6, <2>1 DEF AddStartupValidation
  <2>2. CASE ~frozen
    <3>1. CallAccepted /\ UNCHANGED hooks
      BY <1>6, <2>2 DEF AddStartupValidation
    <3>2. blocked' = (blocked \/ blocking)
      BY <1>6, <2>2 DEF AddStartupValidation
    <3>3. blocked' \in {blocked, TRUE}
      BY <3>2, Zenon DEF HostTypeOK
    <3>. QED
      BY <3>1, <3>3 DEF LeavesHooks
  <2>. QED
    BY <2>1, <2>2
<1>7. ASSUME NEW async \in BOOLEAN, OnShutdown(async)
      PROVE  CallRejected \/ AddsHook
  BY <1>7 DEF OnShutdown, AddsHook
<1>8. ASSUME BadArgument PROVE CallRejected
  BY <1>8 DEF BadArgument
<1>. HIDE DEF CallRejected, CallAccepted, Registering, Rejected
<1>. QED
  BY <1>1, <1>2, <1>3, <1>4, <1>5, <1>6, <1>7, <1>8 DEF HostCall

LEMMA HostCallInv ==
  ASSUME OrderAssumption, OrderInv, HostInv, HostCall PROVE HostInv'
<1>1. CASE CallRejected
  BY <1>1, StartupFailsInv DEF CallRejected
<1>2. CASE AddsHook
  <2>1. PICK async \in BOOLEAN :
          hooks' = Append(hooks, [plugin |-> active, kind |-> "callback", async |-> async])
    BY <1>2 DEF AddsHook
  <2>2. active \in Owner
    BY OrderFields, OrderAssumption DEF HostInv, HostTypeOK, Phased, Owner
  <2>3. [plugin |-> active, kind |-> "callback", async |-> async] \in Hook
    BY <2>2 DEF Hook
  <2>4. ~frozen /\ ~Early
    BY <1>2 DEF AddsHook, CallAccepted, InPluginCode, Early
  <2>. QED
    BY <1>2, <2>1, <2>3, <2>4, CallbackRegisteredInv DEF AddsHook, CallAccepted, elsewhere
<1>3. CASE LeavesHooks
  <2>1. phase # "serving"
    BY <1>3 DEF LeavesHooks, CallAccepted, HostInv, Phased
  <2>2. /\ UNCHANGED <<orderVars, control, drain, outcome, hooks>>
        /\ blocked' \in {blocked, TRUE}
    BY <1>3 DEF LeavesHooks, CallAccepted, elsewhere
  <2>3. HostTypeOK' /\ Phased'
    BY <2>1, <2>2 DEF HostInv, HostTypeOK, Phased, Early, Ordered
  <2>4. Owned' /\ InOrder' /\ Shutdowns'
    BY <2>2, HooksStable DEF HostInv
  <2>5. Drained'
    BY <2>2, HookFields, DrainStable DEF HostInv
  <2>. QED
    BY <2>3, <2>4, <2>5 DEF HostInv
<1>. QED
  BY <1>1, <1>2, <1>3, HostCallEffect DEF HostInv


------------------------------------------------------------------------------
LEMMA StartupInitInv == ASSUME OrderAssumption, Init PROVE StartupInv
<1>1. OrderInv
  BY OrderInitInv DEF Init
<1>2. /\ phase = "checkIds" /\ cursor = 1 /\ active = 0 /\ frozen = FALSE
      /\ blocked = FALSE /\ hooks = << >> /\ ran = << >>
      /\ drainFrom = 0 /\ toRun = 0 /\ startupError = "none"
  BY DEF Init
<1>3. Len(hooks) = 0 /\ Len(ran) = 0 /\ Len(ordered) \in Nat
      /\ hooks \in Seq(Hook) /\ ran \in Seq(Nat)
  BY <1>1, <1>2, OrderFields, EmptySeq
<1>4. HostTypeOK /\ Phased
  <2>1. HostTypeOK
    <3>1. phase \in Phases /\ frozen \in BOOLEAN /\ blocked \in BOOLEAN
      BY <1>2 DEF Phases
    <3>2. cursor \in 1 .. Len(ordered) + 1 /\ drainFrom \in Nat /\ toRun \in Nat
      BY <1>2, <1>3
    <3>. QED
      BY <1>3, <3>1, <3>2 DEF HostTypeOK
  <2>2. Phased
    BY <1>2 DEF Phased, Early
  <2>. QED
    BY <2>1, <2>2
<1>5. Owned /\ InOrder /\ Shutdowns
  BY <1>2, <1>3 DEF Owned, InOrder, Shutdowns
<1>6. Drained
  BY <1>2, <1>3 DEF Drained, Draining
<1>. QED
  BY <1>1, <1>4, <1>5, <1>6 DEF StartupInv, HostInv

LEMMA StartupNextInv ==
  ASSUME OrderAssumption, StartupInv, [Next]_vars PROVE StartupInv'
<1>. USE DEF StartupInv
<1>1. OrderNext \/ UNCHANGED orderVars
  BY DEF Next, BuildStep, DrainStep, HostCall, CheckIds, OrderStep, OrderEnds, BeginSetup,
         EndSetup, SetupRaises, SetupExits, Freeze, Validate, ValidateRaises, AssertValid,
         StopRequested, TracingShutdown, RunHook, HookRaises, DrainEnds, StartupFails,
         RegisterRoute, RegisterMiddleware, ExposeCapability, RequireCapability,
         DeclareExtensionPoint, Contribute, AddStartupValidation, OnShutdown, BadArgument,
         Rejected, elsewhere, vars
<1>2. OrderInv'
  BY <1>1, OrderNextInv
<1>3. CASE BuildStep
  <2>1. CASE CheckIds
    BY <1>2, <2>1, CheckIdsInv
  <2>2. CASE OrderStep
    BY <1>2, <2>2, OrderStepInv
  <2>3. CASE OrderEnds
    BY <1>2, <2>3, OrderEndsInv
  <2>4. CASE BeginSetup
    BY <1>2, <2>4, BeginSetupInv
  <2>5. CASE \E async \in BOOLEAN : EndSetup(async)
    BY <1>2, <2>5, EndSetupInv
  <2>6. CASE SetupRaises \/ ValidateRaises
    BY <1>2, <2>6, StartupFailsInv DEF SetupRaises, ValidateRaises
  <2>7. CASE SetupExits
    BY <1>2, <2>7, SetupExitsInv
  <2>8. CASE Freeze
    BY <1>2, <2>8, FreezeInv
  <2>9. CASE \E blocking \in BOOLEAN : Validate(blocking)
    BY <1>2, <2>9, ValidateInv
  <2>10. CASE AssertValid
    BY <1>2, <2>10, AssertValidInv
  <2>. QED
    BY <1>2, <1>3, <2>1, <2>2, <2>3, <2>4, <2>5, <2>6, <2>7, <2>8, <2>9, <2>10 DEF BuildStep
<1>4. CASE HostCall
  BY <1>2, <1>4, HostCallInv
<1>5. CASE StopRequested
  BY <1>2, <1>5, StopRequestedInv
<1>6. CASE DrainStep
  BY <1>2, <1>6, TracingShutdownInv, RunHookInv, HookRaisesInv, DrainEndsInv DEF DrainStep
<1>7. CASE UNCHANGED vars
  <2>1. UNCHANGED <<orderVars, control, drain, outcome, hooks, blocked>>
    BY <1>7 DEF vars
  <2>2. HostTypeOK' /\ Phased'
    BY <2>1 DEF HostInv, HostTypeOK, Phased, Early, Ordered
  <2>3. Owned' /\ InOrder' /\ Shutdowns'
    BY <2>1, HooksStable DEF HostInv
  <2>4. Drained'
    BY <2>1, HookFields, DrainStable DEF HostInv
  <2>. QED
    BY <1>2, <2>2, <2>3, <2>4 DEF HostInv
<1>. QED
  BY <1>3, <1>4, <1>5, <1>6, <1>7 DEF Next

(* build() and the lifespan keep the list of hooks in step with the order  *)
(* of setup, and the drain in step with the list.                          *)
THEOREM StartupInvariant == Spec => []StartupInv
<1>1. Init => StartupInv
  BY OrderAssumption, StartupInitInv
<1>2. StartupInv /\ [Next]_vars => StartupInv'
  BY OrderAssumption, StartupNextInv
<1>. QED
  BY <1>1, <1>2, PTL DEF Spec

(* No plugin is torn down, by a failed startup or by the lifespan, before  *)
(* the plugins that require it.                                            *)
THEOREM DependentsAreStoppedFirst == Spec => []DependentsStopFirst
<1>1. StartupInv => DependentsStopFirst
  <2>. SUFFICES ASSUME StartupInv PROVE DependentsStopFirst
    OBVIOUS
  <2>. USE DEF StartupInv, HostInv
  <2>1. SUFFICES ASSUME NEW p \in Plugin, NEW d \in DependsOn(p) \ {0},
                        NEW i \in HooksOf(d), NEW k \in HooksOf(p),
                        HasRun(i), i # k
                 PROVE  k > toRun
    BY DEF DependentsStopFirst
  <2>2. /\ i \in 1 .. Len(hooks) /\ hooks[i].plugin = d /\ d # 0
        /\ k \in 1 .. Len(hooks) /\ hooks[k].plugin = p /\ p # 0
        /\ Len(hooks) \in Nat /\ Len(ordered) \in Nat
    BY <2>1, OrderAssumption, HookFields, OrderFields DEF HooksOf, Plugin
  <2>3. PICK a \in 1 .. Len(ordered) : d = ordered[a]
    BY <2>2 DEF Owned
  <2>4. PICK b \in 1 .. Len(ordered) : p = ordered[b]
    BY <2>2 DEF Owned
  <2>5. a < b
    <3>1. PICK c \in 1 .. b - 1 : ordered[c] = d
      BY <2>1, <2>4 DEF OrderInv, DependenciesFirst
    <3>2. c \in 1 .. Len(ordered)
      BY <2>2
    <3>3. c = a
      BY <2>3, <3>1, <3>2, OrderFields, OrderAssumption
    <3>. QED
      BY <3>1, <3>3
  <2>6. i < k
    <3>1. ~(k < i)
      BY <2>2, <2>3, <2>4, <2>5 DEF InOrder
    <3>. QED
      BY <2>1, <2>2, <3>1
  <2>7. toRun <= i /\ toRun \in Nat
    BY <2>1 DEF HasRun, Drained, HostTypeOK
  <2>. QED
    BY <2>2, <2>6, <2>7
<1>. QED
  BY <1>1, StartupInvariant, PTL

(* When startup fails, shutdown is called only on plugins whose setup had  *)
(* returned.                                                               *)
THEOREM ShutdownFollowsSetup == Spec => []ShutdownNeedsSetup
<1>1. StartupInv => ShutdownNeedsSetup
  BY DEF StartupInv, HostInv, Shutdowns, ShutdownNeedsSetup
<1>. QED
  BY <1>1, StartupInvariant, PTL

(* The application that build() returns has every plugin set up, with its  *)
(* shutdown registered once, on a frozen host that no validation blocks.   *)
THEOREM ServedIsComplete == Spec => []ServingIsComplete
<1>1. StartupInv => ServingIsComplete
  <2>. SUFFICES ASSUME StartupInv, phase = "serving" PROVE ServingIsComplete
    BY DEF ServingIsComplete
  <2>. USE DEF StartupInv, HostInv
  <2>1. frozen /\ ~blocked /\ active = 0 /\ startupError = "none" /\ Ordered /\ ran = << >>
    BY DEF Phased, Drained
  <2>2. ASSUME NEW p \in Plugin PROVE Cardinality(ShutdownHooksOf(p)) = 1
    <3>1. PICK k \in 1 .. Len(ordered) : ordered[k] = p
      BY <2>1, OrderAssumption, OrderInvComplete DEF OrderIsPermutation
    <3>2. PICK i \in 1 .. Len(hooks) : hooks[i].kind = "shutdown" /\ hooks[i].plugin = p
      BY <2>1, <3>1 DEF Shutdowns, IsShutdown
    <3>3. \A j \in 1 .. Len(hooks) :
            hooks[j].kind = "shutdown" /\ hooks[j].plugin = p => j = i
      BY <3>2 DEF Shutdowns, IsShutdown
    <3>4. ShutdownHooksOf(p) = {i}
      BY <3>2, <3>3 DEF ShutdownHooksOf
    <3>. QED
      BY <3>4, FS_Singleton
  <2>. QED
    BY <2>1, <2>2 DEF ServingIsComplete
<1>. QED
  BY <1>1, StartupInvariant, PTL

LEMMA FrozenStep ==
  ASSUME StartupInv, [Next]_vars, frozen
  PROVE  UNCHANGED <<registrations, frozen>>
<1>1. phase \notin {"checkIds", "order", "setup", "exited"}
  BY DEF StartupInv, HostInv, Phased, Early
<1>2. CASE BuildStep
  BY <1>1, <1>2 DEF BuildStep, CheckIds, OrderStep, OrderEnds, BeginSetup, EndSetup,
                    SetupRaises, SetupExits, Freeze, Validate, ValidateRaises,
                    AssertValid, StartupFails
<1>3. CASE HostCall
  <2>1. CallRejected
    BY <1>3, HostCallEffect DEF StartupInv, HostInv, LeavesHooks, AddsHook, CallAccepted
  <2>. QED
    BY <2>1 DEF CallRejected, StartupFails
<1>4. CASE StopRequested \/ DrainStep
  BY <1>4 DEF StopRequested, DrainStep, TracingShutdown, RunHook, HookRaises, DrainEnds
<1>5. CASE UNCHANGED vars
  BY <1>5 DEF vars
<1>. QED
  BY <1>2, <1>3, <1>4, <1>5 DEF Next

(* Whatever plugin code that kept the host calls on it after the freeze,   *)
(* no registration changes.                                                *)
THEOREM FrozenForGood == Spec => FrozenHostIsImmutable
<1>1. StartupInv /\ [Next]_vars => (frozen => UNCHANGED <<registrations, frozen>>)
  BY FrozenStep
<1>2. StartupInv /\ [Next]_vars => [frozen => UNCHANGED <<registrations, frozen>>]_vars
  BY <1>1
<1>. QED
  BY <1>2, StartupInvariant, PTL DEF Spec, FrozenHostIsImmutable

(* The drain of an application that stops began with all its hooks.        *)
FullDrain == phase \in {"stop", "stopped"} => drainFrom = Len(hooks)

LEMMA FullDrainStep ==
  ASSUME StartupInv, FullDrain, [Next]_vars PROVE FullDrain'
<1>1. frozen => UNCHANGED <<registrations, frozen>>
  BY FrozenStep
<1>2. phase \in {"stopTracing", "stop", "stopped"} => UNCHANGED hooks
  BY <1>1 DEF StartupInv, HostInv, Phased
<1>3. CASE BuildStep
  <2>1. phase' \notin {"stop", "stopped"}
    BY <1>3 DEF BuildStep, CheckIds, OrderStep, OrderEnds, BeginSetup, EndSetup, SetupRaises,
                SetupExits, Freeze, Validate, ValidateRaises, AssertValid, StartupFails, BeginDrain
  <2>. QED
    BY <2>1 DEF FullDrain
<1>4. CASE HostCall
  <2>1. CallRejected \/ CallAccepted
    BY <1>4, HostCallEffect DEF StartupInv, HostInv, AddsHook, LeavesHooks
  <2>2. CASE CallRejected
    BY <2>2 DEF CallRejected, StartupFails, BeginDrain, FullDrain
  <2>3. CASE CallAccepted
    BY <1>2, <2>3 DEF CallAccepted, elsewhere, FullDrain
  <2>. QED
    BY <2>1, <2>2, <2>3
<1>5. CASE StopRequested
  BY <1>5 DEF StopRequested, FullDrain
<1>6. CASE DrainStep
  BY <1>2, <1>6 DEF DrainStep, TracingShutdown, BeginDrain, RunHook, HookRaises, DrainEnds, FullDrain
<1>7. CASE UNCHANGED vars
  BY <1>7 DEF vars, FullDrain
<1>. QED
  BY <1>3, <1>4, <1>5, <1>6, <1>7 DEF Next

(* Hooks run in reverse order of registration, and all of them unless one  *)
(* raises.                                                                 *)
THEOREM HooksRunBackwards == Spec => []DrainIsReversed
<1>1. StartupInv /\ FullDrain => DrainIsReversed
  BY DEF StartupInv, HostInv, Drained, FullDrain, DrainIsReversed
<1>2. Init => FullDrain
  BY DEF Init, FullDrain
<1>3. StartupInv /\ FullDrain /\ [Next]_vars => FullDrain'
  BY FullDrainStep
<1>. QED
  BY <1>1, <1>2, <1>3, StartupInvariant, PTL DEF Spec

------------------------------------------------------------------------------
(* The registries of the host.  An undeclared extension point has no       *)
(* contribution, so that one declared "single" begins without any.         *)

Route == [key : RouteKeys, plugin : Owner]

KeysOnce == \A i, j \in 1 .. Len(routes) : routes[i].key = routes[j].key => i = j

ExposedOnce == \A d, e \in capabilities : d.id = e.id => d = e

Contributed ==
  \A x \in Points, m \in Modules :
    /\ points[x] = "none" => contributions[<<x, m>>] = 0
    /\ points[x] = "single" => contributions[<<x, m>>] <= 1

RegInv ==
  /\ routes \in Seq(Route) /\ KeysOnce
  /\ ExposedOnce
  /\ points \in [Points -> {"none", "single", "multi"}]
  /\ contributions \in [Points \X Modules -> Nat]
  /\ Contributed

(* What a step does to the registries, besides keeping them well formed.   *)
Growth ==
  /\ Extends(routes', routes)
  /\ capabilities \subseteq capabilities'
  /\ \A x \in Points : points[x] # "none" => points'[x] = points[x]

registries == <<routes, capabilities, points, contributions>>

LEMMA ExtendsItself == ASSUME RegInv PROVE Extends(routes, routes)
<1>1. routes \in Seq(Route) /\ Len(routes) \in Nat
  BY LenProperties DEF RegInv
<1>2. SubSeq(routes, 1, Len(routes)) = routes
  BY <1>1, SubSeqFull
<1>. QED
  BY <1>1, <1>2 DEF Extends

LEMMA RegistriesStable ==
  ASSUME RegInv, UNCHANGED registries PROVE RegInv' /\ Growth
<1>1. Extends(routes', routes)
  BY ExtendsItself DEF registries
<1>2. RegInv'
  BY DEF registries, RegInv, KeysOnce, ExposedOnce, Contributed
<1>. QED
  BY <1>1, <1>2 DEF registries, Growth

LEMMA RouteAdded ==
  ASSUME RegInv, NEW r \in Route, ~RouteTaken(r.key), routes' = Append(routes, r),
         UNCHANGED <<capabilities, points, contributions>>
  PROVE  RegInv' /\ Growth
<1>. DEFINE n == Len(routes)
<1>1. routes \in Seq(Route) /\ n \in Nat
  BY LenProperties DEF RegInv
<1>2. /\ routes' \in Seq(Route) /\ Len(routes') = n + 1
      /\ \A i \in 1 .. n : routes'[i] = routes[i]
      /\ routes'[n + 1] = r
  BY <1>1, AppendProperties
<1>3. KeysOnce'
  <2>1. \A i \in 1 .. n : routes'[i].key # r.key
    BY <1>2 DEF RouteTaken
  <2>2. SUFFICES ASSUME NEW i \in 1 .. n + 1, NEW j \in 1 .. n + 1,
                        routes'[i].key = routes'[j].key
                 PROVE  i = j
    BY <1>2 DEF KeysOnce
  <2>3. CASE i \in 1 .. n /\ j \in 1 .. n
    BY <1>2, <2>2, <2>3 DEF RegInv, KeysOnce
  <2>4. CASE i = n + 1 \/ j = n + 1
    BY <1>1, <1>2, <2>1, <2>2, <2>4
  <2>. QED
    BY <1>1, <2>3, <2>4
<1>4. Extends(routes', routes)
  <2>. DEFINE head == SubSeq(routes', 1, n)
  <2>1. \A i \in 1 .. n : routes[i] \in Route
    BY <1>1, ElementOfSeq
  <2>2. \A i \in 1 .. n : routes'[i] \in Route
    BY <1>2, <2>1
  <2>3. /\ head \in Seq(Route) /\ Len(head) = n
        /\ \A i \in 1 .. n : head[i] = routes'[i]
    BY <1>1, <2>2, SubSeqProperties
  <2>. HIDE DEF head
  <2>4. head = routes
    BY <1>1, <1>2, <2>3, SeqEqual
  <2>. QED
    BY <1>1, <1>2, <2>4 DEF Extends, head
<1>5. RegInv'
  BY <1>2, <1>3 DEF RegInv, ExposedOnce, Contributed
<1>. QED
  BY <1>4, <1>5 DEF Growth

LEMMA CapabilityAdded ==
  ASSUME RegInv, NEW c, ~Exposed(c), NEW p,
         capabilities' = capabilities \cup {[id |-> c, plugin |-> p]},
         UNCHANGED <<routes, points, contributions>>
  PROVE  RegInv' /\ Growth
<1>1. ExposedOnce'
  BY DEF RegInv, ExposedOnce, Exposed
<1>2. RegInv'
  BY <1>1 DEF RegInv, KeysOnce, Contributed
<1>. QED
  BY <1>2, ExtendsItself DEF Growth

LEMMA PointDeclared ==
  ASSUME RegInv, NEW x \in Points, NEW mode \in {"single", "multi"}, points[x] = "none",
         points' = [points EXCEPT ![x] = mode],
         UNCHANGED <<routes, capabilities, contributions>>
  PROVE  RegInv' /\ Growth
<1>1. /\ points' \in [Points -> {"none", "single", "multi"}] /\ points'[x] = mode
      /\ \A y \in Points : y # x => points'[y] = points[y]
  BY DEF RegInv
<1>2. Contributed'
  <2>. SUFFICES ASSUME NEW y \in Points, NEW m \in Modules
                PROVE  /\ points'[y] = "none" => contributions[<<y, m>>] = 0
                       /\ points'[y] = "single" => contributions[<<y, m>>] <= 1
    BY DEF Contributed
  <2>1. CASE y = x
    BY <1>1, <2>1 DEF RegInv, Contributed
  <2>2. CASE y # x
    BY <1>1, <2>2 DEF RegInv, Contributed
  <2>. QED
    BY <2>1, <2>2
<1>3. RegInv'
  BY <1>1, <1>2 DEF RegInv, KeysOnce, ExposedOnce
<1>. QED
  BY <1>1, <1>3, ExtendsItself DEF Growth

LEMMA ValueContributed ==
  ASSUME RegInv, NEW x \in Points, NEW m \in Modules, points[x] # "none",
         points[x] = "single" => contributions[<<x, m>>] = 0,
         contributions' = [contributions EXCEPT ![<<x, m>>] = @ + 1],
         UNCHANGED <<routes, capabilities, points>>
  PROVE  RegInv' /\ Growth
<1>1. <<x, m>> \in Points \X Modules /\ contributions[<<x, m>>] \in Nat
  BY DEF RegInv
<1>2. /\ contributions' \in [Points \X Modules -> Nat]
      /\ contributions'[<<x, m>>] = contributions[<<x, m>>] + 1
      /\ \A k \in Points \X Modules : k # <<x, m>> => contributions'[k] = contributions[k]
  BY <1>1 DEF RegInv
<1>3. Contributed'
  <2>. SUFFICES ASSUME NEW y \in Points, NEW w \in Modules
                PROVE  /\ points[y] = "none" => contributions'[<<y, w>>] = 0
                       /\ points[y] = "single" => contributions'[<<y, w>>] <= 1
    BY DEF Contributed
  <2>1. CASE y = x /\ w = m
    BY <1>2, <2>1
  <2>2. CASE ~(y = x /\ w = m)
    <3>1. <<y, w>> # <<x, m>> /\ <<y, w>> \in Points \X Modules
      BY <2>2
    <3>2. contributions'[<<y, w>>] = contributions[<<y, w>>]
      BY <1>2, <3>1
    <3>. QED
      BY <3>2 DEF RegInv, Contributed
  <2>. QED
    BY <2>1, <2>2
<1>4. RegInv'
  BY <1>2, <1>3 DEF RegInv, KeysOnce, ExposedOnce
<1>. QED
  BY <1>4, ExtendsItself DEF Growth

LEMMA ActiveIsOwner == ASSUME OrderAssumption, StartupInv PROVE active \in Owner
BY OrderFields DEF StartupInv, HostInv, HostTypeOK, Phased, Owner

LEMMA HostCallGrowth ==
  ASSUME OrderAssumption, StartupInv, RegInv, HostCall PROVE RegInv' /\ Growth
<1>1. CASE Rejected
  BY <1>1, RegistriesStable DEF Rejected, StartupFails, registries
<1>2. ASSUME NEW key \in RouteKeys, RegisterRoute(key)
      PROVE  RegInv' /\ Growth
  <2>1. CASE ~Rejected
    <3>. DEFINE r == [key |-> key, plugin |-> active]
    <3>1. r \in Route /\ r.key = key
      BY ActiveIsOwner DEF Route
    <3>2. /\ ~RouteTaken(key) /\ routes' = Append(routes, r)
          /\ UNCHANGED <<capabilities, points, contributions>>
      BY <1>2, <2>1 DEF RegisterRoute
    <3>. HIDE DEF r
    <3>. QED
      BY <3>1, <3>2, RouteAdded
  <2>. QED
    BY <1>1, <2>1
<1>3. ASSUME NEW slot \in Slots, NEW order \in MiddlewareOrders, RegisterMiddleware(slot, order)
      PROVE  RegInv' /\ Growth
  BY <1>1, <1>3, RegistriesStable DEF RegisterMiddleware, registries
<1>4. ASSUME NEW c \in Capabilities, ExposeCapability(c) \/ RequireCapability(c)
      PROVE  RegInv' /\ Growth
  <2>1. CASE ~Rejected
    <3>1. /\ ~Exposed(c) /\ capabilities' = capabilities \cup {[id |-> c, plugin |-> active]}
          /\ UNCHANGED <<routes, points, contributions>>
      BY <1>4, <2>1 DEF ExposeCapability, RequireCapability
    <3>. QED
      BY <3>1, CapabilityAdded
  <2>. QED
    BY <1>1, <2>1
<1>5. ASSUME NEW x \in Points, NEW mode \in {"single", "multi"}, DeclareExtensionPoint(x, mode)
      PROVE  RegInv' /\ Growth
  <2>1. CASE ~Rejected
    <3>1. /\ points[x] = "none" /\ points' = [points EXCEPT ![x] = mode]
          /\ UNCHANGED <<routes, capabilities, contributions>>
      BY <1>5, <2>1 DEF DeclareExtensionPoint
    <3>. QED
      BY <3>1, PointDeclared
  <2>. QED
    BY <1>1, <2>1
<1>6. ASSUME NEW x \in Points, NEW m \in Modules, Contribute(x, m)
      PROVE  RegInv' /\ Growth
  <2>1. CASE ~Rejected
    <3>1. /\ points[x] # "none" /\ (points[x] = "single" => contributions[<<x, m>>] = 0)
          /\ contributions' = [contributions EXCEPT ![<<x, m>>] = @ + 1]
          /\ UNCHANGED <<routes, capabilities, points>>
      BY <1>6, <2>1 DEF Contribute
    <3>. QED
      BY <3>1, ValueContributed
  <2>. QED
    BY <1>1, <2>1
<1>7. ASSUME NEW blocking \in BOOLEAN, AddStartupValidation(blocking)
      PROVE  RegInv' /\ Growth
  BY <1>1, <1>7, RegistriesStable DEF AddStartupValidation, registries
<1>8. ASSUME NEW async \in BOOLEAN, OnShutdown(async)
      PROVE  RegInv' /\ Growth
  BY <1>1, <1>8, RegistriesStable DEF OnShutdown, registries
<1>9. ASSUME BadArgument PROVE RegInv' /\ Growth
  BY <1>1, <1>9 DEF BadArgument
<1>. QED
  BY <1>2, <1>3, <1>4, <1>5, <1>6, <1>7, <1>8, <1>9 DEF HostCall

LEMMA NextGrowth ==
  ASSUME OrderAssumption, StartupInv, RegInv, [Next]_vars PROVE RegInv' /\ Growth
<1>1. CASE HostCall
  BY <1>1, HostCallGrowth
<1>2. CASE BuildStep
  <2>1. UNCHANGED registries
    BY <1>2 DEF BuildStep, CheckIds, OrderStep, OrderEnds, BeginSetup, EndSetup, SetupRaises,
                SetupExits, Freeze, Validate, ValidateRaises, AssertValid, StartupFails,
                registries
  <2>. QED
    BY <2>1, RegistriesStable
<1>3. CASE StopRequested \/ DrainStep
  <2>1. UNCHANGED registries
    BY <1>3 DEF StopRequested, DrainStep, TracingShutdown, RunHook, HookRaises, DrainEnds,
                registries
  <2>. QED
    BY <2>1, RegistriesStable
<1>4. CASE UNCHANGED vars
  BY <1>4, RegistriesStable DEF vars, registries
<1>. QED
  BY <1>1, <1>2, <1>3, <1>4 DEF Next

LEMMA InitRegistries == ASSUME Init PROVE RegInv
<1>1. routes = << >> /\ << >> \in Seq(Route) /\ Len(<< >>) = 0
  BY EmptySeq DEF Init
<1>. QED
  BY <1>1 DEF Init, RegInv, KeysOnce, ExposedOnce, Contributed

(* register_custom_route, expose_capability, declare_extension_point and   *)
(* contribute: whatever plugins call and in whatever order, no later call  *)
(* replaces, removes or doubles what an earlier one registered, and an     *)
(* extension point of mode "single" never has two values for a module.     *)
THEOREM RegistrationsAreForGood == Spec => RegistrationsOnlyGrow
<1>1. StartupInv /\ RegInv /\ [Next]_vars => RegInv' /\ Growth
  BY OrderAssumption, NextGrowth
<1>2. StartupInv /\ RegInv /\ [Next]_vars =>
        [/\ Extends(routes', routes)
         /\ \A i, j \in 1 .. Len(routes') : routes'[i].key = routes'[j].key => i = j
         /\ capabilities \subseteq capabilities'
         /\ \A d, e \in capabilities' : d.id = e.id => d = e
         /\ \A x \in Points : points[x] # "none" => points'[x] = points[x]
         /\ \A x \in Points, m \in Modules :
              points'[x] = "single" => contributions'[<<x, m>>] <= 1]_vars
  BY <1>1 DEF RegInv, Growth, KeysOnce, ExposedOnce, Contributed
<1>. QED
  BY <1>1, <1>2, InitRegistries, StartupInvariant, PTL DEF Spec, RegistrationsOnlyGrow

------------------------------------------------------------------------------
(* middlewares_for_slot sorts: RunsBefore is a total order, so the numbers *)
(* of middlewares that run before each one are 0, 1, 2, ...                *)

InSlot(slot) == {i \in 1 .. Len(middlewares) : middlewares[i].slot = slot}

MwTypes == middlewares \in Seq(Middleware)

LEMMA RunsBeforeIsTotal ==
  ASSUME StartupAssumption, MwTypes
  PROVE  /\ Len(middlewares) \in Nat
         /\ \A i \in 1 .. Len(middlewares) : ~RunsBefore(i, i)
         /\ \A i, j \in 1 .. Len(middlewares) : i = j \/ RunsBefore(i, j) \/ RunsBefore(j, i)
         /\ \A i, j, k \in 1 .. Len(middlewares) :
              RunsBefore(i, j) /\ RunsBefore(j, k) => RunsBefore(i, k)
<1>1. Len(middlewares) \in Nat
  BY LenProperties DEF MwTypes
<1>2. \A i \in 1 .. Len(middlewares) : middlewares[i].order \in Nat
  <2>1. \A i \in 1 .. Len(middlewares) : middlewares[i] \in Middleware
    BY ElementOfSeq DEF MwTypes
  <2>. QED
    BY <2>1 DEF Middleware, StartupAssumption
<1>. QED
  BY <1>1, <1>2 DEF RunsBefore

LEMMA SlotIsSorted ==
  ASSUME StartupAssumption, MwTypes, NEW slot,
         NEW order, order = MiddlewaresForSlot(slot)
  PROVE  /\ order \in Seq(Nat)
         /\ \A k \in 1 .. Len(order) : order[k] \in InSlot(slot)
         /\ \A k, l \in 1 .. Len(order) : k < l => RunsBefore(order[k], order[l])
<1>. DEFINE S == InSlot(slot)
            n == Cardinality(S)
            Earlier(i) == {j \in S : RunsBefore(j, i)}
            Rank(i) == Cardinality(Earlier(i))
            At(k) == CHOOSE i \in S : Rank(i) = k - 1
<1>1. IsFiniteSet(S) /\ n \in Nat
  <2>1. IsFiniteSet(1 .. Len(middlewares))
    BY RunsBeforeIsTotal, FS_Interval
  <2>2. S \in SUBSET (1 .. Len(middlewares))
    BY DEF InSlot
  <2>. QED
    BY <2>1, <2>2, FS_Subset, FS_CardinalityType
<1>2. /\ S \subseteq 1 .. Len(middlewares) /\ S \subseteq Nat
      /\ \A i \in S : ~RunsBefore(i, i)
      /\ \A i, j \in S : i = j \/ RunsBefore(i, j) \/ RunsBefore(j, i)
      /\ \A i, j, k \in S : RunsBefore(i, j) /\ RunsBefore(j, k) => RunsBefore(i, k)
  BY RunsBeforeIsTotal DEF InSlot
<1>3. order = [k \in 1 .. n |-> At(k)]
  BY DEF MiddlewaresForSlot, InSlot
<1>n. n = Cardinality(S)
  OBVIOUS
<1>. HIDE DEF S, n
<1>4. ASSUME NEW i \in S
      PROVE  IsFiniteSet(Earlier(i)) /\ Rank(i) \in 0 .. n - 1
  <2>1. Earlier(i) \in SUBSET (S \ {i})
    BY <1>2
  <2>2. IsFiniteSet(S \ {i}) /\ Cardinality(S \ {i}) = n - 1
    BY <1>1, <1>n, FS_RemoveElement
  <2>. HIDE DEF Earlier
  <2>3. IsFiniteSet(Earlier(i)) /\ Cardinality(Earlier(i)) <= n - 1
    BY <2>1, <2>2, FS_Subset
  <2>4. Cardinality(Earlier(i)) \in Nat
    BY <2>3, FS_CardinalityType
  <2>. QED
    BY <1>1, <2>3, <2>4
<1>5. ASSUME NEW i \in S, NEW j \in S, RunsBefore(i, j)
      PROVE  Rank(i) < Rank(j)
  <2>1. Earlier(i) \in SUBSET Earlier(j) /\ i \in Earlier(j) /\ i \notin Earlier(i)
    BY <1>2, <1>5
  <2>2. IsFiniteSet(Earlier(i)) /\ IsFiniteSet(Earlier(j))
    BY <1>4
  <2>. HIDE DEF Earlier
  <2>r. Rank(i) \in Nat /\ Rank(j) \in Nat
    BY <2>2, FS_CardinalityType
  <2>3. Rank(i) <= Rank(j) /\ Rank(i) # Rank(j)
    BY <2>1, <2>2, FS_Subset
  <2>. QED
    BY <2>r, <2>3
<1>r. n - 1 \in Int /\ \A i \in S : Rank(i) \in 0 .. n - 1
  BY <1>1, <1>4
<1>. HIDE DEF Rank
<1>6. \A k \in 1 .. n : \E i \in S : Rank(i) = k - 1
  <2>. DEFINE T == 0 .. n - 1
              f == [i \in S |-> Rank(i)]
  <2>1. IsFiniteSet(T) /\ Cardinality(T) = n
    <3>1. 0 \in Int /\ n - 1 \in Int /\ (0 > n - 1 => n = 0) /\ (n - 1) - 0 + 1 = n
      BY <1>1
    <3>. DEFINE last == n - 1
    <3>2. 0 \in Int /\ last \in Int
      BY <3>1
    <3>. HIDE DEF last
    <3>3. IsFiniteSet(0 .. last) /\ Cardinality(0 .. last) = IF 0 > last THEN 0 ELSE last - 0 + 1
      BY <3>2, FS_Interval
    <3>. QED
      BY <1>1, <3>1, <3>3 DEF last
  <2>2. f \in [S -> T]
    BY <1>4
  <2>3. \A i, j \in S : f[i] = f[j] => i = j
    <3>. SUFFICES ASSUME NEW i \in S, NEW j \in S, Rank(i) = Rank(j) PROVE i = j
      OBVIOUS
    <3>1. Rank(i) \in 0 .. n - 1 /\ n - 1 \in Int
      BY <1>r
    <3>2. ~RunsBefore(i, j) /\ ~RunsBefore(j, i)
      BY <1>5, <3>1
    <3>. QED
      BY <1>2, <3>2
  <2>. HIDE DEF f
  <2>4. f \in Injection(S, T)
    BY <2>2, <2>3 DEF Injection, IsInjective
  <2>. HIDE DEF T
  <2>5. f \in Surjection(S, T)
    BY <1>n, <2>1, <2>4, FS_Injection
  <2>6. \A t \in T : \E i \in S : f[i] = t
    BY <2>5 DEF Surjection
  <2>7. \A k \in 1 .. n : k - 1 \in T
    BY <1>1 DEF T
  <2>. QED
    BY <2>6, <2>7 DEF f
<1>7. \A k \in 1 .. n : At(k) \in S /\ Rank(At(k)) = k - 1
  BY <1>6
<1>. HIDE DEF At
<1>8. order \in Seq(Nat) /\ Len(order) = n /\ \A k \in 1 .. n : order[k] = At(k)
  <2>1. \A k \in 1 .. n : At(k) \in Nat
    BY <1>2, <1>7
  <2>. QED
    BY <1>1, <1>3, <2>1, IsASeq
<1>9. ASSUME NEW k \in 1 .. n, NEW l \in 1 .. n, k < l
      PROVE  RunsBefore(At(k), At(l))
  <2>1. At(k) \in S /\ At(l) \in S /\ Rank(At(k)) = k - 1 /\ Rank(At(l)) = l - 1
    BY <1>7
  <2>2. n \in Nat /\ k \in Nat /\ l \in Nat
    BY <1>1
  <2>3. Rank(At(k)) < Rank(At(l))
    BY <1>9, <2>1, <2>2
  <2>4. ~RunsBefore(At(l), At(k)) /\ At(k) # At(l)
    BY <1>5, <2>1, <2>2, <2>3
  <2>. QED
    BY <1>2, <2>1, <2>4
<1>10. \A k \in 1 .. n : order[k] \in InSlot(slot)
  BY <1>7, <1>8 DEF S
<1>. QED
  BY <1>8, <1>9, <1>10

(* The stack: the three slots one inside the other.                        *)
Nests(i, j) ==
  \/ SlotRank(middlewares[i].slot) < SlotRank(middlewares[j].slot)
  \/ middlewares[i].slot = middlewares[j].slot /\ RunsBefore(i, j)

IsIndex(i) == i \in 1 .. Len(middlewares)

Glued(w, a, b, c, x, y, z) ==
  /\ a \in Seq(Nat) /\ b \in Seq(Nat) /\ c \in Seq(Nat) /\ w = a \o b \o c
  /\ x = Len(a) /\ y = Len(b) /\ z = Len(c)

Joined(w, a, b, c, x, y, z) ==
  /\ w \in Seq(Nat) /\ x \in Nat /\ y \in Nat /\ z \in Nat /\ Len(w) = x + y + z
  /\ \A k \in 1 .. x : w[k] = a[k]
  /\ \A k \in 1 .. y : w[x + k] = b[k]
  /\ \A k \in 1 .. z : w[(x + y) + k] = c[k]

LEMMA ConcatOfThree ==
  ASSUME NEW w, NEW a, NEW b, NEW c, NEW x, NEW y, NEW z, Glued(w, a, b, c, x, y, z)
  PROVE  Joined(w, a, b, c, x, y, z)
<1>. DEFINE ab == a \o b
<1>0. /\ a \in Seq(Nat) /\ b \in Seq(Nat) /\ c \in Seq(Nat) /\ w = a \o b \o c
      /\ x = Len(a) /\ y = Len(b) /\ z = Len(c)
  BY DEF Glued
<1>1. x \in Nat /\ y \in Nat /\ z \in Nat
  BY <1>0, LenProperties
<1>2. /\ ab \in Seq(Nat) /\ Len(ab) = x + y
      /\ \A k \in 1 .. x + y : ab[k] = IF k <= x THEN a[k] ELSE b[k - x]
  BY <1>0, ConcatProperties
<1>3. w = ab \o c
  BY <1>0
<1>. HIDE DEF ab
<1>4. /\ w \in Seq(Nat) /\ Len(w) = (x + y) + z
      /\ \A k \in 1 .. (x + y) + z : w[k] = IF k <= x + y THEN ab[k] ELSE c[k - (x + y)]
  <2>1. /\ ab \o c \in Seq(Nat) /\ Len(ab \o c) = Len(ab) + Len(c)
        /\ \A k \in 1 .. Len(ab) + Len(c) :
             (ab \o c)[k] = IF k <= Len(ab) THEN ab[k] ELSE c[k - Len(ab)]
    <3>1. ab \in Seq(Nat) /\ c \in Seq(Nat)
      BY <1>0, <1>2
    <3>. QED
      BY <3>1, ConcatProperties
  <2>. QED
    BY <1>0, <1>2, <1>3, <2>1
<1>5. ASSUME NEW k \in 1 .. x PROVE w[k] = a[k]
  <2>1. k \in 1 .. x + y /\ k \in 1 .. (x + y) + z /\ k <= x + y /\ k <= x
    BY <1>1
  <2>. QED
    BY <1>2, <1>4, <2>1
<1>6. ASSUME NEW k \in 1 .. y PROVE w[x + k] = b[k]
  <2>. DEFINE m == x + k
  <2>1. m \in 1 .. x + y /\ m \in 1 .. (x + y) + z /\ m <= x + y /\ ~(m <= x) /\ m - x = k
    BY <1>1
  <2>. HIDE DEF m
  <2>2. w[m] = b[k]
    BY <1>2, <1>4, <2>1
  <2>. QED
    BY <2>2 DEF m
<1>7. ASSUME NEW k \in 1 .. z PROVE w[(x + y) + k] = c[k]
  <2>. DEFINE m == (x + y) + k
  <2>1. m \in 1 .. (x + y) + z /\ ~(m <= x + y) /\ m - (x + y) = k
    BY <1>1
  <2>. HIDE DEF m
  <2>2. w[m] = c[k]
    BY <1>4, <2>1
  <2>. QED
    BY <2>2 DEF m
<1>. QED
  BY <1>1, <1>4, <1>5, <1>6, <1>7 DEF Joined

Sorted(s, slot) ==
  /\ s \in Seq(Nat)
  /\ \A k \in 1 .. Len(s) : IsIndex(s[k]) /\ middlewares[s[k]].slot = slot
  /\ \A k, l \in 1 .. Len(s) : k < l => RunsBefore(s[k], s[l])

LEMMA StackIsSorted ==
  ASSUME StartupAssumption, MwTypes,
         NEW whole, whole = MiddlewaresForSlot("preRouting") \o MiddlewaresForSlot("preHandler")
                              \o MiddlewaresForSlot("postHandler")
  PROVE  /\ whole \in Seq(Nat)
         /\ \A k \in 1 .. Len(whole) : IsIndex(whole[k])
         /\ \A k, l \in 1 .. Len(whole) : k < l => Nests(whole[k], whole[l])
<1>. DEFINE a == MiddlewaresForSlot("preRouting")
            b == MiddlewaresForSlot("preHandler")
            c == MiddlewaresForSlot("postHandler")
            x == Len(a)
            y == Len(b)
            z == Len(c)
<1>1. Sorted(a, "preRouting") /\ Sorted(b, "preHandler") /\ Sorted(c, "postHandler")
  <2>1. ASSUME NEW slot, NEW s, s = MiddlewaresForSlot(slot)
        PROVE  Sorted(s, slot)
    <3>1. /\ s \in Seq(Nat)
          /\ \A k \in 1 .. Len(s) : s[k] \in InSlot(slot)
          /\ \A k, l \in 1 .. Len(s) : k < l => RunsBefore(s[k], s[l])
      BY <2>1, SlotIsSorted
    <3>. QED
      BY <3>1 DEF Sorted, InSlot, IsIndex
  <2>. QED
    BY <2>1
<1>2. whole = a \o b \o c /\ a \in Seq(Nat) /\ b \in Seq(Nat) /\ c \in Seq(Nat)
  BY <1>1 DEF Sorted
<1>. HIDE DEF a, b, c
<1>3. x = Len(a) /\ y = Len(b) /\ z = Len(c)
  OBVIOUS
<1>. HIDE DEF x, y, z
<1>4. /\ whole \in Seq(Nat) /\ x \in Nat /\ y \in Nat /\ z \in Nat /\ Len(whole) = x + y + z
      /\ \A k \in 1 .. x : whole[k] = a[k]
      /\ \A k \in 1 .. y : whole[x + k] = b[k]
      /\ \A k \in 1 .. z : whole[(x + y) + k] = c[k]
  <2>1. Glued(whole, a, b, c, x, y, z)
    BY <1>2, <1>3 DEF Glued
  <2>2. Joined(whole, a, b, c, x, y, z)
    BY <2>1, ConcatOfThree
  <2>. QED
    BY <2>2 DEF Joined
<1>. DEFINE P(i, slot) == IsIndex(i) /\ middlewares[i].slot = slot
<1>5. ASSUME NEW k \in 1 .. x PROVE P(whole[k], "preRouting")
  <2>1. P(a[k], "preRouting")
    BY <1>1, <1>3 DEF Sorted
  <2>. QED
    BY <1>4, <2>1
<1>6. ASSUME NEW k \in x + 1 .. x + y
      PROVE  k - x \in 1 .. y /\ whole[k] = b[k - x] /\ P(whole[k], "preHandler")
  <2>. DEFINE i == k - x
  <2>1. i \in 1 .. y /\ k = x + i
    BY <1>4
  <2>. HIDE DEF i
  <2>2. whole[k] = b[i] /\ P(b[i], "preHandler")
    BY <1>1, <1>3, <1>4, <2>1 DEF Sorted
  <2>. QED
    BY <2>1, <2>2 DEF i
<1>7. ASSUME NEW k \in x + y + 1 .. x + y + z
      PROVE  /\ k - (x + y) \in 1 .. z /\ whole[k] = c[k - (x + y)]
             /\ P(whole[k], "postHandler")
  <2>. DEFINE i == k - (x + y)
  <2>1. i \in 1 .. z /\ k = (x + y) + i
    BY <1>4
  <2>. HIDE DEF i
  <2>2. whole[k] = c[i] /\ P(c[i], "postHandler")
    BY <1>1, <1>3, <1>4, <2>1 DEF Sorted
  <2>. QED
    BY <2>1, <2>2 DEF i
<1>8. ASSUME NEW i, NEW j, NEW outer, NEW inner, P(i, outer), P(j, inner),
             \/ outer = "preRouting" /\ inner \in {"preHandler", "postHandler"}
             \/ outer = "preHandler" /\ inner = "postHandler"
      PROVE  Nests(i, j)
  <2>1. SlotRank("preRouting") = 1 /\ SlotRank("preHandler") = 2 /\ SlotRank("postHandler") = 3
    BY DEF SlotRank
  <2>2. SlotRank(outer) < SlotRank(inner)
    BY <1>8, <2>1
  <2>. QED
    BY <1>8, <2>2 DEF Nests
<1>. HIDE DEF P
<1>9. \A k \in 1 .. x + y + z :
        k \in 1 .. x \/ k \in x + 1 .. x + y \/ k \in x + y + 1 .. x + y + z
  BY <1>4
<1>10. ASSUME NEW k \in 1 .. x + y + z, NEW l \in 1 .. x + y + z, k < l
       PROVE  Nests(whole[k], whole[l])
  <2>1. CASE k \in 1 .. x /\ l \in 1 .. x
    <3>1. RunsBefore(a[k], a[l])
      BY <1>1, <1>3, <1>10, <2>1 DEF Sorted
    <3>2. whole[k] = a[k] /\ whole[l] = a[l]
      BY <1>4, <2>1
    <3>. QED
      BY <1>5, <2>1, <3>1, <3>2 DEF Nests, P
  <2>2. CASE k \in x + 1 .. x + y /\ l \in x + 1 .. x + y
    <3>. DEFINE i == k - x
                j == l - x
    <3>1. i \in 1 .. y /\ j \in 1 .. y /\ whole[k] = b[i] /\ whole[l] = b[j]
      BY <1>6, <2>2
    <3>2. i < j
      BY <1>4, <1>10
    <3>. HIDE DEF i, j
    <3>3. RunsBefore(b[i], b[j])
      BY <1>1, <1>3, <3>1, <3>2 DEF Sorted
    <3>. QED
      BY <1>6, <2>2, <3>1, <3>3 DEF Nests, P
  <2>3. CASE k \in x + y + 1 .. x + y + z /\ l \in x + y + 1 .. x + y + z
    <3>. DEFINE i == k - (x + y)
                j == l - (x + y)
    <3>1. i \in 1 .. z /\ j \in 1 .. z /\ whole[k] = c[i] /\ whole[l] = c[j]
      BY <1>7, <2>3
    <3>2. i < j
      BY <1>4, <1>10
    <3>. HIDE DEF i, j
    <3>3. RunsBefore(c[i], c[j])
      BY <1>1, <1>3, <3>1, <3>2 DEF Sorted
    <3>. QED
      BY <1>7, <2>3, <3>1, <3>3 DEF Nests, P
  <2>4. CASE k \in 1 .. x /\ l \in x + 1 .. x + y
    BY <1>5, <1>6, <1>8, <2>4
  <2>5. CASE k \in 1 .. x /\ l \in x + y + 1 .. x + y + z
    BY <1>5, <1>7, <1>8, <2>5
  <2>6. CASE k \in x + 1 .. x + y /\ l \in x + y + 1 .. x + y + z
    BY <1>6, <1>7, <1>8, <2>6
  <2>7. \/ k \in 1 .. x /\ (l \in 1 .. x \/ l \in x + 1 .. x + y \/ l \in x + y + 1 .. x + y + z)
        \/ k \in x + 1 .. x + y /\ (l \in x + 1 .. x + y \/ l \in x + y + 1 .. x + y + z)
        \/ k \in x + y + 1 .. x + y + z /\ l \in x + y + 1 .. x + y + z
    BY <1>4, <1>10
  <2>. QED
    BY <2>1, <2>2, <2>3, <2>4, <2>5, <2>6, <2>7
<1>11. \A k \in 1 .. x + y + z : IsIndex(whole[k])
  BY <1>5, <1>6, <1>7, <1>9 DEF P
<1>. QED
  BY <1>4, <1>10, <1>11

------------------------------------------------------------------------------
(* The middlewares of plugins follow the order of setup as the hooks do.   *)
(* Only a hook run by a failing startup registers one for nobody.          *)
WrapOwned ==
  \A i \in 1 .. Len(middlewares) :
    IF middlewares[i].plugin = 0 THEN phase \in {"abort", "raised"}
    ELSE \E a \in 1 .. Len(ordered) :
           /\ middlewares[i].plugin = ordered[a]
           /\ phase = "setup" => a <= cursor /\ (active = 0 => a < cursor)

WrapInOrder ==
  \A i, j \in 1 .. Len(middlewares), a, b \in 1 .. Len(ordered) :
    i < j /\ middlewares[i].plugin = ordered[a] /\ middlewares[j].plugin = ordered[b] => a <= b

WrapInv ==
  /\ middlewares \in Seq(Middleware)
  /\ Early => middlewares = << >>
  /\ WrapOwned /\ WrapInOrder

Assembled == pipeline # << >> => frozen /\ ~Early

PipelineInv == WrapInv /\ Assembled /\ PipelineIsOrdered

(* A step that registers no middleware.                                    *)
LEMMA WrapsStable ==
  ASSUME WrapInv, UNCHANGED <<middlewares, ordered>>,
         Early' => Early,
         phase' \in {"abort", "raised"} \/ phase \notin {"abort", "raised"},
         \/ phase' # "setup"
         \/ /\ phase = "setup"
            /\ \/ cursor' = cursor /\ (active' = 0 => active = 0)
               \/ cursor' = cursor + 1 /\ cursor \in Nat /\ \A a \in 1 .. Len(ordered) : a \in Nat
  PROVE  WrapInv'
<1>1. WrapOwned'
  <2>. SUFFICES ASSUME NEW i \in 1 .. Len(middlewares)
                PROVE  IF middlewares[i].plugin = 0 THEN phase' \in {"abort", "raised"}
                       ELSE \E a \in 1 .. Len(ordered) :
                              /\ middlewares[i].plugin = ordered[a]
                              /\ phase' = "setup" => a <= cursor' /\ (active' = 0 => a < cursor')
    BY DEF WrapOwned
  <2>1. CASE middlewares[i].plugin = 0
    BY <2>1 DEF WrapInv, WrapOwned
  <2>2. CASE middlewares[i].plugin # 0
    <3>1. PICK a \in 1 .. Len(ordered) :
            /\ middlewares[i].plugin = ordered[a]
            /\ phase = "setup" => a <= cursor /\ (active = 0 => a < cursor)
      BY <2>2 DEF WrapInv, WrapOwned
    <3>2. phase' = "setup" => a <= cursor' /\ (active' = 0 => a < cursor')
      BY <3>1
    <3>. QED
      BY <2>2, <3>1, <3>2
  <2>. QED
    BY <2>1, <2>2
<1>. QED
  BY <1>1 DEF WrapInv, WrapInOrder

(* A middleware of the plugin being set up is the last of the list.        *)
LEMMA WrapAdded ==
  ASSUME OrderAssumption, StartupInv, WrapInv, NEW m \in Middleware, m.plugin = active,
         middlewares' = Append(middlewares, m), ~frozen, InPluginCode,
         UNCHANGED <<phase, cursor, active, ordered>>
  PROVE  WrapInv'
<1>. DEFINE n == Len(middlewares)
<1>1. middlewares \in Seq(Middleware) /\ n \in Nat
  BY LenProperties DEF WrapInv
<1>2. /\ middlewares' \in Seq(Middleware) /\ Len(middlewares') = n + 1
      /\ \A i \in 1 .. n : middlewares'[i] = middlewares[i]
      /\ middlewares'[n + 1] = m
  BY <1>1, AppendProperties
<1>. HIDE DEF n
<1>3. /\ Len(ordered) \in Nat /\ cursor \in 1 .. Len(ordered) + 1
      /\ \A a \in 1 .. Len(ordered) : ordered[a] \in 1 .. N
      /\ \A a, b \in 1 .. Len(ordered) : ordered[a] = ordered[b] => a = b
  BY OrderFields DEF StartupInv, HostInv, HostTypeOK
<1>4. phase \notin {"checkIds", "order", "validate", "stop", "serving"}
  BY DEF InPluginCode, StartupInv, HostInv, Phased, Early
<1>5. active # 0 => phase = "setup" /\ cursor <= Len(ordered) /\ active = ordered[cursor]
  BY DEF StartupInv, HostInv, Phased
<1>6. active = 0 => phase = "abort"
  BY <1>4 DEF InPluginCode
<1>7. WrapOwned'
  <2>. SUFFICES ASSUME NEW i \in 1 .. n + 1
                PROVE  IF middlewares'[i].plugin = 0 THEN phase \in {"abort", "raised"}
                       ELSE \E a \in 1 .. Len(ordered) :
                              /\ middlewares'[i].plugin = ordered[a]
                              /\ phase = "setup" => a <= cursor /\ (active = 0 => a < cursor)
    BY <1>2 DEF WrapOwned
  <2>1. CASE i \in 1 .. n
    BY <1>2, <2>1 DEF WrapInv, WrapOwned, n
  <2>2. CASE i = n + 1 /\ active = 0
    BY <1>2, <1>6, <2>2
  <2>3. CASE i = n + 1 /\ active # 0
    <3>1. cursor \in 1 .. Len(ordered) /\ m.plugin = ordered[cursor]
      BY <1>3, <1>5, <2>3
    <3>. QED
      BY <1>2, <2>3, <3>1
  <2>4. i \in 1 .. n \/ i = n + 1
    BY <1>1
  <2>. QED
    BY <2>1, <2>2, <2>3, <2>4
<1>8. WrapInOrder'
  <2>. SUFFICES ASSUME NEW i \in 1 .. n + 1, NEW j \in 1 .. n + 1,
                       NEW a \in 1 .. Len(ordered), NEW b \in 1 .. Len(ordered),
                       i < j, middlewares'[i].plugin = ordered[a],
                       middlewares'[j].plugin = ordered[b]
                PROVE  a <= b
    BY <1>2 DEF WrapInOrder
  <2>1. i \in 1 .. n /\ middlewares[i].plugin = ordered[a]
    BY <1>1, <1>2
  <2>2. CASE j \in 1 .. n
    BY <1>2, <2>1, <2>2 DEF WrapInv, WrapInOrder, n
  <2>3. CASE j = n + 1
    <3>1. ordered[a] # 0 /\ ordered[b] # 0 /\ active = ordered[b]
      BY <1>2, <1>3, <2>3
    <3>2. phase = "setup" /\ b = cursor
      BY <1>3, <1>5, <3>1
    <3>3. PICK c \in 1 .. Len(ordered) : ordered[a] = ordered[c] /\ c <= cursor
      BY <2>1, <3>1, <3>2 DEF WrapInv, WrapOwned, n
    <3>4. c = a
      BY <1>3, <3>3
    <3>. QED
      BY <3>2, <3>3, <3>4
  <2>. QED
    BY <1>1, <2>2, <2>3
<1>. QED
  BY <1>2, <1>4, <1>7, <1>8 DEF WrapInv, Early

LEMMA NextWraps ==
  ASSUME OrderAssumption, StartupInv, WrapInv, [Next]_vars PROVE WrapInv'
<1>0. /\ Len(ordered) \in Nat /\ cursor \in Nat /\ \A a \in 1 .. Len(ordered) : a \in Nat /\ ordered[a] # 0
  BY OrderFields DEF StartupInv, HostInv, HostTypeOK
<1>1. ASSUME NEW code, StartupFails(code), phase \in {"setup", "validate"}
      PROVE  WrapInv'
  <2>1. phase' = "abort" /\ UNCHANGED <<middlewares, ordered>>
    BY <1>1 DEF StartupFails, BeginDrain
  <2>. QED
    BY <2>1, WrapsStable DEF Early
<1>2. CASE CheckIds \/ OrderEnds
  <2>1. /\ Early /\ phase' \in {"order", "raised", "setup"} /\ UNCHANGED <<middlewares, ordered>>
    BY <1>2 DEF CheckIds, OrderEnds, Early
  <2>2. middlewares = << >> /\ Len(middlewares) = 0
    BY <2>1, EmptySeq DEF WrapInv
  <2>. QED
    BY <2>1, <2>2 DEF WrapInv, WrapOwned, WrapInOrder
<1>3. CASE OrderStep
  <2>1. Early /\ UNCHANGED <<middlewares, phase>>
    BY <1>3 DEF OrderStep, Early
  <2>2. middlewares = << >> /\ Len(middlewares) = 0
    BY <2>1, EmptySeq DEF WrapInv
  <2>. QED
    BY <2>1, <2>2 DEF WrapInv, WrapOwned, WrapInOrder
<1>4. CASE BeginSetup
  <2>1. /\ phase = "setup" /\ cursor <= Len(ordered) /\ active' = ordered[cursor]
        /\ UNCHANGED <<middlewares, ordered, phase, cursor>>
    BY <1>4 DEF BeginSetup
  <2>2. cursor \in 1 .. Len(ordered)
    BY <1>0, <2>1 DEF StartupInv, HostInv, HostTypeOK
  <2>3. active' # 0
    BY <1>0, <2>1, <2>2
  <2>. QED
    BY <2>1, <2>3, WrapsStable DEF Early
<1>5. ASSUME NEW async \in BOOLEAN, EndSetup(async)
      PROVE  WrapInv'
  <2>1. /\ phase = "setup" /\ cursor' = cursor + 1
        /\ UNCHANGED <<middlewares, ordered, phase>>
    BY <1>5 DEF EndSetup
  <2>. QED
    BY <1>0, <2>1, WrapsStable DEF Early
<1>6. CASE SetupExits \/ Freeze \/ (\E blocking \in BOOLEAN : Validate(blocking))
           \/ (AssertValid /\ ~StartupFails("blocking")) \/ StopRequested
  <2>1. /\ phase \in {"setup", "validate", "serving"}
        /\ phase' \in {"exited", "validate", "serving", "stopTracing"}
        /\ UNCHANGED <<middlewares, ordered>>
    BY <1>6 DEF SetupExits, Freeze, Validate, AssertValid, StopRequested
  <2>. QED
    BY <2>1, WrapsStable DEF Early
<1>7. CASE TracingShutdown \/ RunHook \/ HookRaises \/ DrainEnds
  <2>1. /\ \/ phase \in {"stopTracing", "stop"} /\ phase' \in {"stop", "stopped"}
           \/ phase = "abort" /\ phase' \in {"abort", "raised"}
        /\ UNCHANGED <<middlewares, ordered>>
    BY <1>7 DEF TracingShutdown, BeginDrain, RunHook, HookRaises, DrainEnds
  <2>. QED
    BY <2>1, WrapsStable DEF Early
<1>8. CASE UNCHANGED <<middlewares, ordered, phase, cursor, active>>
  BY <1>8, WrapsStable DEF Early
<1>9. CASE HostCall
  <2>1. CASE Rejected
    BY <1>1, <2>1 DEF Rejected
  <2>2. ASSUME NEW slot \in Slots, NEW order \in MiddlewareOrders, RegisterMiddleware(slot, order),
               ~Rejected
        PROVE  WrapInv'
    <3>. DEFINE m == [slot |-> slot, order |-> order, plugin |-> active]
    <3>1. m \in Middleware /\ m.plugin = active
      BY ActiveIsOwner DEF Middleware
    <3>2. /\ middlewares' = Append(middlewares, m) /\ ~frozen /\ InPluginCode
          /\ UNCHANGED <<phase, cursor, active, ordered>>
      BY <2>2 DEF RegisterMiddleware, Registering, elsewhere
    <3>. HIDE DEF m
    <3>. QED
      BY <3>1, <3>2, WrapAdded
  <2>3. ASSUME ~Rejected,
               \A slot \in Slots, order \in MiddlewareOrders : ~RegisterMiddleware(slot, order)
        PROVE  UNCHANGED <<middlewares, ordered, phase, cursor, active>>
    BY <1>9, <2>3 DEF HostCall, RegisterRoute, ExposeCapability, RequireCapability,
                      DeclareExtensionPoint, Contribute, AddStartupValidation, OnShutdown,
                      BadArgument, elsewhere
  <2>. QED
    BY <1>8, <2>1, <2>2, <2>3
<1>10. CASE UNCHANGED vars
  BY <1>8, <1>10 DEF vars
<1>11. CASE BuildStep
  BY <1>1, <1>2, <1>3, <1>4, <1>5, <1>6, <1>11
     DEF BuildStep, SetupRaises, ValidateRaises, AssertValid
<1>. QED
  BY <1>6, <1>7, <1>9, <1>10, <1>11 DEF Next, DrainStep

(* Entry i of the list mws may be around entry j, under the requirements   *)
(* req: what PipelineIsOrdered says of two places of the stack.            *)
MayWrap(mws, req, i, j) ==
  LET outer == mws[i]
      inner == mws[j]
  IN  /\ SlotRank(outer.slot) <= SlotRank(inner.slot)
      /\ outer.slot = inner.slot =>
           /\ outer.order <= inner.order
           /\ (outer.order = inner.order /\ outer.plugin # inner.plugin) =>
                inner.plugin \notin
                  {d \in 0 .. N : \E k \in 1 .. Len(req[outer.plugin]) :
                     req[outer.plugin][k].type = "plugin" /\ req[outer.plugin][k].id = d}

StackAllowed(w, mws, req) == \A k, l \in 1 .. Len(w) : k < l => MayWrap(mws, req, w[k], w[l])

LEMMA OrderedMeansAllowed ==
  /\ PipelineIsOrdered <=> StackAllowed(pipeline, middlewares, requires)
  /\ PipelineIsOrdered' <=> StackAllowed(pipeline', middlewares', requires')
BY DEF PipelineIsOrdered, StackAllowed, MayWrap, DependsOn

(* What the order of registration makes of the sorted stack.               *)
LEMMA SortedIsOrdered ==
  ASSUME StartupAssumption, OrderAssumption, StartupInv, WrapInv, phase = "validate",
         NEW i, NEW j, IsIndex(i), IsIndex(j), Nests(i, j)
  PROVE  MayWrap(middlewares, requires, i, j)
<1>. DEFINE outer == middlewares[i]
            inner == middlewares[j]
<1>1. outer \in Middleware /\ inner \in Middleware
  BY ElementOfSeq DEF WrapInv, IsIndex
<1>2. /\ outer.order \in Nat /\ inner.order \in Nat
      /\ SlotRank(outer.slot) \in Nat /\ SlotRank(inner.slot) \in Nat
  BY <1>1 DEF Middleware, Slots, SlotRank, StartupAssumption
<1>3. SlotRank(outer.slot) <= SlotRank(inner.slot)
  <2>1. CASE SlotRank(outer.slot) < SlotRank(inner.slot)
    BY <1>2, <2>1
  <2>2. CASE outer.slot = inner.slot
    BY <1>2, <2>2
  <2>. QED
    BY <2>1, <2>2 DEF Nests
<1>4. ASSUME outer.slot = inner.slot
      PROVE  RunsBefore(i, j)
  <2>1. ~(SlotRank(outer.slot) < SlotRank(inner.slot))
    BY <1>2, <1>4
  <2>. QED
    BY <2>1 DEF Nests
<1>5. RunsBefore(i, j) => outer.order <= inner.order
  BY <1>2 DEF RunsBefore
<1>6. ASSUME RunsBefore(i, j), outer.order = inner.order, inner.plugin \in DependsOn(outer.plugin)
      PROVE  FALSE
  <2>1. i < j
    BY <1>2, <1>6 DEF RunsBefore
  <2>2. PICK a \in 1 .. Len(ordered) : outer.plugin = ordered[a]
    BY DEF WrapInv, WrapOwned, IsIndex
  <2>3. PICK b \in 1 .. Len(ordered) : inner.plugin = ordered[b]
    BY DEF WrapInv, WrapOwned, IsIndex
  <2>4. a <= b
    BY <2>1, <2>2, <2>3 DEF WrapInv, WrapInOrder, IsIndex
  <2>5. PICK c \in 1 .. a - 1 : ordered[c] = inner.plugin
    BY <1>6, <2>2 DEF StartupInv, OrderInv, DependenciesFirst
  <2>6. c \in 1 .. Len(ordered) /\ Len(ordered) \in Nat
    BY OrderFields DEF StartupInv
  <2>7. c = b
    BY <2>3, <2>5, <2>6, OrderFields DEF StartupInv
  <2>. QED
    BY <2>4, <2>5, <2>6, <2>7
<1>. QED
  BY <1>3, <1>4, <1>5, <1>6 DEF MayWrap, DependsOn

LEMMA NextPipeline ==
  ASSUME StartupAssumption, OrderAssumption, StartupInv, PipelineInv, [Next]_vars
  PROVE  PipelineInv'
<1>1. WrapInv'
  BY NextWraps DEF PipelineInv
<1>2. CASE UNCHANGED pipeline
  <2>1. CASE pipeline = << >>
    <3>1. Len(pipeline) = 0 /\ pipeline' = << >>
      BY <1>2, <2>1
    <3>. QED
      BY <1>1, <1>2, <3>1 DEF PipelineInv, Assembled, PipelineIsOrdered
  <2>2. CASE pipeline # << >>
    <3>1. frozen /\ ~Early
      BY <2>2 DEF PipelineInv, Assembled
    <3>2. UNCHANGED <<middlewares, frozen>>
      BY <3>1, FrozenStep
    <3>3. UNCHANGED requires /\ ~Early'
      BY <3>1 DEF Next, BuildStep, DrainStep, HostCall, CheckIds, OrderStep, OrderEnds,
             BeginSetup, EndSetup, SetupRaises, SetupExits, Freeze, Validate, ValidateRaises,
             AssertValid, StopRequested, TracingShutdown, RunHook, HookRaises, DrainEnds,
             StartupFails, BeginDrain, RegisterRoute, RegisterMiddleware, ExposeCapability,
             RequireCapability, DeclareExtensionPoint, Contribute, AddStartupValidation,
             OnShutdown, BadArgument, Rejected, elsewhere, vars, Early
    <3>4. PipelineIsOrdered'
      BY <1>2, <3>2, <3>3, OrderedMeansAllowed DEF PipelineInv
    <3>. QED
      BY <1>1, <3>1, <3>2, <3>3, <3>4 DEF PipelineInv, Assembled
  <2>. QED
    BY <2>1, <2>2
<1>3. CASE pipeline' # pipeline
  <2>1. /\ phase = "validate" /\ phase' = "serving"
        /\ pipeline' = MiddlewaresForSlot("preRouting") \o MiddlewaresForSlot("preHandler")
                         \o MiddlewaresForSlot("postHandler")
        /\ UNCHANGED <<middlewares, requires, frozen>>
    BY <1>3 DEF Next, BuildStep, DrainStep, HostCall, CheckIds, OrderStep, OrderEnds,
           BeginSetup, EndSetup, SetupRaises, SetupExits, Freeze, Validate, ValidateRaises,
           AssertValid, StopRequested, TracingShutdown, RunHook, HookRaises, DrainEnds,
           StartupFails, BeginDrain, RegisterRoute, RegisterMiddleware, ExposeCapability,
           RequireCapability, DeclareExtensionPoint, Contribute, AddStartupValidation,
           OnShutdown, BadArgument, Rejected, elsewhere, vars
  <2>. DEFINE whole == pipeline'
  <2>2. MwTypes
    BY DEF PipelineInv, WrapInv, MwTypes
  <2>3. /\ \A k \in 1 .. Len(whole) : IsIndex(whole[k])
        /\ \A k, l \in 1 .. Len(whole) : k < l => Nests(whole[k], whole[l])
    BY <2>1, <2>2, StackIsSorted
  <2>4. StackAllowed(whole, middlewares, requires)
    <3>. SUFFICES ASSUME NEW k \in 1 .. Len(whole), NEW l \in 1 .. Len(whole), k < l
                  PROVE  MayWrap(middlewares, requires, whole[k], whole[l])
      BY DEF StackAllowed
    <3>1. IsIndex(whole[k]) /\ IsIndex(whole[l]) /\ Nests(whole[k], whole[l])
      BY <2>3
    <3>. HIDE DEF whole
    <3>. QED
      BY <2>1, <3>1, SortedIsOrdered DEF PipelineInv
  <2>5. PipelineIsOrdered'
    BY <2>1, <2>4, OrderedMeansAllowed
  <2>6. Assembled'
    BY <2>1 DEF Assembled, Early, StartupInv, HostInv, Phased
  <2>. QED
    BY <1>1, <2>5, <2>6 DEF PipelineInv
<1>. QED
  BY <1>2, <1>3

LEMMA InitPipeline == ASSUME Init PROVE PipelineInv
<1>1. middlewares = << >> /\ pipeline = << >> /\ << >> \in Seq(Middleware) /\ Len(<< >>) = 0
  BY EmptySeq DEF Init
<1>. QED
  BY <1>1 DEF PipelineInv, WrapInv, WrapOwned, WrapInOrder, Assembled, PipelineIsOrdered

(* middlewares_for_slot and build(): in the stack of the application, for  *)
(* any number of plugins and middlewares, slots nest in their order and    *)
(* `order` decides inside one; on a tie the middleware of a plugin is      *)
(* never outside that of a plugin it requires.                             *)
THEOREM StackIsOrdered == Spec => []PipelineIsOrdered
<1>1. StartupInv /\ PipelineInv /\ [Next]_vars => PipelineInv'
  BY OrderAssumption, StartupAssumption, NextPipeline
<1>2. PipelineInv => PipelineIsOrdered
  BY DEF PipelineInv
<1>. QED
  BY <1>1, <1>2, InitPipeline, StartupInvariant, PTL DEF Spec
==============================================================================
