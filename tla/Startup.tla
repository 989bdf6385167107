------------------------------- MODULE Startup -------------------------------
(***************************************************************************)
(* ModularApi.build and the lifespan of the application it returns         *)
(* (core/modular_api.py), over the registration surface of                 *)
(* RuntimePluginHost (core/plugin.py): the order of PluginOrder, setup of  *)
(* every plugin, the freeze, validation, and the drain of the shutdown     *)
(* hooks when startup fails or the application stops.                      *)
(*                                                                         *)
(* What a plugin does in setup, validate, a shutdown hook or while the     *)
(* application serves is any sequence of calls to the host.  A plugin that *)
(* catches the PluginHostError of a rejected call changes nothing.         *)
(***************************************************************************)
EXTENDS PluginOrder, FiniteSets

CONSTANTS
  RouteKeys,        \* "METHOD final_path"
  Capabilities,     \* capability ids
  Points, Modules,  \* extension point ids, module names
  MiddlewareOrders, \* values of PluginMiddleware.order
  MaxRegistrations  \* bound: routes + middlewares + callbacks registered

ASSUME StartupAssumption ==
  /\ MiddlewareOrders \subseteq Nat
  /\ MaxRegistrations \in Nat

Slots == {"preRouting", "preHandler", "postHandler"}

VARIABLES
  phase,         \* where build(), or the lifespan, is
  distinctIds,   \* the manifest ids are pairwise distinct
  loopRunning,   \* build() was called from inside a running event loop
  cursor,        \* plugin of `ordered` being set up, or validated
  active,        \* _active_plugin_id, 0 for None
  frozen,        \* _frozen
  routes,        \* _routes: key and owner
  capabilities,  \* _capabilities: ids exposed, and by whom
  middlewares,   \* _middlewares: the sequence number is the index
  points,        \* _extension_points: the mode, "none" if undeclared
  contributions, \* _extension_values: number of values per point and module
  hooks,         \* _shutdown_callbacks
  blocked,       \* some recorded validation result is blocking
  startupError,  \* code of the error startup failed with, or "none"
  drainFrom,     \* number of hooks when the drain began
  toRun,         \* index of the next hook the drain calls
  ran,           \* hooks whose body ran, in order
  raised,        \* code of the error build() or the lifespan raised, or "none"
  pipeline       \* plugin part of the middleware stack, outermost first

registrations == <<routes, capabilities, middlewares, points, contributions, hooks>>
control == <<phase, cursor, active, frozen>>
drain == <<drainFrom, toRun, ran>>
outcome == <<startupError, raised>>
inputs == <<distinctIds, loopRunning>>
vars == <<orderVars, registrations, control, drain, outcome, inputs, blocked, pipeline>>

Owner == 0 .. N

(* A hook is Plugin.shutdown ("shutdown") or a callback given to           *)
(* on_shutdown ("callback"); `async` says that calling it returns an       *)
(* awaitable.                                                              *)
Hook == [plugin : Owner, kind : {"shutdown", "callback"}, async : BOOLEAN]
Middleware == [slot : Slots, order : MiddlewareOrders, plugin : Owner]

Phases == {"checkIds", "order", "setup", "validate", "abort", "raised",
           "exited", "serving", "stopTracing", "stop", "stopped"}

Errors == {"none", "PLUGIN_ID_CONFLICT", "PLUGIN_DEPENDENCY",
           "rejected", "plugin", "blocking", "hook"}

Init ==
  /\ OrderInit
  /\ phase = "checkIds"
  /\ distinctIds \in BOOLEAN /\ loopRunning \in BOOLEAN
  /\ cursor = 1 /\ active = 0 /\ frozen = FALSE
  /\ routes = << >> /\ middlewares = << >> /\ hooks = << >>
  /\ capabilities = {}
  /\ points = [x \in Points |-> "none"]
  /\ contributions = [k \in Points \X Modules |-> 0]
  /\ blocked = FALSE
  /\ startupError = "none" /\ raised = "none"
  /\ drainFrom = 0 /\ toRun = 0 /\ ran = << >>
  /\ pipeline = << >>

------------------------------------------------------------------------------
(* build(): ids, order                                                     *)

(* The duplicate-id check runs before anything else is created.            *)
CheckIds ==
  /\ phase = "checkIds"
  /\ IF distinctIds
       THEN phase' = "order" /\ UNCHANGED raised
       ELSE phase' = "raised" /\ raised' = "PLUGIN_ID_CONFLICT"
  /\ UNCHANGED <<orderVars, registrations, cursor, active, frozen, drain,
                 startupError, inputs, blocked, pipeline>>

OrderStep ==
  /\ phase = "order"
  /\ OrderNext
  /\ UNCHANGED <<registrations, control, drain, outcome, inputs, blocked, pipeline>>

(* order_plugins returns, or raises out of build(): no host exists yet.    *)
OrderEnds ==
  /\ phase = "order"
  /\ \/ /\ Ordered
        /\ phase' = "setup" /\ UNCHANGED raised
     \/ /\ orderError # "none"
        /\ phase' = "raised" /\ raised' = "PLUGIN_DEPENDENCY"
  /\ UNCHANGED <<orderVars, registrations, cursor, active, frozen, drain,
                 startupError, inputs, blocked, pipeline>>

------------------------------------------------------------------------------
(* The drain                                                               *)

BeginDrain(to) ==
  /\ phase' = to
  /\ drainFrom' = Len(hooks) /\ toRun' = Len(hooks)
  /\ UNCHANGED ran

(* `except Exception: plugin_host.shutdown_sync(); raise`, after the       *)
(* `finally` of setup has cleared the active plugin.                       *)
StartupFails(code) ==
  /\ BeginDrain("abort")
  /\ startupError' = code
  /\ active' = 0
  /\ UNCHANGED <<orderVars, registrations, cursor, frozen, raised, inputs,
                 blocked, pipeline>>

(* shutdown_sync cannot drive an awaitable from inside a running loop:     *)
(* asyncio.run raises and the body of the coroutine never runs.            *)
Undrivable(h) == phase = "abort" /\ loopRunning /\ h.async

RunHook ==
  /\ phase \in {"abort", "stop"} /\ toRun > 0
  /\ ~Undrivable(hooks[toRun])
  /\ ran' = Append(ran, toRun)
  /\ toRun' = toRun - 1
  /\ UNCHANGED <<orderVars, registrations, control, drainFrom, outcome, inputs,
                 blocked, pipeline>>

(* A hook that raises ends the drain: its error leaves build() in place of *)
(* the startup error, or leaves the lifespan.                              *)
HookRaises ==
  /\ phase \in {"abort", "stop"} /\ toRun > 0
  /\ IF Undrivable(hooks[toRun]) THEN UNCHANGED ran ELSE ran' = Append(ran, toRun)
  /\ phase' = IF phase = "abort" THEN "raised" ELSE "stopped"
  /\ raised' = "hook"
  /\ UNCHANGED <<orderVars, registrations, cursor, active, frozen, drainFrom, toRun,
                 startupError, inputs, blocked, pipeline>>

(* Mutant: only the lifespan drain comes to its end.                       *)
DrainEndsOnStop ==
  /\ phase = "stop" /\ toRun = 0
  /\ phase' = "stopped"
  /\ raised' = startupError
  /\ UNCHANGED <<orderVars, registrations, cursor, active, frozen, drain,
                 startupError, inputs, blocked, pipeline>>

DrainEnds ==
  /\ phase \in {"abort", "stop"} /\ toRun = 0
  /\ phase' = IF phase = "abort" THEN "raised" ELSE "stopped"
  /\ raised' = startupError
  /\ UNCHANGED <<orderVars, registrations, cursor, active, frozen, drain,
                 startupError, inputs, blocked, pipeline>>

------------------------------------------------------------------------------
(* Calls plugin code makes on the host                                     *)

InPluginCode ==
  \/ phase = "setup" /\ active # 0
  \/ phase = "validate" /\ cursor <= Len(ordered)
  \/ phase \in {"abort", "stop"} /\ toRun > 0
  \/ phase = "serving"

(* The host raises PluginHostError.  Out of setup or validate it fails     *)
(* startup; out of a hook it is HookRaises; a handler gets a 500.          *)
Rejected ==
  /\ phase \in {"setup", "validate"}
  /\ StartupFails("rejected")

Callbacks == {i \in 1 .. Len(hooks) : hooks[i].kind = "callback"}

Room == Len(routes) + Len(middlewares) + Cardinality(Callbacks) < MaxRegistrations

Registering == InPluginCode /\ ~frozen

elsewhere == <<orderVars, control, drain, outcome, inputs, pipeline>>

RouteTaken(key) == \E i \in 1 .. Len(routes) : routes[i].key = key

RegisterRoute(key) ==
  \/ /\ Registering /\ ~RouteTaken(key) /\ Room
     /\ routes' = Append(routes, [key |-> key, plugin |-> active])
     /\ UNCHANGED <<elsewhere, blocked, capabilities, middlewares, points,
                    contributions, hooks>>
  \/ /\ InPluginCode /\ (frozen \/ RouteTaken(key))
     /\ Rejected

(* A slot that is not one of the three is rejected: see BadArgument.       *)
RegisterMiddleware(slot, order) ==
  \/ /\ Registering /\ Room
     /\ middlewares' = Append(middlewares,
                              [slot |-> slot, order |-> order, plugin |-> active])
     /\ UNCHANGED <<elsewhere, blocked, routes, capabilities, points, contributions,
                    hooks>>
  \/ InPluginCode /\ frozen /\ Rejected

(* An unknown slot, or an empty route path.                                *)
BadArgument == InPluginCode /\ Rejected

Exposed(c) == \E e \in capabilities : e.id = c

ExposeCapability(c) ==
  \/ /\ Registering /\ ~Exposed(c)
     /\ capabilities' = capabilities \cup {[id |-> c, plugin |-> active]}
     /\ UNCHANGED <<elsewhere, blocked, routes, middlewares, points, contributions,
                    hooks>>
  \/ InPluginCode /\ (frozen \/ Exposed(c)) /\ Rejected

RequireCapability(c) ==
  InPluginCode /\ ~Exposed(c) /\ Rejected

DeclareExtensionPoint(x, mode) ==
  \/ /\ Registering /\ points[x] = "none"
     /\ points' = [points EXCEPT ![x] = mode]
     /\ UNCHANGED <<elsewhere, blocked, routes, capabilities, middlewares,
                    contributions, hooks>>
  \/ InPluginCode /\ (frozen \/ points[x] # "none") /\ Rejected

(* Mutant: the mode of the extension point is not looked at.               *)
ContributeAny(x, m) ==
  /\ Registering /\ points[x] # "none"
  /\ contributions[<<x, m>>] < MaxRegistrations
  /\ contributions' = [contributions EXCEPT ![<<x, m>>] = @ + 1]
  /\ UNCHANGED <<elsewhere, blocked, routes, capabilities, middlewares, points, hooks>>

Contribute(x, m) ==
  \/ /\ Registering /\ points[x] # "none"
     /\ points[x] = "single" => contributions[<<x, m>>] = 0
     /\ contributions[<<x, m>>] < MaxRegistrations
     /\ contributions' = [contributions EXCEPT ![<<x, m>>] = @ + 1]
     /\ UNCHANGED <<elsewhere, blocked, routes, capabilities, middlewares, points, hooks>>
  \/ /\ InPluginCode
     /\ frozen \/ points[x] = "none" \/ (points[x] = "single" /\ contributions[<<x, m>>] > 0)
     /\ Rejected

AddStartupValidation(blocking) ==
  \/ /\ Registering
     /\ blocked' = (blocked \/ blocking)
     /\ UNCHANGED <<elsewhere, registrations>>
  \/ InPluginCode /\ frozen /\ Rejected

(* Mutant: on_shutdown does not call _assert_mutable.                      *)
OnShutdownAnytime(async) ==
  /\ InPluginCode /\ Room
  /\ hooks' = Append(hooks, [plugin |-> active, kind |-> "callback", async |-> async])
  /\ UNCHANGED <<elsewhere, blocked, routes, capabilities, middlewares, points,
                 contributions>>

OnShutdown(async) ==
  \/ /\ Registering /\ Room
     /\ hooks' = Append(hooks, [plugin |-> active, kind |-> "callback", async |-> async])
     /\ UNCHANGED <<elsewhere, blocked, routes, capabilities, middlewares, points,
                    contributions>>
  \/ InPluginCode /\ frozen /\ Rejected

HostCall ==
  \/ \E key \in RouteKeys : RegisterRoute(key)
  \/ \E slot \in Slots, order \in MiddlewareOrders : RegisterMiddleware(slot, order)
  \/ \E c \in Capabilities : ExposeCapability(c) \/ RequireCapability(c)
  \/ \E x \in Points, mode \in {"single", "multi"} : DeclareExtensionPoint(x, mode)
  \/ \E x \in Points, m \in Modules : Contribute(x, m)
  \/ \E blocking \in BOOLEAN : AddStartupValidation(blocking)
  \/ \E async \in BOOLEAN : OnShutdown(async)
  \/ BadArgument

------------------------------------------------------------------------------
(* build(): setup, freeze, validation                                      *)

(* Mutant: the plugin's shutdown is registered before setup is called.     *)
BeginSetupWithShutdown ==
  /\ phase = "setup" /\ active = 0 /\ cursor <= Len(ordered)
  /\ active' = ordered[cursor]
  /\ hooks' = Append(hooks, [plugin |-> ordered[cursor], kind |-> "shutdown",
                             async |-> FALSE])
  /\ UNCHANGED <<orderVars, routes, capabilities, middlewares, points, contributions,
                 phase, cursor, frozen, drain, outcome, inputs, blocked, pipeline>>

BeginSetup ==
  /\ phase = "setup" /\ active = 0 /\ cursor <= Len(ordered)
  /\ active' = ordered[cursor]
  /\ UNCHANGED <<orderVars, registrations, phase, cursor, frozen, drain, outcome,
                 inputs, blocked, pipeline>>

(* Mutant: the plugin's shutdown is put at the head of the list.           *)
EndSetupPrepends(async) ==
  /\ phase = "setup" /\ active # 0
  /\ hooks' = <<[plugin |-> ordered[cursor], kind |-> "shutdown", async |-> async]>> \o hooks
  /\ active' = 0
  /\ cursor' = cursor + 1
  /\ UNCHANGED <<orderVars, routes, capabilities, middlewares, points, contributions,
                 phase, frozen, drain, outcome, inputs, blocked, pipeline>>

(* setup returned: only now is the plugin's own shutdown registered.       *)
EndSetup(async) ==
  /\ phase = "setup" /\ active # 0
  /\ hooks' = Append(hooks, [plugin |-> ordered[cursor], kind |-> "shutdown",
                             async |-> async])
  /\ active' = 0
  /\ cursor' = cursor + 1
  /\ UNCHANGED <<orderVars, routes, capabilities, middlewares, points, contributions,
                 phase, frozen, drain, outcome, inputs, blocked, pipeline>>

SetupRaises ==
  /\ phase = "setup" /\ active # 0
  /\ StartupFails("plugin")

(* SystemExit or KeyboardInterrupt is not an Exception: no drain.          *)
SetupExits ==
  /\ phase = "setup" /\ active # 0
  /\ phase' = "exited" /\ active' = 0
  /\ UNCHANGED <<orderVars, registrations, cursor, frozen, drain, outcome, inputs,
                 blocked, pipeline>>

Freeze ==
  /\ phase = "setup" /\ active = 0 /\ cursor = Len(ordered) + 1
  /\ frozen' = TRUE
  /\ phase' = "validate" /\ cursor' = 1
  /\ UNCHANGED <<orderVars, registrations, active, drain, outcome, inputs, blocked,
                 pipeline>>

(* One plugin's validate returns its results.                              *)
Validate(blocking) ==
  /\ phase = "validate" /\ cursor <= Len(ordered)
  /\ blocked' = (blocked \/ blocking)
  /\ cursor' = cursor + 1
  /\ UNCHANGED <<orderVars, registrations, phase, active, frozen, drain, outcome,
                 inputs, pipeline>>

ValidateRaises ==
  /\ phase = "validate" /\ cursor <= Len(ordered)
  /\ StartupFails("plugin")

(* Mutant: on a tie the later registration goes first.                     *)
RunsBeforeOnTie(i, j) ==
  \/ middlewares[i].order < middlewares[j].order
  \/ middlewares[i].order = middlewares[j].order /\ j < i

RunsBefore(i, j) ==
  \/ middlewares[i].order < middlewares[j].order
  \/ middlewares[i].order = middlewares[j].order /\ i < j

MiddlewaresForSlot(slot) ==
  LET inSlot == {i \in 1 .. Len(middlewares) : middlewares[i].slot = slot}
  IN  [k \in 1 .. Cardinality(inSlot) |->
         CHOOSE i \in inSlot : Cardinality({j \in inSlot : RunsBefore(j, i)}) = k - 1]

(* Mutant: assert_valid is not called.                                     *)
AssertNothing ==
  /\ phase = "validate" /\ cursor = Len(ordered) + 1
  /\ phase' = "serving"
  /\ UNCHANGED <<orderVars, registrations, cursor, active, frozen, drain, outcome,
                 inputs, blocked, pipeline>>

(* assert_valid raises for the first blocking result; otherwise the        *)
(* middleware stack is assembled and the application is returned.          *)
AssertValid ==
  /\ phase = "validate" /\ cursor = Len(ordered) + 1
  /\ \/ blocked /\ StartupFails("blocking")
     \/ /\ ~blocked
        /\ phase' = "serving"
        /\ pipeline' = MiddlewaresForSlot("preRouting")
                         \o MiddlewaresForSlot("preHandler")
                         \o MiddlewaresForSlot("postHandler")
        /\ UNCHANGED <<orderVars, registrations, cursor, active, frozen, drain,
                       outcome, inputs, blocked>>

------------------------------------------------------------------------------
(* Lifespan                                                                *)

StopRequested ==
  /\ phase = "serving"
  /\ phase' = "stopTracing"
  /\ UNCHANGED <<orderVars, registrations, cursor, active, frozen, drain, outcome,
                 inputs, blocked, pipeline>>

(* Mutant: what the tracing callback raises is not caught.                 *)
TracingShutdownRaises ==
  /\ phase = "stopTracing"
  /\ \/ BeginDrain("stop") /\ UNCHANGED raised
     \/ phase' = "stopped" /\ raised' = "plugin" /\ UNCHANGED drain
  /\ UNCHANGED <<orderVars, registrations, cursor, active, frozen, startupError, inputs,
                 blocked, pipeline>>

(* tracing.on_shutdown, whose failure is swallowed, then the drain.        *)
TracingShutdown ==
  /\ phase = "stopTracing"
  /\ BeginDrain("stop")
  /\ UNCHANGED <<orderVars, registrations, cursor, active, frozen, outcome, inputs,
                 blocked, pipeline>>

------------------------------------------------------------------------------
BuildStep ==
  \/ CheckIds \/ OrderStep \/ OrderEnds
  \/ BeginSetup \/ (\E async \in BOOLEAN : EndSetup(async)) \/ SetupRaises \/ SetupExits
  \/ Freeze \/ (\E blocking \in BOOLEAN : Validate(blocking)) \/ ValidateRaises
  \/ AssertValid

DrainStep == TracingShutdown \/ RunHook \/ HookRaises \/ DrainEnds

Next == BuildStep \/ HostCall \/ StopRequested \/ DrainStep

(* build() is a sequence of synchronous calls and the lifespan one         *)
(* coroutine: each runs on as long as plugin code returns.  Nothing makes  *)
(* the server ask for the stop.                                            *)
Spec == Init /\ [][Next]_vars /\ WF_vars(BuildStep) /\ WF_vars(DrainStep)
------------------------------------------------------------------------------
(* Properties                                                              *)

ShutdownHooksOf(p) ==
  {i \in 1 .. Len(hooks) : hooks[i].plugin = p /\ hooks[i].kind = "shutdown"}

HooksOf(p) == {i \in 1 .. Len(hooks) : hooks[i].plugin = p}

HasRun(i) == \E k \in 1 .. Len(ran) : ran[k] = i

Draining == phase \in {"abort", "stop"}

(* Host registrations never change once the host is frozen: neither        *)
(* validate, nor a hook, nor plugin code that kept the host can add one.   *)
FrozenHostIsImmutable == [][frozen => UNCHANGED <<registrations, frozen>>]_vars

(* What is registered stays as it was registered, for good: a later call   *)
(* with the same key, id or extension point never replaces the earlier one *)
(* (_route_keys, the conflict checks of the three dictionaries).           *)
Extends(new, old) == Len(new) >= Len(old) /\ SubSeq(new, 1, Len(old)) = old

RegistrationsOnlyGrow ==
  [][/\ Extends(routes', routes)
     /\ \A i, j \in 1 .. Len(routes') : routes'[i].key = routes'[j].key => i = j
     /\ capabilities \subseteq capabilities'
     /\ \A d, e \in capabilities' : d.id = e.id => d = e
     /\ \A x \in Points : points[x] # "none" => points'[x] = points[x]
     /\ \A x \in Points, m \in Modules :
          points'[x] = "single" => contributions'[<<x, m>>] <= 1]_vars

(* The application serves only when every plugin has been set up and has   *)
(* its shutdown registered exactly once, the host is frozen, no recorded   *)
(* validation blocks and nothing has been torn down.                       *)
ServingIsComplete ==
  phase = "serving" =>
    /\ frozen /\ ~blocked /\ active = 0
    /\ \A p \in Plugin : Cardinality(ShutdownHooksOf(p)) = 1
    /\ startupError = "none" /\ ran = << >>

(* A plugin is never shut down while another one that requires it has not  *)
(* been: whenever a hook of a plugin has run, every hook of the plugins    *)
(* that depend on it was called before.  This joins the requirement graph, *)
(* the order of setup and the direction of the drain.                      *)
DependentsStopFirst ==
  \A p \in Plugin : \A d \in DependsOn(p) \ {0} :
    \A i \in HooksOf(d), k \in HooksOf(p) : HasRun(i) /\ i # k => k > toRun

(* The hooks run in reverse order of registration, each at most once, and  *)
(* none is left out unless the drain was cut short by a hook that raised:  *)
(* of a failed startup, those registered before the drain began; of an     *)
(* application that stops, all of them, whatever the tracing callback did. *)
DrainIsReversed ==
  /\ \A j, k \in 1 .. Len(ran) : j < k => ran[k] < ran[j]
  /\ phase = "raised" /\ raised # "hook" => Len(ran) = drainFrom
  /\ phase = "stopped" /\ raised # "hook" => Len(ran) = Len(hooks)

(* Plugin.shutdown runs only for a plugin whose setup returned.            *)
ShutdownNeedsSetup ==
  startupError # "none" /\ ~frozen =>
    \A i \in 1 .. Len(hooks) : HasRun(i) /\ hooks[i].kind = "shutdown" =>
      \E k \in 1 .. cursor - 1 : ordered[k] = hooks[i].plugin

(* In the assembled stack, slots nest in their order, `order` decides      *)
(* inside a slot, and on a tie the middleware of a plugin stays inside     *)
(* that of the plugins it requires.                                        *)
SlotRank(s) == CASE s = "preRouting" -> 1 [] s = "preHandler" -> 2 [] s = "postHandler" -> 3

PipelineIsOrdered ==
  \A a, b \in 1 .. Len(pipeline) : a < b =>
    LET outer == middlewares[pipeline[a]]
        inner == middlewares[pipeline[b]]
    IN  /\ SlotRank(outer.slot) <= SlotRank(inner.slot)
        /\ outer.slot = inner.slot =>
             /\ outer.order <= inner.order
             /\ (outer.order = inner.order /\ outer.plugin # inner.plugin) =>
                  inner.plugin \notin DependsOn(outer.plugin)

(* A startup that fails is reported, and one that is asked to stop stops.  *)
Ended == phase \in {"raised", "stopped", "exited"}
StartupEnds ==
  /\ <>(phase = "serving" \/ Ended)
  /\ phase = "stopTracing" ~> phase = "stopped"

(* docs/concepts/plugin-host.md: "If startup fails after some plugins      *)
(* already ran setup(), registered shutdown hooks still run in reverse     *)
(* setup order before the error is rethrown."                              *)
FailedStartupDrains ==
  phase = "raised" /\ startupError # "none" =>
    /\ \A i \in 1 .. drainFrom : HasRun(i)
    /\ raised = startupError
==============================================================================
