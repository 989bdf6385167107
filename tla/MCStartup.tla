------------------------------ MODULE MCStartup ------------------------------
(***************************************************************************)
(* Startup of three plugins.  In one behaviour the manifests declare any   *)
(* requirements and plugin code does nothing else; in another a plugin     *)
(* requires at most one other and all register shutdown hooks and fail; in *)
(* the others the first two register middlewares, or routes, capabilities, *)
(* extension points and contributions.  So no `part` has to be small for   *)
(* another.                                                                *)
(***************************************************************************)
EXTENDS Startup

CONSTANT Parts
VARIABLE part

(* At most two requirements, each an installed plugin, one that is not     *)
(* installed, or a requirement of another type.                            *)
Entry == [type : {"plugin"}, id : 0 .. N] \cup {[type |-> "capability", id |-> 0]}
RequirementLists ==
  {<< >>} \cup {<<e>> : e \in Entry}
    \cup {<<e, f>> : e, f \in [type : {"plugin"}, id : 1 .. N]}

On(i) == <<[type |-> "plugin", id |-> i]>>

(* Chains and forks towards the first or the last of the registration      *)
(* list, and the cycles through both.                                      *)
FirstOrLast == {<< >>, On(1), On(3)}

PartsInit ==
  /\ part \in Parts
  /\ Init
  /\ part = "hooks" => requires \in [Plugin -> FirstOrLast]
  /\ part # "hooks" => distinctIds /\ ~loopRunning
  /\ part \in {"middlewares", "others"} =>
       /\ requires[1] = << >> /\ requires[2] \in {<< >>, On(1)}
       /\ \A p \in Plugin \ {1, 2} : requires[p] = << >>

NoMiddlewares == middlewares = << >>
AsyncInLoop == loopRunning \/ \A i \in 1 .. Len(hooks) : ~hooks[i].async
NothingElse == routes = << >> /\ capabilities = {} /\ \A x \in Points : points[x] = "none"
NoCallbacks == \A i \in 1 .. Len(hooks) : hooks[i].kind = "shutdown" /\ ~hooks[i].async
NothingFails == ~blocked /\ startupError = "none" /\ phase # "exited" /\ raised # "hook"

TwoRegister == active \in {1, 2} \/ UNCHANGED <<routes, capabilities, middlewares, points, contributions>>

Taken ==
  /\ UNCHANGED part
  /\ CASE part = "order" -> (NoMiddlewares /\ NothingElse /\ NoCallbacks /\ NothingFails)'
       [] part = "hooks" -> (NoMiddlewares /\ NothingElse /\ AsyncInLoop)'
       [] part = "middlewares" -> (NothingElse /\ NoCallbacks)' /\ TwoRegister
       [] part = "others" -> (NoMiddlewares /\ NoCallbacks)' /\ TwoRegister

PartsNext == Next /\ Taken

(* In every part a step of build() or of the drain is among those taken    *)
(* whenever there is one.                                                  *)
PartsSpec ==
  /\ PartsInit /\ [][PartsNext]_<<vars, part>>
  /\ WF_<<vars, part>>(BuildStep /\ Taken) /\ WF_<<vars, part>>(DrainStep /\ Taken)
==============================================================================
