---------------------------- MODULE UseCaseRoutes -----------------------------
(***************************************************************************)
(* The use cases of the applications of one process: ModularApi.module and *)
(* ModuleBuilder.usecase fill the process-wide api_registry and a router   *)
(* per module; build() mounts the routers before the routes of the plugins *)
(* and the OpenAPI document is made from the registry.                     *)
(*                                                                         *)
(* A name is a sequence of words and of the "-" or "_" between them, and a *)
(* path the sequence of the names that "/" splits it into: "/api" is       *)
(* <<Empty, <<"api">>>> and "/" is <<Empty, Empty>>.  Routing is           *)
(* Starlette's: the first mount that is a prefix answers, also when it has *)
(* no such route.                                                          *)
(***************************************************************************)
EXTENDS Naturals, Sequences, SequencesExt

CONSTANTS
  App,           \* ModularApi instances
  BasePath,      \* the base path of each
  Modules,       \* module names
  UseCaseLists,  \* what a callback registers: <<command, method>> in order
  PluginPaths,   \* relative paths of the routes of the plugins
  MaxModules     \* bound: module() calls

Empty == << >>
Segment == Seq(STRING)
UseCase == Segment \X STRING

ASSUME RoutesAssumption ==
  /\ BasePath \in [App -> Seq(Segment) \ {<< >>}]
  /\ Modules \subseteq Segment
  /\ UseCaseLists \subseteq Seq(UseCase)
  /\ PluginPaths \subseteq Seq(Segment)

VARIABLES
  registry,  \* api_registry.routes
  mounts,    \* of each application, in order
  document   \* operations of its OpenAPI document, once built

routeVars == <<registry, mounts, document>>

RoutesInit ==
  /\ registry = << >>
  /\ mounts = [a \in App |-> << >>]
  /\ document = [a \in App |-> << >>]

------------------------------------------------------------------------------
(* ModularApi._normalize_base leaves "/" and a trailing slash as they are. *)
NormalBase(base) == IF base[1] = Empty THEN base ELSE <<Empty>> \o base

(* The paths of plugin routes lose every empty segment instead.            *)
JoinPath(base, relative) ==
  LET all == base \o relative
      kept == {k \in 1 .. Len(all) : all[k] # Empty}
      Nth(n) == CHOOSE k \in kept : Cardinality({j \in kept : j <= k}) = n
  IN  <<Empty>> \o [n \in 1 .. Cardinality(kept) |-> all[Nth(n)]]

(* Mutant: the documented path keeps the base as it was given.             *)
RegisteredAsGiven(a, name, use) ==
  [app |-> a, module |-> name, command |-> use[1], method |-> use[2],
   path |-> BasePath[a] \o <<name, use[1]>>]

(* ModuleBuilder.usecase for one command.                                  *)
Registered(a, name, use) ==
  [app |-> a, module |-> name, command |-> use[1], method |-> use[2],
   path |-> NormalBase(BasePath[a]) \o <<name, use[1]>>]

(* Modules are registered before the application is built.                 *)
AddModule(a, name, uses) ==
  /\ document[a] = << >>
  /\ FoldFunction(LAMBDA m, n : Len(m) + n, 0, mounts) < MaxModules
  /\ registry' = registry \o [k \in 1 .. Len(uses) |-> Registered(a, name, uses[k])]
  /\ mounts' = [mounts EXCEPT ![a] = Append(@, [path |-> NormalBase(BasePath[a]) \o <<name>>,
                                                routes |-> uses])]
  /\ UNCHANGED document

Clear ==
  /\ registry # << >>
  /\ registry' = << >>
  /\ UNCHANGED <<mounts, document>>

(* _add_route_to_spec: an operation for each registration, the last one of *)
(* a path and method.                                                      *)
Operation(r) == <<r.path, r.method>>

Build(a) ==
  LET Latest(key) == Max({i \in 1 .. Len(registry) : Operation(registry[i]) = key}) IN
  /\ document' = [document EXCEPT ![a] =
       [key \in {Operation(registry[i]) : i \in 1 .. Len(registry)} |-> registry[Latest(key)]]]
  /\ document' # document
  /\ UNCHANGED <<registry, mounts>>

RoutesNext ==
  \/ \E a \in App, name \in Modules, uses \in UseCaseLists : AddModule(a, name, uses)
  \/ Clear
  \/ \E a \in App : Build(a)

RoutesSpec == RoutesInit /\ [][RoutesNext]_routeVars

------------------------------------------------------------------------------
(* Routing.                                                                *)
Captures(mount, path) == IsStrictPrefix(mount.path, path)

Has(mount, path, method) ==
  \E k \in 1 .. Len(mount.routes) : <<mount.path \o <<mount.routes[k][1]>>, mount.routes[k][2]>> = <<path, method>>

(* The mount that answers, 0 for the plugins.                              *)
Answering(a, path) ==
  LET capturing == {i \in 1 .. Len(mounts[a]) : Captures(mounts[a][i], path)}
  IN  IF capturing = {} THEN 0 ELSE CHOOSE i \in capturing : \A j \in capturing : i <= j

Served(a, path, method) ==
  LET m == Answering(a, path) IN m # 0 /\ Has(mounts[a][m], path, method)

Own(a) == {r \in {document[a][k] : k \in DOMAIN document[a]} : r.app = a}
OnceIn(a, name) == \A i, j \in 1 .. Len(mounts[a]) : mounts[a][i].path = name /\ mounts[a][j].path = name => i = j

(* Whatever the base path, every operation that an application registered  *)
(* and documents is served at the documented path, as long as no second    *)
(* module() call takes the same name; and a plugin route of one segment is *)
(* never captured by a module.                                             *)
DocumentedIsServed ==
  \A a \in App :
    /\ \A r \in Own(a) :
         OnceIn(a, NormalBase(BasePath[a]) \o <<r.module>>) => Served(a, r.path, r.method)
    /\ \A relative \in PluginPaths :
         Len(relative) = 1 => Answering(a, JoinPath(BasePath[a], relative)) = 0
==============================================================================
