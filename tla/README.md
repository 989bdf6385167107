# Verification of modular_api

TLA+ specifications, TLC runs and TLAPS proofs for the Python packages under
`src/code/py/`. modular_api builds an HTTP application out of *use cases*
(classes with `validate` and `execute`) and *plugins* (objects that register
routes, middlewares, capabilities, validations and shutdown hooks on a host).
The Dart and TypeScript packages are ports of the same design; the Python
sources are the ones modelled here.

Paths below are relative to `src/code/py/modular_api/src/modular_api/` unless
they start with another directory.

Contents: 1 inventory, 2 modules and their correspondence with the code,
3 runs and bounds, 4 fairness, 5 proofs, 6 findings, 7 what is left out,
8 plan.

## 1 Inventory

### 1.1 Start-up: plugin ordering, host, application

| Part | State | Operations |
|---|---|---|
| `order_plugins` (`core/plugin.py:232`) | `visit_state`, the list built so far, the recursion | `visit` for every plugin of the registration list |
| `RuntimePluginHost` (`core/plugin.py:276`) | routes, capabilities, middlewares, extension points and their values, startup validations, shutdown callbacks, the active plugin, `_frozen` | the `register_*`, `expose_*`, `require_*`, `declare_*`, `contribute_*`, `add_*`, `on_shutdown` calls; `freeze`, `assert_valid`, `shutdown`, `shutdown_sync`, `middlewares_for_slot` |
| `ModularApi.build` and its lifespan (`core/modular_api.py:163`) | the phase of startup, the error raised | id check, ordering, set-up, freeze, validation, assembly of the stack; on failure or stop, the drain |
| official plugins (`core/official_plugins.py`) | snapshots of the host's routes; the OpenAPI document as a capability | five `setup` methods, appended to the user's plugins |

*Interaction.* `build()` orders the plugins, calls each `setup` with the host,
registers the plugin's `shutdown` behind whatever hooks `setup` registered,
freezes the host, calls each `validate`, and turns routes and middlewares into
a Starlette application. A failure anywhere in set-up or validation drains the
hooks and rethrows; the lifespan drains them when the server stops.

*Hard behaviour.* Requirement graphs with diamonds and cycles; failure after
some plugins are up; hooks that raise or cannot be awaited; plugins that keep
the host and call it late; official plugins that read what has been registered
*so far*.

*What makes it correct.* A plugin comes after everything it requires and is
torn down before it; the order or the error agrees with the graph; nothing is
registered after the freeze; hooks run backwards, each once; shutdown implies
set-up; an application that serves is complete; the document and the metrics
labels cover exactly the routes they should.

### 1.2 Request pipeline

| Part | State | Operations |
|---|---|---|
| tracing middleware (`core/tracing/tracing_middleware.py`) | the server span | opens it, notes the status on the way out, ends it |
| logging middleware (`core/logger/logging_middleware.py`) | `status_code`, the log lines | "received", then "completed" with the short-circuit audit or "unhandled" |
| error normalisation (`core/error_response_middleware.py`) | none | an exception becomes a 500 |
| plugin and user middlewares (`core/plugin.py:530`, `core/request_pipeline_audit.py`) | the short-circuit candidate of the request | call next, answer, raise, catch, retry |
| metrics middleware (`core/metrics/metrics_middleware.py`) | in-flight gauge, request counter, `status_code` | increments, decrements in `finally` |
| `usecase_handler` (`core/usecase_handler.py`) | stage of the request | parse, build, validate, execute, encode |

*Interaction.* A stack of ASGI calls. Responses travel outwards through the
`send` wrappers of the layers above; exceptions travel outwards through their
`except` and `finally` clauses; concurrent requests share the gauge.

*Hard behaviour.* An exception after the response has started; a middleware
that swallows an exception and answers or retries; cancellation, which no
`except Exception` sees; the same middleware id used twice.

*What makes it correct.* Every request that is not cancelled is answered; the
gauge is exact; the log line, span, counter and audit tell what the client saw.

### 1.3 GraphQL

| Part | State | Operations |
|---|---|---|
| metadata reader (`graphql/sqlserver/sql_server_metadata_reader.py`) | the objects loaded so far | four queries on one connection: objects, fields, identities, relations |
| metadata parser, catalog builder, schema generator (`graphql/metadata/`, `graphql/catalog/`, `graphql/schema/`) | the diagnostics | a sidecar document and a physical model become a catalog and its SDL |
| artifacts (`graphql/runtime/graphql_artifacts.py`) | four files | compile and write, load, resolve |
| runtime plugin (`graphql/runtime/graphql_runtime_plugin.py`) | `status`, the ready state (catalog, schema, dispatcher, resolvers) | `setup`, `validate`, `shutdown`, the POST handler with its limits and events, the resolvers of items, collections and totals |
| relation batch loader (same file, 416-482) | cache of futures, queued keys, the scheduled flag | `load`, `_schedule_flush`, `_flush` |
| read compiler (`graphql/read/sqlserver_read_compiler.py`) | parameters of a command | item, collection, count, relation batch |

*Interaction.* The reader and the sidecar feed the builder, by a compiler ahead
of time (artifacts) or at start-up. `validate` takes the catalog from the
artifacts when their digest is the one of the source, and builds the schema from
it; a request parses its arguments against the catalog, compiles commands, and
joins relations through the loader.

*Hard behaviour.* A schema that changes between the four queries; a compiler
that crashes between two files, or writes while a process starts; names that are
derived and collapse; rows that change between the items and the total of one
answer; loads of many resolvers that interleave with flushes that succeed or
fail; a request cancelled while a flush reads or an event is reported; fragments
that are spread more than once.

*What makes it correct.* The catalog publishes what the sidecar allows and
nothing is ambiguous in it; what is served from artifacts is whole and current;
an answer is the page and the total asked for; limits refuse what exceeds them
and nothing else (the first half fails for a fragment spread twice: finding 8);
identities are columns that are there, shown and not null (they need not be:
finding 7); every load is answered with the rows of its own parent, no key
is read twice at a time, a failed batch concerns only its own keys; every
request is reported as started and as completed.

### 1.4 Clients and services

| Part | State | Operations |
|---|---|---|
| PostgreSQL client (`code/py/modular_api_postgres/`) | the session lease of each call, the spans of a thread | query, execute, scalar, transaction, also from a repository or inside a transaction; close, describe, probe |
| SQL Server client (`code/py/modular_api_sqlserver/`) | the lease; it has no tracing | the same |
| REST client (`code/py/modular_api_rest_client/`) | whether it is closed; of a call, its span | execute, close |
| GraphQL client (`code/py/modular_api_graphql_client/`) | whether it is closed; it starts no span | execute, close |
| health service (`core/health/`) | registered checks | concurrent evaluation with a timeout each |
| metrics registry (`core/metrics/`) | names, families, children, buckets | register, change, serialize |
| propagation (`core/tracing/propagation_policy.py`, `cloud_trace_propagator.py`) | none | which incoming trace context is trusted |
| module builder and registry (`core/module_builder.py`, `core/registry.py`) | the process-wide `api_registry`, a router per module | `module`, `usecase`; the OpenAPI document is made from it |

*Hard behaviour.* Acquire, work and release of a database call can each fail or
raise, and a transaction body makes further calls; a timeout meets a late
answer, a check's as well as a server's; the body of an error response cannot be
read; trace headers are lost, damaged or added; one application's routes enter
another's document.

*What makes it correct.* A session that is out belongs to one active call;
spans end and nest as the calls do; an outcome is reported once and truthfully;
the worst health status wins; an exposition counts what was done; what is
documented is served; a call returns its failures (one may raise: finding 6).

### 1.5 Data without control

CORS headers, the log formatter, JSON-schema reflection of use cases, the layout
of the SDL and of the OpenAPI document, the docs UI: pure functions or static
files, not modelled. `PROJECT.json` lists each with its reason.

## 2 Modules

| Module | Models | Kind |
|---|---|---|
| `PluginOrder` | `order_plugins` | one step per loop iteration |
| `Startup` (extends `PluginOrder`) | `ModularApi.build`, lifespan, host | one action per host call and per phase |
| `OfficialPlugins` (extends `PluginOrder`) | the five official `setup` methods among user plugins | one action per `setup` |
| `RequestPipeline` | the middleware stack, many requests | one action per layer and direction |
| `KeyedReads` | what a relation loader promises | abstract specification |
| `RelationLoader` | `_RelationBatchLoader` | implements `KeyedReads` |
| `DbClient` | the clients for PostgreSQL and SQL Server: `DbClient`, `DbRepository`, `DbTransactionContext` and the tracing decorators | one action per step of a call |
| `GraphqlNames` | the naming policy | pure |
| `GraphqlCatalog` | metadata queries, sidecar parser, catalog builder, scopes of the schema | one action per query and per stage |
| `GraphqlReads` | arguments, read compiler and the engine that executes its commands | one action per command |
| `GraphqlLimits` | depth and complexity of a document | pure |
| `GraphqlArtifacts` | compiler, files, and a start that reads them | one action per file operation and per stage of the start |
| `GraphqlService` (extends `GraphqlArtifacts`) | requests of a runtime over the life of a deployment | one action per outcome of a request |
| `UseCaseRoutes` | module builder, registry, mounts, document | one action per call |
| `HealthService` | `HealthService.evaluate` and its handler | one action per event of a check |
| `Metrics` | registry, metric types, exposition | one action per call |
| `OutboundCalls` | REST and GraphQL client, client span, propagation, server span | one action per stage of a call |
| `MCStartup`, `MCRequestPipeline` | model values, and parts in which the variety of one input is kept from multiplying that of another | for TLC |
| `MCGraphql`, `MCSurface` | composition of the parts that share no changing state, their model values; in `MCGraphql` also the documents measured and the properties of their limits | for TLC |
| `PluginOrder_proofs`, `Startup_proofs`, `OfficialPlugins_proofs`, `RequestPipeline_proofs`, `RelationLoader_proofs`, `DbClient_proofs` | theorems about the module of that name | for TLAPS |
| `Graphql_proofs` | theorems about `GraphqlCatalog`, `GraphqlArtifacts` and `GraphqlService` | for TLAPS |
| `Surface_proofs` | theorems about `UseCaseRoutes`, `HealthService`, `OutboundCalls` and `Metrics` | for TLAPS |

Definitions written as *mutants* (their comment begins with "Mutant:") are not
part of any specification. Each is a plausible mistake in the definition that
follows it; with the mistake in place the property it belongs to fails, which
shows that the property depends on the code being as it is.

### 2.1 PluginOrder

`visit_state` is `visitState` ("new" for an absent key). The recursion of the
`visit` closure is `stack`, one frame per active call: the plugin and the index
of the next requirement. `VisitRoot` is the outer loop; inside a call,
`SkipRequirement`, `VisitDependency`, `DependencyMissing` and
`DependencyCycle` are the outcomes of one iteration, and `PlacePlugin` is the
end of the call. Plugins are numbered by registration; 0 is an id that is not
installed. Ids are distinct because `build()` has checked that before. The
verdict is compared with the graph itself: p reaches q when every set that
holds what p requires, and with a plugin all that it requires, holds q
(`Closed`, `Reaches`).

### 2.2 Startup

`phase` is the place in `build()` or the lifespan. `HostCall` is any call of
the registration surface, made by plugin code that is running (`InPluginCode`):
in `setup`, in `validate`, in a hook, or from a handler while serving. An
accepted call changes one registration; a rejected one raises
`PluginHostError`, which out of `setup` or `validate` fails the startup.
`EndSetup` registers the plugin's own `shutdown` after the hooks its `setup`
registered, as in `modular_api.py:214-216`. `BeginDrain` ... `DrainEnds` are
`shutdown_sync` (phase "abort") and `shutdown` (phase "stop"): the loop pops
from the end, calls, and awaits; a hook that raises leaves it. An async hook
cannot be driven from inside a running loop (`Undrivable`). `SetupExits` is an
exception that is not an `Exception`.

### 2.3 OfficialPlugins

The order comes from `PluginOrder` over user and official plugins. `labelled`
is the snapshot `registered_paths` of the metrics plugin, `spec` the set of
routes the OpenAPI plugin merged into its document, `exposed` the capability
that the docs plugin requires. `SnapshotsAreComplete` puts the three together.

### 2.4 RequestPipeline

A request is at a depth (0 the server, 1 tracing, 2 logging, 3 error
normalisation, then `Stack`, then the endpoint) and a direction: going in,
running a middleware's own code, having caught, or coming out with a `result`.
`Send` is a start message on its way out: it updates the `status_code` of the
wrappers *above the sender* and then reaches the server, which refuses a second
one. `candidate` is `RequestPipelineAudit.short_circuit`.

### 2.5 KeyedReads and RelationLoader

`KeyedReads` has callers and answers, and no batches: a read answers some keys
that were asked for, once; a caller gets the answer that is known for its key,
or fails. `RelationLoader` has the code's cache of futures, queue, flag, event
loop callbacks and flush tasks. The refinement reads `known` off the cache: the
rows of a future that is done. Rows carry the number of the read they came
from, so that answers of two reads are told apart.

### 2.6 DbClient

`calls[c]` is the Python call stack of thread `c`, as far as the client is
concerned: one frame per active call with its stage (acquire, work, release) and
the session it holds. `Call` is query, execute, scalar or transaction, which
all acquire, work and release in this order (`_with_lease` and
`DbClient.transaction` repeat the same lines); `CallInner` is a command of a
transaction context, which works on the session of its transaction. Provider,
executor and runner belong to the application: each answers with success
or failure (`Acquired`, `AcquireFails`, `WorkEnds`, `Released`,
`ReleaseFails`) or raises (`Raises`). A raise ends one frame; the transaction
body around it goes on or raises in turn. A provider may hand out a session that
the application owns; its release does nothing, and it is no lease here.

The SQL Server client repeats the PostgreSQL one line by line, its settings and
the tracing apart; a thread outside `Sampled` is a thread of either.

`spans[c]` are the spans the decorators have started for a thread that came with
a recording span, `current[c]` the ambient one. `lost` is not a variable of the
program: it remembers which sessions an exception or a failed release has kept
out, which the code does not.

### 2.7 GraphqlNames and GraphqlCatalog

A name is the words the naming policy tokenizes out of it and a style; deriving
again sees the words only, which is how two names collapse. `LoadObjects` ...
`LoadRelations` are the four queries on one connection; each folds its rows into
the objects that the first one returned, and a row of another object raises.
`SchemaChanges` falls between any two. `ParseDocument` and `BuildCatalog`
compute catalog and diagnostics as the parser and the builder do: what has the
wrong shape is reported and read as absent. The application's factory may stop
at errors (`FactoryRejects`) or not look. `BuildSchema` is graphql-core's
validation of the generated text, a scope at a time (`QueryScope`, `TypeScope`,
`ObjectScope`, `OrderScope`, `FilterScope`, `KeyScope`). `TypeScope` has the
names made from objects and the query root; the generator's fixed types
(`SortDirection`, `OffsetPageInput`, the filter inputs of scalars) are left out, so
the model builds a few schemas that graphql-core refuses. What is shown of a
schema that builds is then shown of more schemas than there are.

`CatalogIsSound` states the invariants of the contract's section 1.4 that the
builder enforces: items 2, 6, 7 and 8, and that names differ. Items 3 and 9 are
`KeysAreUsable`, which it does not enforce (finding 7).

### 2.8 GraphqlReads and GraphqlLimits

A request is a filter tree, an order, a page and a selection, `Resolve` parses
it, `CompileCollection`, `CompileCount` and `CompileItem` produce clauses that
refer to parameters by number, and the engine evaluates them with three truth
values against a table that `TableChanges` replaces between the commands.
`Meaning`, the reference, evaluates the filter as it was written, without
parsing or numbering. `FilterAccepted` is the part of the parser that refuses: null
in the place of a field's operators.

`Walk` is `_selection_set_depth` and `_selection_set_complexity`, which visit
alike; `Expansion`, its reference, replaces every spread by its fragment.

### 2.9 GraphqlArtifacts and GraphqlService

A *generation* is a version of the source and stands for the catalog built from
it; two generations may have one digest. `OpenFile` empties a file and
`FillFile` fills it, as `write_text` does; `Crash` is possible in between.
`FileOrder` has the two files that are read back; the other two are written
after them. `AskDigest`, `ReadLock`, `ReadCatalog`, `BuildFromSource` and
`BecomeReady` are the stages of `validate`, with the compiler running beside
them. `GraphqlService` adds requests: `Refuse`, `Execute`, `Raises` and
`Cancelled` are what becomes of one between its two events. A request is
limited by the depth and the complexity of its document, the constant `Measure`;
`MCGraphql` gives it the values that `GraphqlLimits` computes
(`Measures`), and `LimitsAreExact` compares the decisions with the document
expanded, where no operation spreads a fragment twice; `LimitsAreEnforced` has no
such condition (finding 8).

### 2.10 UseCaseRoutes

`registry` is `api_registry.routes`, of the process; `mounts` the routers of each
application in order. Paths are sequences of names, so that the base paths "",
"/", "api" and "/api" differ as in the code, where only a missing first slash is
added. `Served` is Starlette's rule: the first mount that is a prefix answers.

### 2.11 HealthService

`entries` is what `gather` collects, `happened` how each check really ended.
A timer that fires cancels its check, which may still answer: `wait_for` returns
that answer. `CheckCancelled` is a `CancelledError`, which passes every handler.

### 2.12 Metrics

`families` is the registry, `told` what the application did to each label set,
remembered separately; `ExpositionIsExact` compares what is exposed with it.
`Create` reserves the name before the buckets are validated. `root` is what is
done without labels (`RootsAreExposed`, finding 5). The reference definitions
`Total` and `AtMost` go over the whole history of a label set; the code keeps a
running value and cumulative counts.

### 2.13 OutboundCalls

One hop. `Execute` ... `Report` are the stages of `execute`, `span` and `hooks`
what the tracing and the telemetry say of it; the two clients differ in that
only the REST one starts a span. `Travel` is the network, `Arrive` and `Serve`
the service called, whose parent span `Resolve` takes from the headers by its
policy. `Close` may come at any time from another thread. Statuses stand for their
classes: 200; 304 for a redirect that is not followed, which urllib raises as
`HTTPError` like everything that is no success; 401, 429 and 500. From 400 the
span is an error, below it is not, and the call fails either way
(`CallIsReported`). When the body of such an answer cannot be read, `execute` raises
(`CallsReturnResults`, finding 6).

## 3 Runs and bounds

All runs are exhaustive; none uses a state constraint. Bounds are guards or
constants, and each is named in the module.

| Run | Instance | Shows |
|---|---|---|
| `startup` | `MCStartup`, 3 plugins, four parts, see below | the verdict and the order agree with what reaches what in the graph, ties keep registration order; teardown order, freeze, completeness; nesting of the assembled stack; registrations are never replaced; startup, with its search, and stop end |
| `startup_failed_drain` | the part `hooks` of `MCStartup` | violation, see 6 |
| `official_required` | 2 user plugins that may require any other, also official ones | violation, see 6 |
| `request_pipeline` | `MCRequestPipeline`, five middlewares (an id used twice), `MaxCalls = 5`, two parts, see below | answer, observers and audit; the gauge |
| `graphql` | `MCGraphql`, four parts, see below | catalog, reads, artifacts and requests, relation loader |
| `relation_names` | two loads, different column names on the two sides | violation, see 6 |
| `reads_order` | reads without an order, or ordered by an enum value | violation, see 6 |
| `catalog_keys` | the part `catalog` of `MCGraphql` | violation, see 6 |
| `limits_spread` | the part `service` of `MCGraphql` | violation, see 6 |
| `surface` | `MCSurface`, six parts, see below | official plugins, routes, health, metrics, calls, database calls |
| `metrics_roots` | metrics alone | violation, see 6 |
| `client_raises` | one outbound call | violation, see 6 |

*Composites.* The parts of `MCGraphql` hand each other values that do not
change once they are made (a catalog, parsed arguments), and those of
`MCSurface` share nothing but the process. A variable `part`, chosen initially,
says which of them runs; the others rest in an initial state. Since no part reads
a variable of another, every behaviour of a part alone is a behaviour of the
composite, and no property speaks of two parts.

`MCStartup` and `MCRequestPipeline` have parts of another kind: the whole module
runs in each, and `Taken` names the steps that a part leaves out, so that the
bounds of its inputs add up instead of multiplying. `Taken` only forbids: a
behaviour of a part is one of the module.

- `startup`: `order`, every manifest with at most two plugin requirements,
  installed or not, where plugin code registers and breaks nothing; `hooks`, a
  requirement on the first or the last plugin, `MaxRegistrations = 2` hooks, and
  failures everywhere; `middlewares`, two plugins that register up to two
  middlewares with orders 0 and 1 in three slots; `others`, two plugins that
  register two route keys, a capability, an extension point and contributions.
- `request_pipeline`: `alone`, one request where every layer does what it may;
  `together`, two requests that share the gauge, retried by the outermost
  middleware only and with one status for a use case's own.
- `graphql`: three objects (two tables and a view), every pair of 14 sidecar
  entries, `MaxDdl = 1` schema change; three rows and two more contents of the
  table, filters up to three deep, `MaxWrites = 1`; three generations, two of
  one digest and one with a schema that does not build, `MaxCompiles = 2`, one
  request out of five documents; three loads of two parents with swapped columns.
- `surface`: two user and five official plugins; two applications, one based
  on "/", `MaxModules = 3`; two checks that may have one name; three label
  sets, two with one key, three bucket lists, `MaxSteps = 3`; one call through
  a network that drops, damages or adds headers, to services that ask for the
  one header first or for the other; two threads on a database
  client, one of them sampled, two sessions, `MaxCalls = 4` between them.

*Why the bounds suffice.* Three plugins make every shape the search tells
apart: a chain, a fork, a diamond's closing edge (a requirement already placed
by another branch), cycles of length one to three and a missing plugin below
the root. Two hooks beside the three shutdowns put callbacks of different
plugins on both sides of a shutdown. Five middlewares hold the metrics plugin
inside one plugin middleware and outside two, one of which shares an id with
the outermost; five calls allow each user layer once and a retry of the
deepest. Four calls on the database client are three nested ones in a thread (a
transaction, one in it, a command in that one) and a competing call of the
other; or all four in one thread, the last after an inner transaction, where the
span that is current again matters. Three loads are the least with which a load
falls between the start of one flush and the start of the next while a first
batch is being read: two of the same key, one of another. One schema change is
enough to fall between any two of the four queries, and one write between the
two commands of an answer. Two compilations leave the files of two generations
side by side, by a crash or because a start reads between them; the third
generation tells an equal digest from an equal catalog. Two checks are the least
that can disagree, share a name, or end in either order. Three modules are two
applications, one of which takes a name twice. Three changes put an observation
below, on and above a boundary.

`CHECK_DEADLOCK FALSE` is set throughout because every system here comes to its
end: a search returns, an application stops, requests are done.

## 4 Fairness

- `PluginOrder`, `OfficialPlugins`: weak fairness of the next step; straight
  synchronous code.
- `Startup` (and `MCStartup`, of those steps that a part takes): weak fairness of `BuildStep` and of `DrainStep`, each a sequence
  of calls that goes on as long as plugin code returns. No fairness for host
  calls, and none for `StopRequested`: nothing makes a server stop, so the
  liveness properties are "startup serves or fails" and "a stop that is asked
  for happens".
- `RequestPipeline`: weak fairness of each request's `Step`, in
  `MCRequestPipeline` of those a part takes. Cancellation is never required.
- `RelationLoader`: weak fairness of the resumption of each await, of the
  event loop's callback and of each flush: the executor answers or fails.
  No fairness for new loads or for cancellation.
- `HealthService`: weak fairness of each visit's steps: timers fire, and a
  check that is cancelled ends (`wait_for` waits for it). A check need not
  answer by itself.
- `DbClient`: weak fairness of each thread's `Step`: provider, executor,
  runner and transaction bodies come back, with a result or an exception. No
  fairness for new calls.

## 5 Proofs

TLAPS proves the theorems below for every value of the constants that satisfies
the modules' named assumptions: `OrderAssumption` (a natural number of plugins
and lists of requirements over them), `StartupAssumption`,
`PipelineAssumption` (finitely many requests, at most one metrics middleware),
`DbAssumption` (the sampled threads are threads), `LoaderAssumption` (finitely
many loads; a relation has as many columns on one side as on the other, and no
name twice among the source's), `OfficialAssumption` (five official plugins
follow the user's), `RoutesAssumption` (paths are sequences of segments),
`CatalogAssumption` (a sidecar that is read has names and integers where it has
anything), `HeaderAssumption` (a header with a context is no marker, and span
ids in headers are span ids), `ArtifactsAssumption`, `OutboundAssumption` and
`HealthAssumption` (markers such as `Missing` or `Absent` are told from data),
`ServiceAssumption` (limits are positive and a document measures two naturals)
and `MetricsAssumption` (amounts and boundaries are integers).
Two theorems have a hypothesis of their own, which is named with them below;
without it each is false, and a run shows that. TLC checked every invariant on
the instances above first.

**`PluginOrder_proofs`.** `DependenciesFirst` alone is not inductive: when a
plugin is placed, what its requirements are known to be must come from the
loop. `OrderInv` adds `Marks` (the plugins marked "visited" are those in
`ordered`, those marked "visiting" are those on the stack), `Distinct` (no
plugin is in either twice), `Looped` (every requirement a frame has passed is
placed, except the one whose call is directly above) and `Chained` (that call
is for the requirement passed last). From these follow `DependenciesComeFirst`,
`OrderIsComplete` (a search that returns yields a permutation; the outer loop
has marked everything) and `CycleReportIsSound` (the chain of frames is the
cycle).

`VerdictIsOfTheGraph` and `RegistrationOrderIsKept` speak of the whole graph.
Reachability by closed sets needs no induction over paths: to use it, one names
a set, and the proof takes the plugins placed before a given place, which are
closed because dependencies come first; a plugin of a cycle would be one of
those placed before itself. `GraphInv` adds that an inner call is reached from
every outer one (`Below`), that the outer loop is at its root with everything
before it placed (`AtRoot`), and that each plugin placed is a root or reached
from one, all that was registered before that root being placed earlier
(`Placed`).

`SearchDescends` is what is safety in the end of the search, which `StartupEnds`
needs: until the search is
over one of its steps is possible, and a step visits a new plugin, or lowers the
stack, or shortens what is ahead of the loops. The conclusion from fairness is
left to TLC.

**`Startup_proofs`.** `StartupInv` is `OrderInv` together with `HostInv`: hooks
are in the order in which their owners were set up (`InOrder`), a hook belongs
to a plugin whose set-up has begun (`Owned`), each plugin set up has exactly one
shutdown and no other has one (`Shutdowns`), and the drain has called precisely
the hooks above its index, downwards (`Drained`); `Phased` says what the phase
means for the rest.
`DependentsAreStoppedFirst` then combines the order of set-up with
`DependenciesFirst`: a dependency's hooks are below those of its dependents,
and the drain goes downwards. `ServedIsComplete` uses `OrderIsPermutation`;
`FrozenForGood` is an action property, one case per host call.
`HooksRunBackwards` also needs `FullDrain`, that a stop sets out with every hook,
which holds as nothing registers one after the freeze.

`RegistrationsAreForGood` is another, from any phase. It rests on `RegInv`: the
keys of the routes are unique, a capability id has one owner, and a contribution
belongs to a point that was declared, at most one to a single point.
`StackIsOrdered` needs two things. `StackIsSorted`: what
`middlewares_for_slot` sorts by and `build()` reverses is a list of all indices
in the order of slot, `order` and registration; the model states the sort by
counting, so `SlotIsSorted` shows that the number of predecessors is a different
place for each, and that each place is taken. `WrapInv`: middlewares are
registered in the order of set-up, from which `SortedIsOrdered` takes the side of
a tie with `DependenciesFirst`.

**`OfficialPlugins_proofs`.** Uses `OrderInv` again. Official plugins require
nothing and come last in the list, so while the user's manifests name user
plugins only (`UsersRequireUsers`), the search reaches an official plugin from its
outer loop alone (`Alone`), when everything before it in the list is placed
(`InPlace`). `SnapshotsOK` says what a plugin that is set up has taken, and
`SnapshotsSeeEveryRoute` follows. Without the hypothesis: finding 2.

**`RequestPipeline_proofs`.** The gauge: all layers but the metrics middleware
move a request by at most one depth and keep it on its side of that layer
(`Walk`), and the two steps of the metrics middleware change gauge and side
together; the rest is the cardinality of a set that gains or loses one element.
Answers: `Settled` says of a request on its way out that what
returned has been answered, and that what raised outside error normalisation
has been answered too, for there only a second start message raises.

The observers: `Told` says of each request what log, span, counter and audit
know at its place in the stack, and `ObserverInv` adds it to the above. The
point is what cannot come after an answer. A request on its way out has sent its
last start message, so what a wrapper above the sender noted is what the client
got (`SendTells`); outside an observer its record is the end of the request
(`Ended`, `Counted`); and the candidate of a short circuit is cleared by the middleware that
calls on, if it is its own (`ClearedCandidate`). `ObserversTellTheTruth` and
`AuditTellsTheTruth` follow.

**`RelationLoader_proofs`.** The cache ties the actors together. `Underway`: a
key that is queued or being read has a future in the cache that is pending;
`Awaited`: a pending future is queued or being read, in one place (`ReadOnce`).
`KeysApart` gives two keys two futures. Hence a flush that fails takes futures of
its own out of the cache only, and what a load awaits stays there unless it
failed (`LoadOK`, `AskedFor`). From `LoaderInv` follow `ReadsDoNotOverlap`,
`FuturesAreSettledOnce` and the refinement: `LoaderKeepsPromise` maps each
action to a step of `KeyedReads` or to none (`AskSimulated`, `ReadSimulated`,
`FailureSimulated`, `EndSimulated`, `CancelSimulated`). `AnswersAreOfTheParent`
needs `RowsOK` and the hypothesis `SourceNames = TargetNames`; without it:
finding 3.

**`DbClient_proofs`.** A step touches the top of one thread's stack.
`LeaseStep` is the heart: if the stacks agree below position k + 1 of one
thread, and what is held there changes in one of four ways (not at all, a free
session is taken, one is given back, one is lost), the account stays right.
Each action is one of the four. The strengthening is `Unleased` (a call that is
still acquiring, or that is inside a transaction, holds nothing, so that it may
return without a release) and, for the types, `SpanInv`: parents and current
spans are spans that exist, so that leaving `use_span` has one to go back to.

`SpansFormATree` needs the shape of a thread's stack: every frame but the top is
a transaction in its body (`Nested`), a frame's parent is what was ambient below
it (`Branches`), and a span that is open belongs to a frame at work (`Leafless`);
the ambient span is that of the innermost transaction (`TreeOf`). A step lets
the tree grow, change at its top, or shrink: `TreeGrows`, `TreeChanges`,
`TreeShrinks`.

**`Graphql_proofs`, the catalog.** `CatalogInv` follows the stages: `ParsedOK`
says that what was parsed is what the sidecar allows, with every limit that is
wrong reported, `BuiltOK` that the catalog is what the builder makes of it, with
every reason to reject reported, and after the last stage the text builds.
`SoundWhenBuilt` concludes from "nothing is reported" to `CatalogIsSound`. That
resolvers do not collide (`ResolversAreKeptApart`) needs no such condition: the
validation of the generated text compares the names in each scope, and two
resolvers with one key would be two fields of one scope.

**`Graphql_proofs`, the artifacts.** The digest of the source is asked for, then the
lock is compared with it, then the catalog with the lock, while the compiler
writes. `ArtifactsAreCurrent` speaks of the end only. `Agreed` carries what is
known in between: nothing is served yet, and the generation kept from the lock
has the digest asked for; also that the catalog file, which was there when the
lock was read, cannot be missing later. `StorageOK` bounds what a file and the
compiler may hold. `ArtifactsStayCurrent` follows.

**`Graphql_proofs`, the requests.** `EventsArePaired` speaks of requests that are
over. `Reported` adds that a request without events has no answer, so that a
start is reported before anything else; and a request is open only while its
start is the one event, so that nothing answered is touched again. The one step
that does not report what it answers is `Cancelled`, which leaves one event or
two (`CancelledIsReported`). `EventsArePairedAlways` follows. That requests leave
the artifacts alone is a refinement: each of their steps is none of
`GraphqlArtifacts`, or the one that stops the runtime
(`ServiceKeepsArtifactsCurrent`).

**`Surface_proofs`, calls.** The called service goes on by itself, so each phase
of a call says how much of the answer was heard (`Heard`): nothing while the
request is out, a success while the body is read, anything else in the
handler of `HTTPError`. There `Refusal` has two cases, a redirect that was not
followed and no error of the span, or a status from 400 and an error of it; what
was heard stays (`RefusalStays`). `CallOK` adds what that means for the hooks and the
span; `SpanEnds` is the lemma that a span completed twice keeps its first
outcome. `CallsAreReported` follows.

**`Surface_proofs`, traces.** `TraceInv` says what a header may hold after the
network, and that the parent is what `Resolve` makes of it. `ResolveIsFirst`
states `SelectSeq` and its head as a least place: the parent comes from the first
propagator of the chain that finds anything. `FirstPlace`, that a set of places
has a least one, rests on `Least` below. With `CloudRoundTrip`,
what the Google Cloud propagator reads from its own header, `TracesContinue`
follows.

**`Surface_proofs`, routes.** A request is answered by the first mount that is a
prefix of its path. `RoutesInv`: what is registered or documented has a mount of
its own application with its module (`Mounted`). `PrefixIsModule` shows that a
mount of the application that captures a documented path has the module's name,
so the first one that does is another `module()` call of that name only, which
the property excludes. `JoinedIsShort`: under a base, a plugin route of one
segment is never longer than a mount.

**`Surface_proofs`, health.** `EntriesOK` ties each entry to the way its check
really ended (`Tells`): a late result counts as what it says, a check that
raised or ran out of time counts as a failure. Only when the names differ is
the result of a name the entry of its check (`ResultOfName`); then the worst of
the results is the worst of what happened (`WorstOfEntries`). `WorstWins`
follows.

**`Surface_proofs`, metrics.** A child is looked up by its key, so `KeysKept`
says that the children of a family have different keys and that everything told
is under one of them, and `ShowsAll` that a child whose key no other label set
shares shows the whole history. Shared keys are the exception the property
makes, and a key that is shared stays shared, so no step has to restore
anything. The calls are one lemma each (`CreateInv`, `ChangeInv`, `SetInv`,
`RootInv`), and `PutFamily` says that one family moves and the others rest.
`Total` is a recursive function over a history; `TotalOfMore` is what one more
amount does to it. That needs an induction: `Least`, that a set of naturals has
a least element, comes from the well-foundedness of inclusion among finite sets,
and `Induction` says that a set with 0 and the successors of its naturals has
them all. `ExpositionStaysExact` follows.

**Only model-checked.**
- `AnswerIsExact` compares evaluations of filter trees, and `LimitsAreExact`
  measures of selections; the compiler and the walk are recursions over trees,
  RECURSIVE operators here.
- Liveness: this prover handles neither ENABLED nor fairness. `SearchDescends`
  proves of one such property what is safety in it.

The library's induction theorems take an operator as a parameter, which no
installed prover instantiates. Induction over the naturals can be had without
them, as above; over trees it cannot, and a module with a RECURSIVE operator
loses its arithmetic. What is computed over filters and selections is therefore
checked over bounded inputs.

## 6 Findings

1. **A failed startup may leave plugins up** (`startup_failed_drain`). The
   drain has nothing around the call of a hook: a hook that raises ends it, and
   its error replaces the startup error. An async hook does the same when
   `build()` is called inside a running event loop. The documentation promises
   that the hooks run before the error is rethrown.
2. **Official plugins may come before user plugins** (`official_required`). The
   search follows a user plugin's requirement to an official plugin and places
   it first. Routes registered later are missing from the OpenAPI document or
   the metrics labels if it is one of those two.
3. **Relation rows are matched by column names** (`relation_names`). Parent
   keys contain the source object's field names, row keys the target object's.
   When they differ (`ownerId` against `customerId`) nothing matches and every
   parent gets an empty relation. The repository's tests use the same name on
   both sides.
4. **A page needs an order, and no order can be named** (`reads_order`). Every
   collection is read with OFFSET and FETCH, which SQL Server accepts only after
   ORDER BY, and ORDER BY is left out when the query has no `orderBy`. A field
   that is named there arrives as the value of the generated enum, in upper
   case, and is looked up among the camel-case public names.
5. **What is counted without labels is not exposed** (`metrics_roots`). A
   counter has a value of its own, which `inc()` changes, and labelled children;
   `collect` returns the children alone. A gauge's own value disappears with its
   first labelled child. The guide's example counts without labels.
6. **A call may raise** (`client_raises`). The REST and the GraphQL client read and
   decode the body of an error answer inside the handler of `HTTPError`, where
   no other handler of the `try` applies: a connection that breaks, or a body
   that is not UTF-8, leaves `execute()` as an exception and `on_completed` uncalled.
   The specification of the clients says that every operation returns a
   `ServiceResult` and every failure is structured.
7. **Keys are not checked** (`catalog_keys`). Nothing looks whether the columns of
   an identity exist, are nullable or hidden, or whether those of a relation are
   hidden; a sidecar's key is taken as it is. The catalog contract lists both
   among the invariants that are enforced (1.4, items 3 and 9).
8. **A fragment spread twice counts once** (`limits_spread`). The walks that
   measure depth and complexity keep one set of visited fragments per operation:
   a fragment spread first near the root is passed over where it is spread
   deeper, and the document is executed above the limits. The plan's tests say
   that both limits are enforced.

Met while modelling, without a run: a catalog with error diagnostics is served
when the application's factory does not look at them, as nothing between the
builder and the runtime does, where `docs/archive/graphql_catalog_contract.md`
says that such a catalog is invalid for the runtime (1.4, item 10) and "aborts
startup" (3.2); of two checks with one name the later hides the earlier
(`core/health/health_service.py:79`), so `WorstStatusWins` asks for different
names; component schemas of two use cases with one class name share an entry of
the OpenAPI document; the span of a call whose body cannot be read is completed
twice (OpenTelemetry ignores the second); `/health` is not answered when a
check raises `CancelledError`.

## 7 Not modelled

- `build()` called twice on one `ModularApi`, and a lifespan entered twice.
- Exceptions that are not `Exception` outside `setup`, a health check and a
  GraphQL request.
- Metrics disabled by configuration; the text format and the sum of a histogram.
- A middleware that swallows an exception without answering; headers, ids,
  durations; log lines written by use cases.
- Tasks lost to garbage collection or to a loop that is shut down: the flush
  task is referenced by nobody but the event loop.
- Relations with several rows per parent: a parent has one row or none in a
  read. Grouping is by key, so further rows of a parent follow the first.
- Of the database clients: which failure is returned when work and release both
  fail, `close`, `describe` and the health probe, a client that is used after
  `close`, and a transaction context used after its transaction (nothing in the
  code prevents it; which context is used is up to the application).
- Of GraphQL: the resolver wiring and the scalars of graphql-core, LIKE, column
  types, quoting and the text of SQL, warnings, descriptions and positions of
  diagnostics, the JSON of the artifacts, event hooks that raise.
- Of the outbound clients: redirects that urllib follows, URLs, telemetry hooks
  that raise, partial data; of
  propagation, the grammar of the headers; `traceparent` is OpenTelemetry's.
- White space in module and command names; the reflection of schemas.
- CORS, logger, use-case base classes: header and text formatting and
  reflection, without state.
- The Dart and TypeScript packages (ports), the docs UI.

## 8 Plan

1. The resolver wiring: one request from the selection through items, relations
   and totals, composing `GraphqlReads` with `RelationLoader`.
2. The read compiler with its filters flattened into a list of clauses, so that
   the numbering of parameters (`AnswerIsExact`) comes within reach of the
   induction that `Total` uses.
3. Orders that descend, as in `SearchDescends`, for the drain and for a health
   evaluation.
