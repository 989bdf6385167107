--------------------------- MODULE OfficialPlugins ---------------------------
(***************************************************************************)
(* The plugins every application gets (core/official_plugins.py), set up   *)
(* on one host with the user's plugins in the order of PluginOrder: the    *)
(* snapshots of host.routes() that the metrics middleware and the OpenAPI  *)
(* document take during setup, and the capability that carries the         *)
(* document to the docs page.                                              *)
(***************************************************************************)
EXTENDS PluginOrder

CONSTANTS
  Users,          \* number of user plugins
  UserRequires,   \* requires lists a user's manifest may declare
  Graphql         \* GraphqlOptions were given

(* build_runtime_plugins: the list build() appends to the user's plugins.  *)
Health == Users + 1
GraphqlRuntime == Users + 2
Metrics == Users + 3
OpenApi == Users + 4
Docs == Users + 5

User == 1 .. Users
Official == Users + 1 .. Users + 5

ASSUME OfficialAssumption ==
  /\ Users \in Nat /\ N = Users + 5
  /\ UserRequires \subseteq Requirements
  /\ Graphql \in BOOLEAN

VARIABLES
  done,       \* number of plugins of `ordered` whose setup has returned
  needsSpec,  \* user plugins whose setup requires the OpenAPI capability
  documents,  \* user plugins that give their route an OpenAPI operation
  hidden,     \* user plugins whose route is operational
  mounted,    \* plugins whose routes are on the host
  labelled,   \* plugins whose routes the metrics middleware knows
  spec,       \* plugins whose routes are in the OpenAPI document
  exposed,    \* the capability modular_api.openapi.spec exists
  failedAt    \* plugin whose setup raised, 0 if none

manifests == <<needsSpec, documents, hidden>>
host == <<done, mounted, labelled, spec, exposed, failedAt>>
officialVars == <<orderVars, manifests, host>>

OfficialInit ==
  /\ \E wanted \in [User -> UserRequires] :
       requires = [p \in Plugin |-> IF p \in User THEN wanted[p] ELSE << >>]
  /\ OrderStart
  /\ needsSpec \in SUBSET User
  /\ documents \in SUBSET User
  /\ hidden \in SUBSET User
  /\ done = 0
  /\ mounted = {} /\ labelled = {} /\ spec = {}
  /\ exposed = FALSE
  /\ failedAt = 0

Search == OrderNext /\ UNCHANGED <<manifests, host>>

SettingUp(p) ==
  /\ Ordered /\ failedAt = 0
  /\ done < N /\ ordered[done + 1] = p

Returns == done' = done + 1 /\ UNCHANGED <<orderVars, manifests, failedAt>>

Raises(p) ==
  /\ failedAt' = p
  /\ UNCHANGED <<orderVars, manifests, done, mounted, labelled, spec, exposed>>

Mounts(p) == mounted' = mounted \cup {p}

(* A user plugin registers its route; it may ask for the document first.   *)
SetUpUser(p) ==
  /\ p \in User /\ SettingUp(p)
  /\ IF p \in needsSpec /\ ~exposed
       THEN Raises(p)
       ELSE Returns /\ Mounts(p) /\ UNCHANGED <<labelled, spec, exposed>>

SetUpHealth ==
  /\ SettingUp(Health)
  /\ Returns /\ Mounts(Health) /\ UNCHANGED <<labelled, spec, exposed>>

SetUpGraphql ==
  /\ SettingUp(GraphqlRuntime)
  /\ Returns
  /\ mounted' = IF Graphql THEN mounted \cup {GraphqlRuntime} ELSE mounted
  /\ UNCHANGED <<labelled, spec, exposed>>

(* registered_paths: the paths known when the middleware is created; its   *)
(* own endpoint is mounted after the snapshot.                             *)
SetUpMetrics ==
  /\ SettingUp(Metrics)
  /\ Returns
  /\ labelled' = mounted
  /\ Mounts(Metrics)
  /\ UNCHANGED <<spec, exposed>>

(* Mutant: visibility is not looked at.                                    *)
SetUpOpenApiOperational ==
  /\ SettingUp(OpenApi)
  /\ Returns
  /\ spec' = mounted \cap documents
  /\ exposed' = TRUE
  /\ Mounts(OpenApi)
  /\ UNCHANGED labelled

(* merge_plugin_routes_into_spec: no operational route, none without an    *)
(* operation.  The official plugins declare none.                          *)
SetUpOpenApi ==
  /\ SettingUp(OpenApi)
  /\ Returns
  /\ spec' = (mounted \cap documents) \ hidden
  /\ exposed' = TRUE
  /\ Mounts(OpenApi)
  /\ UNCHANGED labelled

SetUpDocs ==
  /\ SettingUp(Docs)
  /\ IF exposed
       THEN Returns /\ Mounts(Docs) /\ UNCHANGED <<labelled, spec, exposed>>
       ELSE Raises(Docs)

OfficialNext ==
  \/ Search
  \/ \E p \in User : SetUpUser(p)
  \/ SetUpHealth \/ SetUpGraphql \/ SetUpMetrics \/ SetUpOpenApi \/ SetUpDocs

OfficialSpec ==
  OfficialInit /\ [][OfficialNext]_officialVars /\ WF_officialVars(OfficialNext)

------------------------------------------------------------------------------
AllSetUp == done = N

(* What an official plugin takes from the host during setup is complete    *)
(* (ADR-0003): the document has every route declared as public with an     *)
(* OpenAPI operation and nothing else, requests to a plugin's route are    *)
(* counted under its own path, and the docs page, which does not declare   *)
(* that it needs the OpenAPI plugin, finds the document.                   *)
SnapshotsAreComplete ==
  /\ AllSetUp => spec = documents \ hidden /\ User \subseteq labelled
  /\ failedAt # Docs

(* docs/concepts/plugin-host.md: "User plugins run setup() before the      *)
(* official plugins"; official_plugins.py relies on it in both snapshots.  *)
UserPluginsFirst ==
  \A i, j \in 1 .. Len(ordered) :
    ordered[i] \in User /\ ordered[j] \in Official => i < j
==============================================================================
