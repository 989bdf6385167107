------------------------------- MODULE MCSurface -------------------------------
(***************************************************************************)
(* The parts of an application outside the request pipeline side by side:  *)
(* the official plugins, the routes of its use cases and their document,   *)
(* the health checks, the metrics it exposes, and the calls it makes to    *)
(* other services and to its database.  They share no state that changes,  *)
(* so a behaviour exercises one of them, `part`, and the others rest.      *)
(***************************************************************************)
EXTENDS OfficialPlugins, UseCaseRoutes, HealthService, Metrics, OutboundCalls,
        DbClient

CONSTANT Parts
VARIABLE part

surface == <<officialVars, routeVars, healthVars, metricVars, outVars, vars, part>>

SurfaceInit ==
  /\ part \in Parts
  /\ OfficialInit /\ RoutesInit /\ HealthInit /\ MetricsInit /\ OutInit /\ Init
  /\ part # "official" => /\ needsSpec = {} /\ documents = {} /\ hidden = {}
                          /\ \A p \in Plugin : requires[p] = << >>

SurfaceNext ==
  \/ /\ part = "official" /\ OfficialNext
     /\ UNCHANGED <<part, routeVars, healthVars, metricVars, outVars, vars>>
  \/ /\ part = "routes" /\ RoutesNext
     /\ UNCHANGED <<part, officialVars, healthVars, metricVars, outVars, vars>>
  \/ /\ part = "health" /\ HealthNext
     /\ UNCHANGED <<part, officialVars, routeVars, metricVars, outVars, vars>>
  \/ /\ part = "metrics" /\ MetricsNext
     /\ UNCHANGED <<part, officialVars, routeVars, healthVars, outVars, vars>>
  \/ /\ part = "calls" /\ OutNext
     /\ UNCHANGED <<part, officialVars, routeVars, healthVars, metricVars, vars>>
  \/ /\ part = "database" /\ Next
     /\ UNCHANGED <<part, officialVars, routeVars, healthVars, metricVars, outVars>>

SurfaceSpec ==
  SurfaceInit /\ [][SurfaceNext]_surface /\ HealthFairness /\ \A c \in Caller : WF_vars(Step(c))

------------------------------------------------------------------------------
(* Two user plugins beside the five official ones.  AmongUsers is the case *)
(* the documentation describes, AnyInstalled adds requirements on official *)
(* plugins, which manifests may declare as well.                           *)
On(i) == <<[type |-> "plugin", id |-> i]>>

AmongUsers == {<< >>} \cup {On(i) : i \in 0 .. Users}
AnyInstalled == {<< >>} \cup {On(i) : i \in 0 .. N}

------------------------------------------------------------------------------
(* Two applications, one of them mounted on "/".                           *)
CONSTANTS a1, a2
Bases == [a \in {a1, a2} |-> IF a = a1 THEN <<Empty, Empty>> ELSE <<<<"api">>>>]
Names == {<<"users">>, <<"users", "_", "old">>}
Callbacks ==
  {<<<<<<"get", "-", "all">>, "GET">>>>,
   <<<<<<"get", "-", "all">>, "GET">>, <<<<"get", "-", "all">>, "POST">>>>,
   <<<<<<"old", "-", "get">>, "GET">>, <<<<"get">>, "DELETE">>>>}
Paths == {<<<<"health">>>>, <<<<"ops">>, <<"metrics">>>>}

------------------------------------------------------------------------------
(* Label sets two of which have one key, and buckets that are refused.     *)
Pair(name, value) == <<name, value>>
Labels == {<< >>, <<Pair("a", <<"1">>), Pair("b", <<"2">>)>>, <<Pair("a", <<"1", ",", "b", "=", "2">>)>>}
Some == {-1, 0, 1, 3}
Boundaries == {<<1, 2>>, <<2, 2>>, << >>}

------------------------------------------------------------------------------
(* Calls of both clients, with and without a context to pass on.           *)
Foreign == Context(1, FALSE)
Op(kind, accepted, recording, traceparent, requestId) ==
  [kind |-> kind, accepted |-> accepted, recording |-> recording,
   traceparent |-> traceparent, requestId |-> requestId]
SomeOperations ==
  {Op("http", TRUE, r, t, i) : r \in BOOLEAN, t \in {Absent, Foreign}, i \in {Absent, "r"}}
  \cup {Op("http", FALSE, TRUE, Absent, Absent), Op("graphql", FALSE, TRUE, Absent, Absent),
        Op("graphql", TRUE, TRUE, Foreign, "r")}
Policy(trust, chain) == [trust |-> trust, chain |-> chain]
SomePolicies ==
  {Policy(TRUE, <<"w3c">>), Policy(TRUE, <<"raises", "w3c", "cloud">>),
   Policy(TRUE, <<"cloud", "w3c">>), Policy(FALSE, <<"w3c", "cloud">>)}
CloudHeader(trace, id, options) == [trace |-> trace, span |-> id, options |-> options]
SomeHeaders ==
  {Malformed, CloudHeader("zero", 2, << >>), CloudHeader("valid", 5, <<"o=1">>),
   CloudHeader("valid", 0, << >>), CloudHeader("valid", 2, <<"other", "o=1">>)}
==============================================================================
