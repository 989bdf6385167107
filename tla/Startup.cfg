SPECIFICATION PartsSpec
CONSTANTS
  Parts = {"order", "hooks", "middlewares", "others"}
  N = 3
  Requirements <- RequirementLists
  RouteKeys = {r1, r2}
  Capabilities = {c1}
  Points = {x1}
  Modules = {m1}
  MiddlewareOrders = {0, 1}
  MaxRegistrations = 2
INVARIANTS
  DependenciesFirst
  OrderIsPermutation
  CycleIsReal
  VerdictMatchesGraph
  RegistrationOrderKept
  ServingIsComplete
  DependentsStopFirst
  DrainIsReversed
  ShutdownNeedsSetup
  PipelineIsOrdered
PROPERTIES
  FrozenHostIsImmutable
  RegistrationsOnlyGrow
  StartupEnds
CHECK_DEADLOCK FALSE
