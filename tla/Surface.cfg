SPECIFICATION SurfaceSpec
CONSTANTS
  Parts = {"official", "routes", "health", "metrics", "calls", "database"}
  N = 7
  Users = 2
  Requirements <- AmongUsers
  UserRequires <- AmongUsers
  Graphql = TRUE
  a1 = a1
  a2 = a2
  App = {a1, a2}
  BasePath <- Bases
  Modules <- Names
  UseCaseLists <- Callbacks
  PluginPaths <- Paths
  MaxModules = 3
  CheckName = {n1, n2}
  Visit = {v1}
  MaxChecks = 2
  Unanswered = Unanswered
  Cancelled = Cancelled
  Name = {"m", "__m"}
  Invalid = {"__m"}
  Buckets <- Boundaries
  LabelSets <- Labels
  Amounts <- Some
  MaxSteps = 3
  SpanId = 3
  Operations <- SomeOperations
  Injectors = {"w3c", "cloud"}
  Policies <- SomePolicies
  CloudHeaders <- SomeHeaders
  MaxSpanId = 4
  Absent = Absent
  Malformed = Malformed
  Caller = {c1, c2}
  Session = {s1, s2}
  Sampled = {c1}
  MaxCalls = 4
INVARIANTS
  SnapshotsAreComplete
  DocumentedIsServed
  WorstStatusWins
  ExpositionIsExact
  CallIsReported
  TraceContinues
  LeasesAccounted
  SpanTree
PROPERTIES
  EvaluationEnds
  EveryCallReturns
CHECK_DEADLOCK FALSE
