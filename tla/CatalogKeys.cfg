SPECIFICATION PartsSpec
CONSTANTS
  Parts = {"catalog"}
  View <- Views
  NameOf <- Names
  Databases <- Engines
  Documents <- Sidecars
  Absent = Absent
  Malformed = Malformed
  MaxDdl = 1
  PublicName <- AccountFields
  Key = "id"
  LookedUpBy <- Parents
  CatalogLimit <- ObjectLimit
  Options <- RuntimeLimit
  Requests <- SomeReads
  Contents <- SomeTables
  Null = Null
  Omitted = Omitted
  MaxWrites = 1
  Generation = {1, 2, 3}
  Digest <- Digests
  Invalid = {3}
  Asked <- SomeDocuments
  Measure <- Measures
  NoQuery = NoQuery
  Unparsable = Unparsable
  MaxDepth = 2
  MaxComplexity = 6
  Request = {r1}
  MaxCompiles = 2
  Missing = Missing
  Torn = Torn
  Load = {c1, c2}
  Parent <- TwoParents
  SourceNames <- OwnerId
  TargetNames <- CustomerId
INVARIANTS
  KeysAreUsable
CHECK_DEADLOCK FALSE
