SPECIFICATION PartsSpec
CONSTANTS
  Parts = {"hooks"}
  N = 3
  Requirements <- RequirementLists
  RouteKeys = {}
  Capabilities = {}
  Points = {}
  Modules = {}
  MiddlewareOrders = {}
  MaxRegistrations = 2
INVARIANTS
  FailedStartupDrains
CHECK_DEADLOCK FALSE
