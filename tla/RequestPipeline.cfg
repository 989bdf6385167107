SPECIFICATION PartsSpec
CONSTANTS
  Request = {r1, r2}
  First = r1
  Stack <- OuterPlugin
  Statuses = {200, 401, 503}
  MaxCalls = 5
INVARIANTS
  AlwaysAnswered
  ObserversAgree
  AuditTruth
  InFlightExact
PROPERTIES
  GaugeReturnsToZero
CHECK_DEADLOCK FALSE
