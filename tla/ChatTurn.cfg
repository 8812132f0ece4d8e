SPECIFICATION Spec
CONSTANTS
  k1 = k1
  k2 = k2
  Executions = {1, 2}
  Asks <- SomeTurns
  TurnAsks <- SomeTurns
  OtherAsks <- NoRequests
  EventTypes = {k1, k2}
  Restarts = TRUE
INVARIANTS
  AuditIsWhole
  ResendsOnlyAfterRefusal
CHECK_DEADLOCK FALSE
