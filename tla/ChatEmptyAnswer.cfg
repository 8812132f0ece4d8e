SPECIFICATION Spec
CONSTANTS
  k1 = k1
  k2 = k2
  Executions = {1}
  Asks <- AnyTurn
  TurnAsks <- AnyTurn
  OtherAsks <- NoRequests
  EventTypes = {k1, k2}
  Restarts = FALSE
INVARIANTS
  ProviderFailureIsExplained
CHECK_DEADLOCK FALSE
