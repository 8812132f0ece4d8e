SPECIFICATION FairSpec
CONSTANTS
  k1 = k1
  k2 = k2
  Executions = {1}
  Asks <- AnyRequest
  TurnAsks <- AnyTurn
  OtherAsks <- AnyRequest
  EventTypes = {k1, k2}
  Restarts = TRUE
INVARIANTS
  TypeOK
  AuditedBeforeReply
  BlockedTouchesNothing
  NothingUnreviewed
  OperationsStayInside
  HumanOwnedGetsNoAutomation
PROPERTIES
  EverythingEnds
CHECK_DEADLOCK FALSE
