SPECIFICATION Spec
CONSTANTS
  None = None
  alice = alice
  ben = ben
  bia = bia
  ana = ana
  ada = ada
  c1 = c1
  w1 = w1
  w2 = w2
  w3 = w3
  Users <- TrioUsers
  Conversations = {c1}
  Workers = {w1, w2, w3}
  Owner <- MCOwner
  InitialRole <- TrioRole
  Operations <- AllOperations
  Targets = {ben}
  NewRoles = {"SUPPORT_AGENT", "ADMIN"}
SYMMETRY WorkerSymmetry
INVARIANTS
  TypeOK
  RowsAgree
  CheckStillHolds
  CyclesNeedPromotedOperator
  OneDecisionPerConversation
PROPERTIES
  ImplementsLifecycle
  NoDemotionDuringAssignment
  RestoredOwnerIsEligible
  PostsOnlyByOwner
