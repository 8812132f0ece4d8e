SPECIFICATION Spec
CONSTANTS
  None = None
  alice = alice
  ana = ana
  ada = ada
  w1 = w1
  w2 = w2
  w3 = w3
  q1 = q1
  q2 = q2
  k1 = k1
  k2 = k2
  Users <- AdminUsers
  Requests = {q1, q2}
  Keys = {k1}
  Workers = {w1, w2}
  InitialRole <- FirstRole
  MaxVersion = 1
  Operations <- EveryOperation
  Targets = {ana}
  NewRoles = {"CLIENT", "ADMIN"}
SYMMETRY Symmetric
INVARIANTS
  TypeOK
  OneOpenPerAccount
  NoWaitCycle
PROPERTIES
  ResolvedOnce
  CreatedForActive
  ResolverIsAdmin
  AdminsMakeAdmins
  RevokedStaysRevoked
