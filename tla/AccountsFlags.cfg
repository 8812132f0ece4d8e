SPECIFICATION Spec
CONSTANTS
  None = None
  alice = alice
  ana = ana
  ada = ada
  w1 = w1
  w2 = w2
  w3 = w3
  q1 = q1
  q2 = q2
  k1 = k1
  k2 = k2
  Users <- AdminUsers
  Requests = {}
  Keys = {k1}
  Workers = {w1, w2}
  InitialRole <- AdminRole
  MaxVersion = 1
  Operations <- BrowserOperations
  Targets = {ana}
  NewRoles = {"CLIENT", "ADMIN"}
SYMMETRY Symmetric
INVARIANTS
  FlagsFollowRole
