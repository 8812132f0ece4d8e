SPECIFICATION Spec
CONSTANTS
  None = None
  c1 = c1
  c2 = c2
  m1 = m1
  m2 = m2
  m3 = m3
  ben = ben
  yes = yes
  no = no
  r1 = r1
  r2 = r2
  r3 = r3
  Users = {ben}
  Conversations = {c1}
  Messages <- ThreadMessages
  In <- ThreadIn
  First = {m1}
  HumanIntent = {m2}
  Answers = {yes, no}
  Requests = {r1, r2}
  RetryCap = 1
  Faults = TRUE
SYMMETRY Symmetric
INVARIANTS
  TypeOK
  CompletedIffAnswered
PROPERTIES
  ImplementsPromise
