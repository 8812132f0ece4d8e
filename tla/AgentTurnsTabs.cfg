SPECIFICATION Spec
CONSTANTS
  None = None
  c1 = c1
  c2 = c2
  m1 = m1
  m2 = m2
  m3 = m3
  ben = ben
  yes = yes
  no = no
  r1 = r1
  r2 = r2
  r3 = r3
  Users = {ben}
  Conversations = {c1, c2}
  Messages <- TabMessages
  In <- TabIn
  First = {m1, m3}
  HumanIntent = {}
  Answers = {yes}
  Requests = {r1, r2}
  RetryCap = 20
  Faults = FALSE
INVARIANT
  AdvisedRetryIsOffered
