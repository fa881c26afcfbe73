SPECIFICATION Spec
CONSTANTS
  c1 = c1  c2 = c2  c3 = c3
  m1 = m1  m2 = m2  m3 = m3
  w1 = w1  w2 = w2
  alice = alice  bob = bob  none = none
  Ids = {c1, c2}
  Messages = {m1, m2}
  Users = {alice}
  Sender <- OneSender
  Workers = {w1, w2}
  MaxParts = 1
  MaxTries = 1
  None = none
  Faults <- NoFaults
INVARIANTS
  SessionRemembersAnswers
