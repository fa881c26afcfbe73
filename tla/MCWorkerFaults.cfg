SPECIFICATION Spec
CONSTANTS
  c1 = c1  c2 = c2  c3 = c3
  m1 = m1  m2 = m2  m3 = m3
  w1 = w1  w2 = w2
  alice = alice  bob = bob  none = none
  Ids = {c1}
  Messages = {m1}
  Users = {alice}
  Sender <- OneSender
  Workers = {w1, w2}
  MaxParts = 3
  MaxTries = 2
  None = none
  Faults <- AllFaults
INVARIANTS
  TypeOK
  PartsInOrder
  SentMeansDelivered
PROPERTIES
  SessionMovesWithAnswer
  ContextKept
