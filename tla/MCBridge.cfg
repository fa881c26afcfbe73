SPECIFICATION BridgeFairSpec
CONSTANTS
  r1 = r1  r2 = r2
  m1 = m1  m3 = m3
  w1 = w1  w2 = w2
  alice = alice  carol = carol  none = none
  Requests = {r1, r2}
  Messages = {m1, m3}
  Users = {alice, carol}
  Sender <- TwoSenders
  AllowedNumbers <- NotCarol
  MaxTries = 2
  None = none
  Faults <- AllFaults
  Workers = {w1, w2}
  MaxParts = 1
  WorkerFaults <- NothingLost
INVARIANTS
  NobodyForgotten
  OnlyAllowedHeard
PROPERTIES
  ImplementsWorker
  EveryMessageAnswered
