SPECIFICATION DeliverySpec
CONSTANTS
  r1 = r1  r2 = r2  r3 = r3
  m1 = m1  m2 = m2  m3 = m3  m4 = m4
  alice = alice  bob = bob  carol = carol  none = none
  Requests = {r1, r2, r3}
  Messages = {m1, m2, m3, m4}
  Users <- ThreeUsers
  Sender <- ThreeSenders
  AllowedNumbers <- NotCarol
  MaxTries = 2
  None = none
  Faults <- AllFaults
  Payloads <- SomePayloads
  MaxRequests = 2
  WindowSeconds = 1
  MaxTime = 0
  MaxCalls = 3
SYMMETRY RequestSymmetry
INVARIANTS
  TypeOK
  DeliveryTypeOK
  IInv
  OneConversationPerUser
  NoCircularWait
  HandedOverOnce
  RetryFindsConversation
  FirstMessageStored
  StrangersLeaveNoTrace
  RefusedForOwnDeliveries
PROPERTIES
  ImplementsInbox
