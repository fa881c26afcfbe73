SPECIFICATION Spec
CONSTANTS
  k1 = k1  k2 = k2
  Keys = {k1, k2}
  MaxRequests = 2
  WindowSeconds = 3
  MaxTime = 6
  MaxCalls = 6
SYMMETRY KeySymmetry
INVARIANTS
  LimiterInv
  WindowBound
  NeverTooStrict
