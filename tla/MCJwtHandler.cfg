SPECIFICATION Spec
CONSTANTS
  r1 = r1
  r2 = r2
  k1 = k1
  k2 = k2
  Requests <- MCRequests
  Keys <- MCKeys
  Tokens <- MCTokens
  MaxTime = 2
SYMMETRY Symmetry
INVARIANTS AcceptedIsGenuine GoodIsNotRefused FailureIsItsOwn
PROPERTY CacheIsFrozen
CHECK_DEADLOCK FALSE
