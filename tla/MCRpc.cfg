SPECIFICATION FairSpec
CONSTANTS
  MaxCalls = 4
  MaxCancels = 1
INVARIANT ErrorIsOnRecord
PROPERTIES ImplementsRpcContract VerdictIsTold
CHECK_DEADLOCK FALSE
