SPECIFICATION FairSpec
CONSTANTS
  MaxCalls = 2
  MaxCancels = 1
PROPERTY CancelIsHeard
CHECK_DEADLOCK FALSE
