SPECIFICATION FairSpec
CONSTANTS
  MaxRetries <- NoLimit
  MaxMessages = 2
  Late = TRUE
  EmitsReady = TRUE
  MaxAttempts = 3
  MaxReady = 2
  MaxErrors = 2
  MaxCancels = 1
INVARIANT CompletedIsWhole
CHECK_DEADLOCK FALSE
