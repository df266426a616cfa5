SPECIFICATION CallSpec
CONSTANTS
  MaxRetries = 2
  MaxMessages = 1
  Late = FALSE
  EmitsReady = TRUE
  MaxAttempts = 3
  MaxReady = 2
  MaxErrors = 1
  MaxCancels = 0
  exponentialBackoffBase = 2
  constantBackoffMs = 500
  maxBackoffMs = 900
  MaxTimeout = 2147483647
INVARIANT ProtocolErrorIsDeserved
CHECK_DEADLOCK FALSE
