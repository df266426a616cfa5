SPECIFICATION CallSpec
CONSTANTS
  MaxRetries = 2
  MaxMessages = 2
  Late = FALSE
  EmitsReady = TRUE
  MaxAttempts = 7
  MaxReady = 3
  MaxErrors = 1
  MaxCancels = 1
  exponentialBackoffBase = 2
  constantBackoffMs = 500
  maxBackoffMs = 900
  MaxTimeout = 2147483647
INVARIANTS AttemptsAreLimited OneLiveStream Concatenation OneOutcome AcceptedIsWhole
PROPERTIES ProviderStops StartedEnds CallSettles RetriesAreReported SleepsGrow
CHECK_DEADLOCK FALSE
