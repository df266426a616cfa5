SPECIFICATION FairSpec
CONSTANTS
  MaxCalls = 5
  CodecFails = TRUE
INVARIANTS NoMessageAfterTrailer OneAnswer FailureIsReported StreamFailureIsTold
PROPERTY Answered
CHECK_DEADLOCK FALSE
