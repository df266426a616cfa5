SPECIFICATION Spec
CONSTANTS
  MaxRetries = 2
  MaxCount = 3
  Gateways <- MCGateways
INVARIANTS ArrivesAsThrown TransientIsTriedAgain
PROPERTY PermanentIsNotRepeated
CHECK_DEADLOCK FALSE
