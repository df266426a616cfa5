SPECIFICATION FairSpec
CONSTANTS
  MaxMessages = 3
  MaxCancels = 2
  Throws = TRUE
INVARIANTS
  MessagesInOrder
  CompleteIsWhole
  CompleteExcludesError
  NoUnexpectedState
PROPERTIES
  SettledIsFinal
  StartedFinishes
  ImplementsContract
CHECK_DEADLOCK FALSE
