SPECIFICATION Spec
CONSTANTS
  Offset = 1
  Lifetimes = {1, 3}
  MaxTime = 3
  MaxSessions = 2
  MaxTimers = 3
  MaxPending = 2
INVARIANTS LoopsAreCounted ClearStops AutoRefreshGoesOn
PROPERTY SessionStaysOver
CHECK_DEADLOCK FALSE
