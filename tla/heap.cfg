SPECIFICATION Spec
CONSTANTS
  Delays = {0, 1}
  ClockMoves <- Forward
  Capacities = {1, 2}
  MaxInit = 1
  MaxTimers = 4
  MaxClock = 2
INVARIANTS HeapSound OneOutcome
PROPERTIES NothingDueLeft
CHECK_DEADLOCK FALSE
