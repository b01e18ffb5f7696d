SPECIFICATION Spec
CONSTANTS
  Delays = {0, 2}
  CbKinds = {TRUE}
  ClockMoves <- BothWays
  MaxTimers = 2
  MaxClock = 2
INVARIANTS NotEarly
CHECK_DEADLOCK FALSE
