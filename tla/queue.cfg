SPECIFICATION Spec
CONSTANTS
  Delays = {0, 1, 2}
  CbKinds = {TRUE}
  ClockMoves <- Forward
  MaxTimers = 6
  MaxClock = 1
INVARIANTS QueueSound
PROPERTIES NothingDueLeft
CHECK_DEADLOCK FALSE
