SPECIFICATION Spec
CONSTANTS
  TVR_SIZE = 8
  TVN_SIZE = 2
  TIME_UNIT = 2
  Delays <- LevelDelays
  CbKinds = {TRUE}
  Elapsed <- Ticking
  MaxTimers = 1
  Horizon = 150
  MaxBehind = 1
  MaxCancels = 1
INVARIANTS NeverEarly
CHECK_DEADLOCK FALSE
