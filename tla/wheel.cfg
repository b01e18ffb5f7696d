SPECIFICATION FairSpec
CONSTANTS
  TVR_SIZE = 4
  TVN_SIZE = 2
  TIME_UNIT = 2
  Delays <- FarAndNear
  CbKinds = {TRUE}
  Elapsed <- Ticking
  MaxTimers = 2
  Horizon = 66
  MaxBehind = 1
  MaxCancels = 1
INVARIANTS NeverLate NodesAccounted SizeNeverOvercounts
PROPERTIES EveryTimerLeaves ImplementsTimerService
CHECK_DEADLOCK FALSE
