SPECIFICATION FairSpec
CONSTANTS
  Handles = {1, 2}
  Handlers = {"a", "b", "c"}
  HandleOf <- ThreeHandlers
  Requests = {{"in", "out"}}
  Arrivals = {"in", "out"}
  ClosesRegistered = TRUE
  RemovesInBatch = TRUE
  Delays = {}
  ClockMoves <- Still
  MaxTimers = 0
  MaxClock = 1
  INITSIZE = 1
  SECOND = 2
  INT_MAX = 9
  MaxRequests = 3
  MaxCloses = 1
INVARIANTS FdNumCovers MapIsCurrent OneShot DiesOnlyOfRemoval
PROPERTIES ReadyIsServed
CHECK_DEADLOCK FALSE
