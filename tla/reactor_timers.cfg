SPECIFICATION FairSpec
CONSTANTS
  Handles = {1}
  Handlers = {"a"}
  HandleOf <- OneHandler
  Requests = {{"in"}}
  Arrivals = {"err"}
  ClosesRegistered = FALSE
  RemovesInBatch = TRUE
  Delays = {0, 3}
  ClockMoves <- Forward
  MaxTimers = 2
  MaxClock = 3
  INITSIZE = 1
  SECOND = 2
  INT_MAX = 5
  MaxRequests = 1
  MaxCloses = 0
INVARIANTS WaitsForFirst
PROPERTIES DueTimersLeave
CHECK_DEADLOCK FALSE
