SPECIFICATION ProcessesSpec
CONSTANTS
  p1 = p1
  p2 = p2
  k1 = k1
  k2 = k2
  Procs = {p1, p2}
  Keys = {k1, k2}
  Hash <- const_Hash
  CHAR_BIT = 2
  size = 2
  MaxCalls = 7
  Ids = {1, 2}
  Lengths = {1, 2}
  Values = {7}
  MaxSteps = 6
  Pids = {1, 2, 3}
  Tries = 1
  MaxLaunches = 3
  MaxFiles = 2
  LogSizes = {1, 2}
  LogNo = 3
  Lens = {2}
  LOG_BUF_LEN = 2
  BUF_SIZE = 6
  LogFiles = {1, 2, 3, 4, 5, 6}
  MaxRecords = 3
  MaxOpens = 3
INVARIANTS
  NoFalseNegative
  CountIsBits
  SegmentsKnown
  MappingsBacked
  DaemonIsNamed
  StrangersUnharmed
  OrderKept
  OnlyOldestDropped
  SizesBounded
CONSTRAINT Apart
SYMMETRY AnyProc
CHECK_DEADLOCK FALSE
