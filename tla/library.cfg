SPECIFICATION LibrarySpec
CONSTANTS
  a = a
  b = b
  c = c
  Chars = {a, b, c}
  MaxLen = 2
  Statuses = {0}
  MaxNode = 5
  MaxIndex = 7
  MaxDels = 1
  SIZE = 3
  prime <- TwoThree
  TreeKeys <- SignedKeys
  Values = {"x", "y"}
  Fds = {1, 2, 3}
  Flags = {"readable"}
  max_fd = 3
  Stride = 2
INVARIANTS
  FindExact
  SearchExact
  ArraysApart
  TreeFinds
  ScanIsCurrent
  DigestsAgree
  CiphersInvert
  ChecksumsSeeChanges
  TwisterFollows
  TextReturns
  NumbersRight
  IniLastCounts
CONSTRAINT Once
SYMMETRY AnyChar
CHECK_DEADLOCK FALSE
