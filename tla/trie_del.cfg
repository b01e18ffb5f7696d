SPECIFICATION Spec
CONSTANTS
  a = a
  b = b
  c = c
  Chars = {a, b, c}
  MaxLen = 2
  Statuses = {0}
  MaxNode = 5
  MaxIndex = 6
  MaxDels = 1
SYMMETRY AnyChar
INVARIANTS
  DelThreadSafe
CHECK_DEADLOCK FALSE
