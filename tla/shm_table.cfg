SPECIFICATION Spec
CONSTANTS
  p1 = p1
  p2 = p2
  Procs = {p1, p2}
  Keys <- ThreeKeys
  Primes <- TwoPrimes
  MaxInits = 2
  MaxOps = 5
INVARIANTS
  LookupSees
  TableSound
CHECK_DEADLOCK FALSE
