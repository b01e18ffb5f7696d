SPECIFICATION Spec
CONSTANTS
  p1 = p1
  p2 = p2
  Procs = {p1, p2}
  Keys <- ThreeKeys
  Primes <- TwoPrimes
  MaxInits = 2
  MaxOps = 4
INVARIANTS
  InsertReturns
CHECK_DEADLOCK FALSE
