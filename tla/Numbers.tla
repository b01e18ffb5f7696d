------------------------------- MODULE Numbers -------------------------------
(***************************************************************************)
(* src/src/math_util.cpp.  The powers of two work on words of 64 bits, the *)
(* sets of positions of Words.tla; the primes on numbers.                  *)
(***************************************************************************)
EXTENDS Integers, Sequences, SequencesExt

W == INSTANCE Words WITH Width <- 64

Increment(n) == W!Plus(n, {0})
Decrement(n) == W!Plus(n, W!Positions)

is_pow2(n) == n # {} /\ n \cap Decrement(n) = {}

\* the exponent: the shifts until 1 is left
get_pow2(n) ==
  LET m == IF is_pow2(n) THEN n ELSE W!Shl(n, 1)
  IN CHOOSE k \in 0 .. 64 : /\ W!Shr(m, k) \subseteq {0}
                            /\ \A j \in 0 .. (k - 1) : ~(W!Shr(m, j) \subseteq {0})

Smear(n, k) == n \cup W!Shr(n, k)

\* Mutant of numofpow2: one less is not taken off first.
numofpow2Late(n) ==
  IF is_pow2(n) THEN n
  ELSE Increment(FoldLeft(Smear, Increment(n), <<1, 2, 4, 8, 16>>))

\* the shift by 32 that a word of 64 bits needs is not there
numofpow2(n) ==
  IF is_pow2(n) THEN n
  ELSE Increment(FoldLeft(Smear, Decrement(n), <<1, 2, 4, 8, 16>>))

-----------------------------------------------------------------------------
sqrt(n) == CHOOSE k \in 0 .. n : k * k <= n /\ n < (k + 1) * (k + 1)

is_prime(n) == n \notin {0, 1} /\ \A i \in 2 .. sqrt(n) : n % i # 0

\* the loop goes down from n and ends at 1 where there is none
get_prime(n) ==
  IF n < 2 THEN n
  ELSE CHOOSE i \in 1 .. n : /\ i > 1 => is_prime(i)
                             /\ \A j \in (i + 1) .. n : ~is_prime(j)

\* the primes_num largest primes up to max, in falling order
get_primes(primes_num, max) ==
  FoldLeft(LAMBDA primes, i : IF Len(primes) < primes_num /\ is_prime(i)
                              THEN Append(primes, i) ELSE primes,
           <<>>, [k \in 1 .. (max - 1) |-> max + 1 - k])
==============================================================================
