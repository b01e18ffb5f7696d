-------------------------------- MODULE Words --------------------------------
(***************************************************************************)
(* Unsigned words of Width bits, as C computes with them (uint8_t,         *)
(* uint32_t): a word is the SET OF THE POSITIONS of its one bits, position *)
(* 0 the least significant.  A 32-bit constant is written in two halves,   *)
(* since TLC's integers end at 2^31 - 1.                                   *)
(***************************************************************************)
EXTENDS Integers, Sequences, SequencesExt, FiniteSetsExt

CONSTANT Width

Positions == 0 .. (Width - 1)
Word      == SUBSET Positions

\* v after F(_, 1), ..., F(_, n); as the member of a set each value is computed
\* once, before the next one
Iterate(F(_, _), v, n) ==
  LET after[i \in 0 .. n] ==
        IF i = 0 THEN v ELSE CHOOSE y \in {F(x, i) : x \in {after[i - 1]}} : y = y
  IN after[n]

\* the word of the natural number n < 2^31, and of hi * 2^16 + lo
Num(n)      == {i \in Positions : i < 31 /\ (n \div 2^i) % 2 = 1}
Half(n)     == {i \in 0 .. 15 : (n \div 2^i) % 2 = 1}
Hex(hi, lo) == Half(lo) \cup {i + 16 : i \in Half(hi)}

\* the number of a word below 2^31
Value(a) == SumSet({2^i : i \in a})

Xor(a, b) == (a \ b) \cup (b \ a)
Not(a)    == Positions \ a

Shl(a, n)  == {i + n : i \in {j \in a : j + n < Width}}
Shr(a, n)  == {i - n : i \in {j \in a : j >= n}}
Rotl(a, n) == {(i + n) % Width : i \in a}
Rotr(a, n) == {(i + Width - n) % Width : i \in a}

\* a + b modulo 2^Width: add without the carries, then the carries
RECURSIVE Plus(_, _)
Plus(a, b) == IF b = {} THEN a ELSE Plus(Xor(a, b), Shl(a \cap b, 1))

\* a * b modulo 2^Width
RECURSIVE Times(_, _)
Times(a, b) ==
  IF b = {} THEN {}
  ELSE LET i == CHOOSE j \in b : TRUE
       IN Plus(Shl(a, i), Times(a, b \ {i}))

XorAll(s)  == FoldSeq(LAMBDA x, y : Xor(x, y), {}, s)
PlusAll(s) == FoldSeq(LAMBDA x, y : Plus(x, y), {}, s)

\* the k-th byte of a word, from the least significant one, as a set of 0 .. 7
Byte(a, k) == {i - 8 * k : i \in {j \in a : 8 * k <= j /\ j < 8 * k + 8}}

\* a word from four bytes, the first one least, or most, significant
FromLittle(s) == UNION {{8 * (k - 1) + i : i \in s[k]} : k \in 1 .. 4}
FromBig(s)    == UNION {{8 * (4 - k) + i : i \in s[k]} : k \in 1 .. 4}
==============================================================================
