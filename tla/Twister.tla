------------------------------- MODULE Twister -------------------------------
(***************************************************************************)
(* src/src/mt_prng.cpp, the Mersenne Twister with its one state for the    *)
(* whole program, and src/src/random_uuid.cpp, which draws from it.  Words *)
(* are the sets of positions of Words.tla; the state is a record [MT,      *)
(* MT_TEMPERED, index] with the arrays from 1.                             *)
(***************************************************************************)
EXTENDS Integers, Sequences

CONSTANTS
  SIZE,   \* the words of the state (624)
  PERIOD  \* how far apart the words are that are combined (397)

W == INSTANCE Words WITH Width <- 32

MAGIC == W!Hex(\h9908, \hb0df)
DIFF  == SIZE - PERIOD

M32(x) == x \cap {31}
L31(x) == x \ {31}

\* before seed: all zero, and as good as generated
Unseeded == [MT |-> [n \in 1 .. SIZE |-> {}], MT_TEMPERED |-> [n \in 1 .. SIZE |-> {}], index |-> 0]

\* MT[i], from the word before
Seeds(before, i) ==
  W!Plus(W!Times(W!Hex(\h6c07, \h8965), W!Xor(before, W!Shr(before, 30))), W!Num(i))

\* the tempered numbers are those of before
seed(state, value) ==
  [state EXCEPT !.index = SIZE,
                !.MT = W!Iterate(LAMBDA mt, i : Append(mt, Seeds(mt[i], i)), <<value>>, SIZE - 1)]

Twist(upper, lower, far) ==
  LET y == M32(upper) \cup L31(lower)
  IN W!Xor(W!Xor(far, W!Shr(y, 1)), IF 0 \in y THEN MAGIC ELSE {})

\* Mutant of UNROLL: the loop wraps the distant word one place early.
UNROLLEarly(mt, i) ==
  [mt EXCEPT ![i] = Twist(mt[i], mt[IF i = SIZE THEN 1 ELSE i + 1],
                          mt[IF i < DIFF THEN i + PERIOD ELSE IF i = DIFF THEN 1 ELSE i - DIFF])]

\* word i in place: in the first DIFF the distant word is an old one, behind
\* them and in the last, which wraps, one that was made anew
UNROLL(mt, i) ==
  [mt EXCEPT ![i] = Twist(mt[i], mt[IF i = SIZE THEN 1 ELSE i + 1],
                          mt[IF i <= DIFF THEN i + PERIOD ELSE i - DIFF])]

Tempered(x) ==
  LET y1 == W!Xor(x, W!Shr(x, 11))
      y2 == W!Xor(y1, W!Shl(y1, 7) \cap W!Hex(\h9d2c, \h5680))
      y3 == W!Xor(y2, W!Shl(y2, 15) \cap W!Hex(\hefc6, \h0000))
  IN W!Xor(y3, W!Shr(y3, 18))

generate_numbers(state) ==
  LET mt == W!Iterate(UNROLL, state.MT, SIZE)
  IN [MT |-> mt, MT_TEMPERED |-> [n \in 1 .. SIZE |-> Tempered(mt[n])], index |-> 0]

\* the state afterwards, and the number
rand_uint32(state) ==
  LET s == IF state.index = SIZE THEN generate_numbers(state) ELSE state
  IN [state |-> [s EXCEPT !.index = @ + 1], number |-> s.MT_TEMPERED[s.index + 1]]

\* word % n, for an n below 2^16
Rest(word, n) ==
  LET low  == W!Value(word \cap (0 .. 15))
      high == W!Value({i - 16 : i \in word \ (0 .. 15)})
  IN (((high % n) * (65536 % n)) + low) % n

\* len characters of a set of set_len, as places in the set from 0
rand_string(state, len, set_len) ==
  W!Iterate(LAMBDA s, n :
              LET r == rand_uint32(s.state)
              IN [state |-> r.state, str |-> Append(s.str, Rest(r.number, set_len))],
            [state |-> state, str |-> <<>>], len)

-----------------------------------------------------------------------------
kUUIDLength == 36
Hyphens     == {8, 13, 18, 23}

\* the characters from 0; 16 stands for the hyphen, 17 for any but the two kinds
Hyphen == 16

generate(state) ==
  LET r == rand_string(state, kUUIDLength, 16)
  IN [state |-> r.state,
      uuid  |-> [n \in 1 .. kUUIDLength |-> IF n - 1 \in Hyphens THEN Hyphen ELSE r.str[n]]]

is_valid(uuid) ==
  /\ Len(uuid) = kUUIDLength
  /\ \A n \in 1 .. kUUIDLength :
       IF n - 1 \in Hyphens THEN uuid[n] = Hyphen ELSE uuid[n] \in 0 .. 15
==============================================================================
