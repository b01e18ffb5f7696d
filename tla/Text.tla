--------------------------------- MODULE Text ---------------------------------
(***************************************************************************)
(* src/src/base64.cpp, and of src/src/str_util.cpp what is computed right: *)
(* functions on texts and on data.  Both are sequences of bytes 0 .. 255;  *)
(* the NUL that ends a text is left out.                                   *)
(***************************************************************************)
EXTENDS Integers, Sequences, SequencesExt

-----------------------------------------------------------------------------
(***************************************************************************)
(* base64.cpp                                                              *)
(***************************************************************************)
base64_pad == 61

base64_table(v) ==
  CASE v < 26 -> v + 65
    [] v \in 26 .. 51 -> v + 71
    [] v \in 52 .. 61 -> v - 4
    [] v = 62 -> 43
    [] v = 63 -> 47

base64_reverse_table(ch) ==
  CASE ch \in 65 .. 90  -> ch - 65
    [] ch \in 97 .. 122 -> ch - 71
    [] ch \in 48 .. 57  -> ch + 4
    [] ch = 43 -> 62
    [] ch = 47 -> 63
    [] OTHER -> -1

EncodedLength(in_len) == ((in_len + 2) \div 3) * 4

\* Mutant of Sextet: the last bits of a tail of two bytes are not moved up.
SextetUnshifted(in, n) ==
  LET byte(k) == IF k \in DOMAIN in THEN in[k] ELSE 0
      at == 3 * (n \div 4) + 1
  IN CASE n % 4 = 0 -> byte(at) \div 4
       [] n % 4 = 1 -> (byte(at) % 4) * 16 + byte(at + 1) \div 16
       [] n % 4 = 2 -> IF at + 2 <= Len(in) THEN (byte(at + 1) % 16) * 4 + byte(at + 2) \div 64
                       ELSE byte(at + 1) % 16
       [] n % 4 = 3 -> byte(at + 2) % 64

\* the n-th six bits, n from 0, with zeros behind the end
Sextet(in, n) ==
  LET byte(k) == IF k \in DOMAIN in THEN in[k] ELSE 0
      at == 3 * (n \div 4) + 1
  IN CASE n % 4 = 0 -> byte(at) \div 4
       [] n % 4 = 1 -> (byte(at) % 4) * 16 + byte(at + 1) \div 16
       [] n % 4 = 2 -> (byte(at + 1) % 16) * 4 + byte(at + 2) \div 64
       [] n % 4 = 3 -> byte(at + 2) % 64

\* -1, or the text; the NUL is written behind it, outside of an out of that length
encode(in, out_len) ==
  IF out_len < EncodedLength(Len(in)) THEN -1
  ELSE [n \in 1 .. EncodedLength(Len(in)) |->
          IF n - 1 <= (8 * Len(in) - 1) \div 6 THEN base64_table(Sextet(in, n - 1))
          ELSE base64_pad]

\* one character: done is result[0 .. j - 1], part is result[j]
Decodes(s, c) ==
  LET ch == base64_reverse_table(IF c = 32 THEN 43 ELSE c)
      next(done, part) == [s EXCEPT !.i = @ + 1, !.done = done, !.part = part]
  IN IF s.pad \/ c = base64_pad THEN [s EXCEPT !.pad = TRUE]
     ELSE IF ch < 0 THEN s
     ELSE CASE s.i % 4 = 0 -> next(s.done, (ch * 4) % 256)
            [] s.i % 4 = 1 -> next(Append(s.done, s.part + ch \div 16), (ch % 16) * 16)
            [] s.i % 4 = 2 -> next(Append(s.done, s.part + ch \div 4), (ch % 4) * 64)
            [] s.i % 4 = 3 -> next(Append(s.done, s.part + ch), 0)

decode(in, out_len) ==
  LET s == FoldLeft(Decodes, [i |-> 0, done |-> <<>>, part |-> 0, pad |-> FALSE], in)
  IN IF out_len < Len(in) + 1 \/ (s.pad /\ s.i % 4 \in {0, 1}) THEN -1 ELSE s.done

-----------------------------------------------------------------------------
(***************************************************************************)
(* str_util.cpp: strlcpy, strlcat, trim_right, trim, string2hex and        *)
(* hex2string.                                                             *)
(***************************************************************************)
isspace(c) == c \in {32} \cup 9 .. 13

\* what dst holds afterwards - at most siz - 1 characters - and what is returned
strlcpy(src, siz) ==
  [dst |-> SubSeq(src, 1, IF Len(src) < siz THEN Len(src) ELSE siz - 1), ret |-> Len(src)]

\* for a dst that is shorter than siz
strlcat(dst, src, siz) ==
  LET n == siz - Len(dst)
  IN [dst |-> dst \o SubSeq(src, 1, IF Len(src) < n THEN Len(src) ELSE n - 1),
      ret |-> Len(dst) + Len(src)]

\* for a text that is not all blanks: then the loop goes on in front of the text
trim_right(str) ==
  LET last == CHOOSE n \in 0 .. Len(str) : /\ n > 0 => ~isspace(str[n])
                                           /\ \A k \in (n + 1) .. Len(str) : isspace(str[k])
  IN SubSeq(str, 1, last)

trim(str) ==
  LET first == CHOOSE n \in 1 .. (Len(str) + 1) : /\ n <= Len(str) => ~isspace(str[n])
                                                  /\ \A k \in 1 .. (n - 1) : isspace(str[k])
      rest == SubSeq(str, first, Len(str))
  IN IF rest = <<>> THEN rest ELSE trim_right(rest)

hexdigit(c) ==
  CASE c \in 48 .. 57  -> c - 48
    [] c \in 65 .. 70  -> c - 55
    [] c \in 97 .. 102 -> c - 87
    [] OTHER -> -1

\* -1, or the bytes; of an odd number of digits the NUL behind them is none,
\* but a single digit is a byte
string2hex(in) ==
  IF \E n \in DOMAIN in : hexdigit(in[n]) = -1 THEN -1
  ELSE IF Len(in) = 1 THEN <<hexdigit(in[1])>>
  ELSE IF Len(in) % 2 = 1 THEN -1
  ELSE [n \in 1 .. (Len(in) \div 2) |-> hexdigit(in[2 * n - 1]) * 16 + hexdigit(in[2 * n])]

hex2string(in) ==
  LET hex(v) == IF v < 10 THEN v + 48 ELSE v + 87
  IN [n \in 1 .. 2 * Len(in) |->
        hex(IF n % 2 = 1 THEN in[(n + 1) \div 2] \div 16 ELSE in[n \div 2] % 16)]
==============================================================================
