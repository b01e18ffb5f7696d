------------------------------ MODULE Checksums ------------------------------
(***************************************************************************)
(* src/src/crc.cpp, checksum.cpp and murmurhash3.cpp: checksums and hashes *)
(* of a sequence of bytes, a byte being a set of positions 0 .. 7.         *)
(***************************************************************************)
EXTENDS Integers, Sequences

W32 == INSTANCE Words WITH Width <- 32
W64 == INSTANCE Words WITH Width <- 64

Xor(a, b) == W64!Xor(a, b)
Octet(n)  == {i \in 0 .. 7 : (n \div 2^i) % 2 = 1}

\* a constant of 64 bits, in quarters of 16
Hex64(q4, q3, q2, q1) ==
  W32!Hex(q2, q1) \cup {i + 32 : i \in W32!Hex(q4, q3)}

(***************************************************************************)
(* crc.cpp.  Its tables are linear: the entry at a xor b is the xor of     *)
(* the entries at a and at b, for all 256 * 256 pairs.  Given here are the *)
(* entries at 1, 2, 4, ..., 128.                                           *)
(***************************************************************************)
crc16table ==
  <<W32!Half(\h1021), W32!Half(\h2042), W32!Half(\h4084), W32!Half(\h8108),
    W32!Half(\h1231), W32!Half(\h2462), W32!Half(\h48c4), W32!Half(\h9188)>>

crc32table ==
  <<W32!Hex(\h7707, \h3096), W32!Hex(\hee0e, \h612c), W32!Hex(\h076d, \hc419),
    W32!Hex(\h0edb, \h8832), W32!Hex(\h1db7, \h1064), W32!Hex(\h3b6e, \h20c8),
    W32!Hex(\h76dc, \h4190), W32!Hex(\hedb8, \h8320)>>

crc64table ==
  <<Hex64(\h7ad8, \h70c8, \h3035, \h8979), Hex64(\hf5b0, \he190, \h606b, \h12f2),
    Hex64(\hc038, \he573, \h9841, \hb68f), Hex64(\hab28, \hecb4, \h6814, \hfe75),
    Hex64(\h7d08, \hff3b, \h88be, \h6f81), Hex64(\hfa11, \hfe77, \h117c, \hdf02),
    Hex64(\hdf7a, \hdabd, \h7a6e, \h2d6f), Hex64(\h95ac, \h9329, \hac4b, \hc9b5)>>

Entry(table, x) ==
  W64!XorAll([k \in 1 .. 8 |-> IF k - 1 \in x THEN table[k] ELSE {}])

\* Mutant of Fold: the checksum before is shifted out unmixed.
FoldUnmixed(table, crc, byte) == Xor(W64!Shr(crc, 8), Entry(table, byte))

\* one byte: (crc >> 8) ^ table[(crc ^ byte) & 0xFF]
Fold(table, crc, byte) ==
  Xor(W64!Shr(crc, 8), Entry(table, Xor(crc, byte) \cap (0 .. 7)))

\* the loop of all three, on words of w bits, inverted before and after
Crc(w, table, incrc, buf) ==
  LET flip(x) == (0 .. (w - 1)) \ x
  IN flip(W64!Iterate(LAMBDA c, n : Fold(table, c, buf[n]), flip(incrc), Len(buf)))

crc16(incrc, buf) == Crc(16, crc16table, incrc, buf)
crc32(incrc, buf) == Crc(32, crc32table, incrc, buf)
crc64(incrc, buf) == Crc(64, crc64table, incrc, buf)

SC_CHECKSUM_MAGIC_NUM == W32!Hex(\h7788, \haabb)

get(buf)          == crc32(SC_CHECKSUM_MAGIC_NUM, buf)
check(buf, cksum) == cksum = get(buf)

(***************************************************************************)
(* murmurhash3.cpp.  The hash has lanes, words of w bits that start at the *)
(* seed.  A block gives each lane a word; the tail, what is left of the    *)
(* key, gives a lane the word its bytes make with zeros above them.  Words *)
(* are scrambled alike on both ways.  The members of a kind are sequences  *)
(* over the lanes; lane n multiplies by c[n] and c[n + 1].                 *)
(***************************************************************************)
Rotl(w, a, n) == IF w = 32 THEN W32!Rotl(a, n) ELSE W64!Rotl(a, n)
Plus(w, a, b) == IF w = 32 THEN W32!Plus(a, b) ELSE W64!Plus(a, b)
Times(w, a, b) == IF w = 32 THEN W32!Times(a, b) ELSE W64!Times(a, b)

\* the n bytes of data from the a-th on as one word, the first one least; what
\* lies behind the end is zero
Block(data, a, n) ==
  UNION {{8 * (k - a) + i : i \in data[k]} : k \in (a .. (a + n - 1)) \cap DOMAIN data}

fmix32(h) ==
  LET h1 == Xor(h, W32!Shr(h, 16))
      h2 == W32!Times(h1, W32!Hex(\h85eb, \hca6b))
      h3 == Xor(h2, W32!Shr(h2, 13))
      h4 == W32!Times(h3, W32!Hex(\hc2b2, \hae35))
  IN Xor(h4, W32!Shr(h4, 16))

fmix64(k) ==
  LET k1 == Xor(k, W64!Shr(k, 33))
      k2 == W64!Times(k1, Hex64(\hff51, \hafd7, \hed55, \h8ccd))
      k3 == Xor(k2, W64!Shr(k2, 33))
      k4 == W64!Times(k3, Hex64(\hc4ce, \hb9fe, \h1a85, \hec53))
  IN Xor(k4, W64!Shr(k4, 33))

\* k *= c; k = ROTL(k, turn); k *= c'
Scramble(kind, n, k) ==
  Times(kind.w, Rotl(kind.w, Times(kind.w, k, kind.c[n]), kind.turn[n]), kind.c[n + 1])

\* one block; a lane adds the next one, the last lane the first as it is by then
Body(kind, key, h, block) ==
  LET L    == Len(kind.sum)
      at   == (kind.w \div 8) * L * (block - 1) + 1
      lane(g, n) ==
        LET k  == Scramble(kind, n, Block(key, at + (kind.w \div 8) * (n - 1), kind.w \div 8))
            h1 == Rotl(kind.w, Xor(g[n], k), kind.after[n])
            h2 == IF L = 1 THEN h1 ELSE Plus(kind.w, h1, g[(n % L) + 1])
        IN [g EXCEPT ![n] = Plus(kind.w, Times(kind.w, h2, Octet(5)), kind.sum[n])]
  IN W64!Iterate(lane, h, L)

\* h1 += h2; h1 += h3; ...  h2 += h1; h3 += h1; ...
Gather(w, h) ==
  LET first == W64!Iterate(LAMBDA s, n : IF n = 1 THEN h[1] ELSE Plus(w, s, h[n]), {}, Len(h))
  IN [n \in DOMAIN h |-> IF n = 1 THEN first ELSE Plus(w, h[n], first)]

\* the switch on what is left of the key behind the blocks
TailMix(kind, key, h, at) ==
  [n \in DOMAIN h |-> Xor(h[n], Scramble(kind, n,
     Block(key, at + (kind.w \div 8) * (n - 1), kind.w \div 8)))]

Murmur(kind, key, seed) ==
  LET L       == Len(kind.sum)
      size    == (kind.w \div 8) * L
      nblocks == Len(key) \div size
      step(h, n) ==
        CASE n <= nblocks     -> Body(kind, key, h, n)
          [] n = nblocks + 1  -> TailMix(kind, key, h, size * nblocks + 1)
          [] n = nblocks + 2  -> Gather(kind.w, [l \in 1 .. L |-> Xor(h[l], W32!Num(Len(key)))])
          [] n = nblocks + 3  -> [l \in 1 .. L |-> IF kind.w = 32 THEN fmix32(h[l]) ELSE fmix64(h[l])]
          [] n = nblocks + 4  -> Gather(kind.w, h)
  IN W64!Iterate(step, [l \in 1 .. L |-> seed], nblocks + 4)

hash32(key, seed) ==
  Murmur([w |-> 32, c |-> <<W32!Hex(\hcc9e, \h2d51), W32!Hex(\h1b87, \h3593)>>,
          turn |-> <<15>>, after |-> <<13>>, sum |-> <<W32!Hex(\he654, \h6b64)>>],
         key, seed)[1]

hash128(key, seed) ==
  Murmur([w |-> 32, c |-> <<W32!Hex(\h239b, \h961b), W32!Hex(\hab0e, \h9789),
                            W32!Hex(\h38b3, \h4ae5), W32!Hex(\ha1e3, \h8b93),
                            W32!Hex(\h239b, \h961b)>>,
          turn |-> <<15, 16, 17, 18>>, after |-> <<19, 17, 15, 13>>,
          sum |-> <<W32!Hex(\h561c, \hcd1b), W32!Hex(\h0bca, \ha747),
                    W32!Hex(\h96cd, \h1c35), W32!Hex(\h32ac, \h3b17)>>],
         key, seed)

hash128_x64(key, seed) ==
  Murmur([w |-> 64, c |-> <<Hex64(\h87c3, \h7b91, \h1142, \h53d5),
                            Hex64(\h4cf5, \had43, \h2745, \h937f),
                            Hex64(\h87c3, \h7b91, \h1142, \h53d5)>>,
          turn |-> <<31, 33>>, after |-> <<27, 31>>,
          sum |-> <<W32!Hex(\h52dc, \he729), W32!Hex(\h3849, \h5ab5)>>],
         key, seed)
==============================================================================
