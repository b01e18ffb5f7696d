------------------------------- MODULE Digests -------------------------------
(***************************************************************************)
(* src/src/md5.cpp, sha1.cpp and sha256.cpp: three digests of a sequence   *)
(* of bytes, by blocks of 64.  A byte is a word of 8 bits, a context keeps *)
(* the chaining value, the bytes seen, and those of a block not complete.  *)
(* count is in bytes and unbounded: the code's bits modulo 2^64.           *)
(***************************************************************************)
EXTENDS Integers, Sequences

INSTANCE Words WITH Width <- 32

Wide(pair)   == Hex(pair[1], pair[2])
Octet(n)     == {i \in 0 .. 7 : (n \div 2^i) % 2 = 1}
Zeros(n)     == [k \in 1 .. n |-> {}]
Slice(s, k)  == SubSeq(s, 4 * k + 1, 4 * k + 4)
Added(s, t)  == [k \in DOMAIN s |-> Plus(s[k], t[k])]

\* the bytes of words, least or most significant first
LittleBytes(s) == [n \in 1 .. 4 * Len(s) |-> Byte(s[(n - 1) \div 4 + 1], (n - 1) % 4)]
BigBytes(s)    == [n \in 1 .. 4 * Len(s) |-> Byte(s[(n - 1) \div 4 + 1], 3 - ((n - 1) % 4))]

\* MD5cUpdate and SHA1Update: complete the block begun, if the input does,
\* transform whole blocks of the input, keep the rest.
Absorb(Transform(_, _), ctx, input) ==
  LET index   == ctx.count % 64
      partLen == 64 - index
      kept    == SubSeq(ctx.buffer, 1, index)
      whole   == (Len(input) - partLen) \div 64
  IN [count  |-> ctx.count + Len(input),
      state  |-> IF Len(input) < partLen THEN ctx.state
                 ELSE Iterate(LAMBDA s, k : Transform(s, SubSeq(input, partLen + 64 * k - 63, partLen + 64 * k)),
                              Transform(ctx.state, kept \o SubSeq(input, 1, partLen)), whole),
      buffer |-> IF Len(input) < partLen THEN kept \o input
                 ELSE SubSeq(input, partLen + 64 * whole + 1, Len(input))]

(***************************************************************************)
(* md5.cpp                                                                 *)
(***************************************************************************)
MD5cInit == [state  |-> <<Hex(\h6745, \h2301), Hex(\hefcd, \hab89),
                          Hex(\h98ba, \hdcfe), Hex(\h1032, \h5476)>>,
             count  |-> 0, buffer |-> <<>>]

F(x, y, z) == (x \cap y) \cup (Not(x) \cap z)
G(x, y, z) == (x \cap z) \cup (y \cap Not(z))
H(x, y, z) == Xor(Xor(x, y), z)
I(x, y, z) == Xor(y, x \cup Not(z))

\* the constants added in the 64 steps
Sines == <<
  <<\hd76a, \ha478>>, <<\he8c7, \hb756>>, <<\h2420, \h70db>>, <<\hc1bd, \hceee>>,
  <<\hf57c, \h0faf>>, <<\h4787, \hc62a>>, <<\ha830, \h4613>>, <<\hfd46, \h9501>>,
  <<\h6980, \h98d8>>, <<\h8b44, \hf7af>>, <<\hffff, \h5bb1>>, <<\h895c, \hd7be>>,
  <<\h6b90, \h1122>>, <<\hfd98, \h7193>>, <<\ha679, \h438e>>, <<\h49b4, \h0821>>,
  <<\hf61e, \h2562>>, <<\hc040, \hb340>>, <<\h265e, \h5a51>>, <<\he9b6, \hc7aa>>,
  <<\hd62f, \h105d>>, <<\h0244, \h1453>>, <<\hd8a1, \he681>>, <<\he7d3, \hfbc8>>,
  <<\h21e1, \hcde6>>, <<\hc337, \h07d6>>, <<\hf4d5, \h0d87>>, <<\h455a, \h14ed>>,
  <<\ha9e3, \he905>>, <<\hfcef, \ha3f8>>, <<\h676f, \h02d9>>, <<\h8d2a, \h4c8a>>,
  <<\hfffa, \h3942>>, <<\h8771, \hf681>>, <<\h6d9d, \h6122>>, <<\hfde5, \h380c>>,
  <<\ha4be, \hea44>>, <<\h4bde, \hcfa9>>, <<\hf6bb, \h4b60>>, <<\hbebf, \hbc70>>,
  <<\h289b, \h7ec6>>, <<\heaa1, \h27fa>>, <<\hd4ef, \h3085>>, <<\h0488, \h1d05>>,
  <<\hd9d4, \hd039>>, <<\he6db, \h99e5>>, <<\h1fa2, \h7cf8>>, <<\hc4ac, \h5665>>,
  <<\hf429, \h2244>>, <<\h432a, \hff97>>, <<\hab94, \h23a7>>, <<\hfc93, \ha039>>,
  <<\h655b, \h59c3>>, <<\h8f0c, \hcc92>>, <<\hffef, \hf47d>>, <<\h8584, \h5dd1>>,
  <<\h6fa8, \h7e4f>>, <<\hfe2c, \he6e0>>, <<\ha301, \h4314>>, <<\h4e08, \h11a1>>,
  <<\hf753, \h7e82>>, <<\hbd3a, \hf235>>, <<\h2ad7, \hd2bb>>, <<\heb86, \hd391>> >>

\* the rotations S11 .. S44, four to a round
Rotations == <<7, 12, 17, 22, 5, 9, 14, 20, 4, 11, 16, 23, 6, 10, 15, 21>>

\* the word of the block that step i of a round takes
WordOfStep(round, i) ==
  IF round = 0 THEN i % 16
  ELSE IF round = 1 THEN (5 * i + 1) % 16
  ELSE IF round = 2 THEN (3 * i + 5) % 16
  ELSE (7 * i) % 16

MD5Transform(state, block) ==
  LET step(r, n) ==
        LET i     == n - 1
            round == i \div 16
            mixed == IF round = 0 THEN F(r[2], r[3], r[4])
                     ELSE IF round = 1 THEN G(r[2], r[3], r[4])
                     ELSE IF round = 2 THEN H(r[2], r[3], r[4])
                     ELSE I(r[2], r[3], r[4])
            x     == FromLittle(Slice(block, WordOfStep(round, i)))
            sum   == PlusAll(<<r[1], mixed, x, Wide(Sines[n])>>)
            turn  == Rotations[4 * round + (i % 4) + 1]
        IN <<r[4], Plus(Rotl(sum, turn), r[2]), r[2], r[3]>>
  IN Added(state, Iterate(step, state, 64))

MD5cUpdate(ctx, input) == Absorb(MD5Transform, ctx, input)

\* Mutant of PadLength: no second block when the length has no room.
PadLengthShort(index) == IF index < 60 THEN 60 - index ELSE 120 - index

PadLength(index) == IF index < 56 THEN 56 - index ELSE 120 - index

MD5cFinal(ctx) ==
  LET bits   == LittleBytes(<<Num(8 * ctx.count), {}>>)
      padLen == PadLength(ctx.count % 64)
      padded == MD5cUpdate(ctx, <<{7}>> \o Zeros(padLen - 1))
  IN LittleBytes(MD5cUpdate(padded, bits).state)

md5(in) == MD5cFinal(MD5cUpdate(MD5cInit, in))

(***************************************************************************)
(* sha1.cpp                                                                *)
(***************************************************************************)
SHA1Init == [state  |-> <<Hex(\h6745, \h2301), Hex(\hEFCD, \hAB89), Hex(\h98BA, \hDCFE),
                          Hex(\h1032, \h5476), Hex(\hC3D2, \hE1F0)>>,
             count  |-> 0, buffer |-> <<>>]

\* what R0 to R4 mix of w, x and y in step i, and the constant they add
Mixed(i, w, x, y) ==
  IF i < 20 THEN Xor(w \cap Xor(x, y), y)
  ELSE IF i >= 40 /\ i < 60 THEN ((w \cup x) \cap y) \cup (w \cap x)
  ELSE Xor(Xor(w, x), y)

RoundConstant(i) ==
  IF i < 20 THEN Hex(\h5A82, \h7999)
  ELSE IF i < 40 THEN Hex(\h6ED9, \hEBA1)
  ELSE IF i < 60 THEN Hex(\h8F1B, \hBCDC)
  ELSE Hex(\hCA62, \hC1D6)

\* blk: the block is expanded in place, l[i & 15] of the last 16 words
Expanded(l, i) ==
  LET at(k) == l[((i + k) % 16) + 1]
  IN [l EXCEPT ![(i % 16) + 1] = Rotl(XorAll(<<at(13), at(8), at(2), at(0)>>), 1)]

SHA1Transform(state, block) ==
  LET step(s, n) ==
        LET i == n - 1
            l == IF i < 16 THEN s.l ELSE Expanded(s.l, i)
            r == s.r
            z == PlusAll(<<r[5], Mixed(i, r[2], r[3], r[4]), l[(i % 16) + 1],
                           RoundConstant(i), Rotl(r[1], 5)>>)
        IN [r |-> <<z, r[1], Rotl(r[2], 30), r[3], r[4]>>, l |-> l]
      words == [k \in 1 .. 16 |-> FromBig(Slice(block, k - 1))]
  IN Added(state, Iterate(step, [r |-> state, l |-> words], 80).r)

SHA1Update(ctx, data) == Absorb(SHA1Transform, ctx, data)

\* bytes are fed one by one, also by hash()
SHA1Bytes(ctx, data) ==
  Iterate(LAMBDA c, n : SHA1Update(c, <<data[n]>>), ctx, Len(data))

\* 0x80, then zeros while (count & 504) # 448: count is in bits there
SHA1Final(ctx) ==
  LET marked     == SHA1Update(ctx, <<{7}>>)
      zeros      == (120 - (marked.count % 64)) % 64
      finalcount == BigBytes(<<{}, Num(8 * ctx.count)>>)
  IN BigBytes(SHA1Update(SHA1Bytes(marked, Zeros(zeros)), finalcount).state)

sha1(in) == SHA1Final(SHA1Bytes(SHA1Init, in))

(***************************************************************************)
(* sha256.cpp.  hash() is the one caller of sha256_hash, so the context is *)
(* always empty when data comes.  ctx->buf is not initialised and is       *)
(* expanded in place: stale is what its 64 bytes hold where data did not   *)
(* overwrite them.                                                         *)
(***************************************************************************)
K == <<
  <<\h428a, \h2f98>>, <<\h7137, \h4491>>, <<\hb5c0, \hfbcf>>, <<\he9b5, \hdba5>>,
  <<\h3956, \hc25b>>, <<\h59f1, \h11f1>>, <<\h923f, \h82a4>>, <<\hab1c, \h5ed5>>,
  <<\hd807, \haa98>>, <<\h1283, \h5b01>>, <<\h2431, \h85be>>, <<\h550c, \h7dc3>>,
  <<\h72be, \h5d74>>, <<\h80de, \hb1fe>>, <<\h9bdc, \h06a7>>, <<\hc19b, \hf174>>,
  <<\he49b, \h69c1>>, <<\hefbe, \h4786>>, <<\h0fc1, \h9dc6>>, <<\h240c, \ha1cc>>,
  <<\h2de9, \h2c6f>>, <<\h4a74, \h84aa>>, <<\h5cb0, \ha9dc>>, <<\h76f9, \h88da>>,
  <<\h983e, \h5152>>, <<\ha831, \hc66d>>, <<\hb003, \h27c8>>, <<\hbf59, \h7fc7>>,
  <<\hc6e0, \h0bf3>>, <<\hd5a7, \h9147>>, <<\h06ca, \h6351>>, <<\h1429, \h2967>>,
  <<\h27b7, \h0a85>>, <<\h2e1b, \h2138>>, <<\h4d2c, \h6dfc>>, <<\h5338, \h0d13>>,
  <<\h650a, \h7354>>, <<\h766a, \h0abb>>, <<\h81c2, \hc92e>>, <<\h9272, \h2c85>>,
  <<\ha2bf, \he8a1>>, <<\ha81a, \h664b>>, <<\hc24b, \h8b70>>, <<\hc76c, \h51a3>>,
  <<\hd192, \he819>>, <<\hd699, \h0624>>, <<\hf40e, \h3585>>, <<\h106a, \ha070>>,
  <<\h19a4, \hc116>>, <<\h1e37, \h6c08>>, <<\h2748, \h774c>>, <<\h34b0, \hbcb5>>,
  <<\h391c, \h0cb3>>, <<\h4ed8, \haa4a>>, <<\h5b9c, \hca4f>>, <<\h682e, \h6ff3>>,
  <<\h748f, \h82ee>>, <<\h78a5, \h636f>>, <<\h84c8, \h7814>>, <<\h8cc7, \h0208>>,
  <<\h90be, \hfffa>>, <<\ha450, \h6ceb>>, <<\hbef9, \ha3f7>>, <<\hc671, \h78f2>> >>

S0(x) == XorAll(<<Rotr(x, 2), Rotr(x, 13), Rotr(x, 22)>>)
S1(x) == XorAll(<<Rotr(x, 6), Rotr(x, 11), Rotr(x, 25)>>)
G0(x) == XorAll(<<Rotr(x, 7), Rotr(x, 18), Shr(x, 3)>>)
G1(x) == XorAll(<<Rotr(x, 17), Rotr(x, 19), Shr(x, 10)>>)

sha256_init ==
  <<Hex(\h6a09, \he667), Hex(\hbb67, \hae85), Hex(\h3c6e, \hf372), Hex(\ha54f, \hf53a),
    Hex(\h510e, \h527f), Hex(\h9b05, \h688c), Hex(\h1f83, \hd9ab), Hex(\h5be0, \hcd19)>>

\* _rtrf, the step i + j of _hash: b are the registers B(0, i) .. B(7, i)
_rtrf(b, p, n) ==
  LET i   == (n - 1) % 16
      at(k) == p[((i + k) % 16) + 1]
      w   == IF n <= 16 THEN at(0)
             ELSE PlusAll(<<at(0), G1(at(14)), at(9), G0(at(1))>>)
      h   == PlusAll(<<b[8], w, Wide(K[n]), S1(b[5]),
                       Xor(b[7], b[5] \cap Xor(b[6], b[7]))>>)
      maj == (b[1] \cap b[2]) \cup (b[3] \cap Xor(b[1], b[2]))
  IN [p |-> [p EXCEPT ![i + 1] = w],
      b |-> <<PlusAll(<<h, S0(b[1]), maj>>), b[1], b[2], b[3],
              Plus(b[4], h), b[5], b[6], b[7]>>]

\* _hash: of the 16 words buf, already in the order of the machine
_hash(hash, buf) ==
  Added(hash, Iterate(LAMBDA s, n : _rtrf(s.b, s.p, n), [b |-> hash, p |-> buf], 64).b)

sha256_hash(hash, dat) ==
  Iterate(LAMBDA h, k :
            _hash(h, [w \in 1 .. 16 |-> FromBig(Slice(SubSeq(dat, 64 * k - 63, 64 * k), w - 1))]),
          hash, Len(dat) \div 64)

\* the word the data ends in: bits below the data are cleared, the mark is set
PaddedWord(word, i) ==
  LET j == 8 * (3 - (i % 4))
  IN {n \in word : n >= 7 + j} \cup {7 + j}

\* sha256_done: len bytes in all, of which the last i are in the buffer
sha256_done(hash, tail, len, stale) ==
  LET i     == Len(tail)
      mem   == tail \o SubSeq(stale, i + 1, 64)
      word  == [k \in 1 .. 16 |->
                  IF k <= (i + 3) \div 4 THEN FromBig(Slice(mem, k - 1))
                                         ELSE FromLittle(Slice(mem, k - 1))]
      buf   == [word EXCEPT ![i \div 4 + 1] = PaddedWord(@, i)]
      size  == <<{}, Num(8 * len)>>
      full  == IF i < 60 THEN [buf EXCEPT ![16] = {}] ELSE buf
  IN BigBytes(IF i < 56
              THEN _hash(hash, [k \in 1 .. 14 |-> IF k <= i \div 4 + 1 THEN buf[k] ELSE {}] \o size)
              ELSE _hash(_hash(hash, full), Zeros(14) \o size))

sha256(in, stale) ==
  LET rest == Len(in) % 64
  IN sha256_done(sha256_hash(sha256_init, in), SubSeq(in, Len(in) - rest + 1, Len(in)),
                 Len(in), stale)
==============================================================================
