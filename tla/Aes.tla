--------------------------------- MODULE Aes ---------------------------------
(***************************************************************************)
(* src/src/aes128.cpp and aes256.cpp: one block cipher and its CBC mode,   *)
(* for a key of Nk words and Nr rounds.  The two files differ in nothing   *)
(* else; the line of KeyExpansion that only aes256.cpp has is never taken  *)
(* with Nk = 4.  A byte is a word of 8 bits; a block, state_t, is the      *)
(* sequence of its 16 bytes, column by column.                             *)
(***************************************************************************)
EXTENDS Integers, Sequences

CONSTANTS Nk,   \* words of a key
          Nr    \* rounds

INSTANCE Words WITH Width <- 8

Nb == 4

\* state[c][r], counted from 0
At(c, r) == 4 * (c % 4) + r + 1
Column(F(_, _), c) == <<F(c, 0), F(c, 1), F(c, 2), F(c, 3)>>
Block(F(_, _)) == Column(F, 0) \o Column(F, 1) \o Column(F, 2) \o Column(F, 3)

sbox == <<
  \h63, \h7c, \h77, \h7b, \hf2, \h6b, \h6f, \hc5, \h30, \h01, \h67, \h2b, \hfe, \hd7, \hab, \h76,
  \hca, \h82, \hc9, \h7d, \hfa, \h59, \h47, \hf0, \had, \hd4, \ha2, \haf, \h9c, \ha4, \h72, \hc0,
  \hb7, \hfd, \h93, \h26, \h36, \h3f, \hf7, \hcc, \h34, \ha5, \he5, \hf1, \h71, \hd8, \h31, \h15,
  \h04, \hc7, \h23, \hc3, \h18, \h96, \h05, \h9a, \h07, \h12, \h80, \he2, \heb, \h27, \hb2, \h75,
  \h09, \h83, \h2c, \h1a, \h1b, \h6e, \h5a, \ha0, \h52, \h3b, \hd6, \hb3, \h29, \he3, \h2f, \h84,
  \h53, \hd1, \h00, \hed, \h20, \hfc, \hb1, \h5b, \h6a, \hcb, \hbe, \h39, \h4a, \h4c, \h58, \hcf,
  \hd0, \hef, \haa, \hfb, \h43, \h4d, \h33, \h85, \h45, \hf9, \h02, \h7f, \h50, \h3c, \h9f, \ha8,
  \h51, \ha3, \h40, \h8f, \h92, \h9d, \h38, \hf5, \hbc, \hb6, \hda, \h21, \h10, \hff, \hf3, \hd2,
  \hcd, \h0c, \h13, \hec, \h5f, \h97, \h44, \h17, \hc4, \ha7, \h7e, \h3d, \h64, \h5d, \h19, \h73,
  \h60, \h81, \h4f, \hdc, \h22, \h2a, \h90, \h88, \h46, \hee, \hb8, \h14, \hde, \h5e, \h0b, \hdb,
  \he0, \h32, \h3a, \h0a, \h49, \h06, \h24, \h5c, \hc2, \hd3, \hac, \h62, \h91, \h95, \he4, \h79,
  \he7, \hc8, \h37, \h6d, \h8d, \hd5, \h4e, \ha9, \h6c, \h56, \hf4, \hea, \h65, \h7a, \hae, \h08,
  \hba, \h78, \h25, \h2e, \h1c, \ha6, \hb4, \hc6, \he8, \hdd, \h74, \h1f, \h4b, \hbd, \h8b, \h8a,
  \h70, \h3e, \hb5, \h66, \h48, \h03, \hf6, \h0e, \h61, \h35, \h57, \hb9, \h86, \hc1, \h1d, \h9e,
  \he1, \hf8, \h98, \h11, \h69, \hd9, \h8e, \h94, \h9b, \h1e, \h87, \he9, \hce, \h55, \h28, \hdf,
  \h8c, \ha1, \h89, \h0d, \hbf, \he6, \h42, \h68, \h41, \h99, \h2d, \h0f, \hb0, \h54, \hbb, \h16 >>

rsbox == <<
  \h52, \h09, \h6a, \hd5, \h30, \h36, \ha5, \h38, \hbf, \h40, \ha3, \h9e, \h81, \hf3, \hd7, \hfb,
  \h7c, \he3, \h39, \h82, \h9b, \h2f, \hff, \h87, \h34, \h8e, \h43, \h44, \hc4, \hde, \he9, \hcb,
  \h54, \h7b, \h94, \h32, \ha6, \hc2, \h23, \h3d, \hee, \h4c, \h95, \h0b, \h42, \hfa, \hc3, \h4e,
  \h08, \h2e, \ha1, \h66, \h28, \hd9, \h24, \hb2, \h76, \h5b, \ha2, \h49, \h6d, \h8b, \hd1, \h25,
  \h72, \hf8, \hf6, \h64, \h86, \h68, \h98, \h16, \hd4, \ha4, \h5c, \hcc, \h5d, \h65, \hb6, \h92,
  \h6c, \h70, \h48, \h50, \hfd, \hed, \hb9, \hda, \h5e, \h15, \h46, \h57, \ha7, \h8d, \h9d, \h84,
  \h90, \hd8, \hab, \h00, \h8c, \hbc, \hd3, \h0a, \hf7, \he4, \h58, \h05, \hb8, \hb3, \h45, \h06,
  \hd0, \h2c, \h1e, \h8f, \hca, \h3f, \h0f, \h02, \hc1, \haf, \hbd, \h03, \h01, \h13, \h8a, \h6b,
  \h3a, \h91, \h11, \h41, \h4f, \h67, \hdc, \hea, \h97, \hf2, \hcf, \hce, \hf0, \hb4, \he6, \h73,
  \h96, \hac, \h74, \h22, \he7, \had, \h35, \h85, \he2, \hf9, \h37, \he8, \h1c, \h75, \hdf, \h6e,
  \h47, \hf1, \h1a, \h71, \h1d, \h29, \hc5, \h89, \h6f, \hb7, \h62, \h0e, \haa, \h18, \hbe, \h1b,
  \hfc, \h56, \h3e, \h4b, \hc6, \hd2, \h79, \h20, \h9a, \hdb, \hc0, \hfe, \h78, \hcd, \h5a, \hf4,
  \h1f, \hdd, \ha8, \h33, \h88, \h07, \hc7, \h31, \hb1, \h12, \h10, \h59, \h27, \h80, \hec, \h5f,
  \h60, \h51, \h7f, \ha9, \h19, \hb5, \h4a, \h0d, \h2d, \he5, \h7a, \h9f, \h93, \hc9, \h9c, \hef,
  \ha0, \he0, \h3b, \h4d, \hae, \h2a, \hf5, \hb0, \hc8, \heb, \hbb, \h3c, \h83, \h53, \h99, \h61,
  \h17, \h2b, \h04, \h7e, \hba, \h77, \hd6, \h26, \he1, \h69, \h14, \h63, \h55, \h21, \h0c, \h7d >>

Rcon == <<\h8d, \h01, \h02, \h04, \h08, \h10, \h20, \h40, \h80, \h1b, \h36>>

getSBoxValue(x)  == Num(sbox[Value(x) + 1])
getSBoxInvert(x) == Num(rsbox[Value(x) + 1])

SubWord(w) == Column(LAMBDA c, r : getSBoxValue(w[r + 1]), 0)

\* Mutant of NextWord: the round constant counts words, not keys.
NextWordRcon(rk, i) ==
  LET prev == rk[i]
      sub  == SubWord(<<prev[2], prev[3], prev[4], prev[1]>>)
      temp == IF i % Nk = 0
                THEN [sub EXCEPT ![1] = Xor(@, Num(Rcon[(i % 11) + 1]))]
              ELSE IF i % Nk = 4 THEN SubWord(prev)
              ELSE prev
  IN Column(LAMBDA w, n : Xor(rk[w][n + 1], temp[n + 1]), i - Nk + 1)

\* The word i of the key schedule, from the words before it: the first word
\* of each key is rotated, substituted and mixed with the round constant.
NextWord(rk, i) ==
  LET prev == rk[i]
      sub  == SubWord(<<prev[2], prev[3], prev[4], prev[1]>>)
      temp == IF i % Nk = 0
                THEN [sub EXCEPT ![1] = Xor(@, Num(Rcon[i \div Nk + 1]))]
              ELSE IF i % Nk = 4 THEN SubWord(prev)
              ELSE prev
  IN Column(LAMBDA w, n : Xor(rk[w][n + 1], temp[n + 1]), i - Nk + 1)

\* the round keys, as words, of a key of 4 * Nk bytes
KeyExpansion(key) ==
  Iterate(LAMBDA rk, n : Append(rk, NextWord(rk, Nk + n - 1)),
          [w \in 1 .. Nk |-> SubSeq(key, 4 * w - 3, 4 * w)],
          Nb * (Nr + 1) - Nk)

AddRoundKey(round, state, rk) ==
  Block(LAMBDA c, r : Xor(state[At(c, r)], rk[round * Nb + c + 1][r + 1]))

SubBytes(state)    == Block(LAMBDA c, r : getSBoxValue(state[At(c, r)]))
InvSubBytes(state) == Block(LAMBDA c, r : getSBoxInvert(state[At(c, r)]))

\* row r is rotated r columns to the left, or back to the right
ShiftRows(state)    == Block(LAMBDA c, r : state[At(c + r, r)])
InvShiftRows(state) == Block(LAMBDA c, r : state[At(c + 4 - r, r)])

xtime(x) == Xor(Shl(x, 1), IF 7 \in x THEN Num(\h1b) ELSE {})

MixColumns(state) ==
  LET cell(c, r) == state[At(c, r % 4)]
  IN Block(LAMBDA c, r :
       XorAll(<<cell(c, r), xtime(Xor(cell(c, r), cell(c, r + 1))),
                cell(c, 0), cell(c, 1), cell(c, 2), cell(c, 3)>>))

\* x times y, y below 32, in GF(2^8)
Multiply(x, y) ==
  XorAll(<<IF 0 \in y THEN x ELSE {},
           IF 1 \in y THEN xtime(x) ELSE {},
           IF 2 \in y THEN xtime(xtime(x)) ELSE {},
           IF 3 \in y THEN xtime(xtime(xtime(x))) ELSE {},
           IF 4 \in y THEN xtime(xtime(xtime(xtime(x)))) ELSE {}>>)

InvMixColumns(state) ==
  LET part(c, r, y) == Multiply(state[At(c, r % 4)], Num(y))
  IN Block(LAMBDA c, r : XorAll(<<part(c, r, \h0e), part(c, r + 1, \h0b),
                                  part(c, r + 2, \h0d), part(c, r + 3, \h09)>>))

\* encrypt, and decrypt, one block
Cipher(block, rk) ==
  LET round(s, i) == AddRoundKey(i, MixColumns(ShiftRows(SubBytes(s))), rk)
      state == Iterate(round, AddRoundKey(0, block, rk), Nr - 1)
  IN AddRoundKey(Nr, ShiftRows(SubBytes(state)), rk)

InvCipher(block, rk) ==
  LET unshift(s, i) == AddRoundKey(Nr - i, InvSubBytes(InvShiftRows(s)), rk)
      round(s, i)   == InvMixColumns(unshift(s, i))
      state == Iterate(round, AddRoundKey(Nr, block, rk), Nr - 1)
  IN unshift(state, Nr)

(***************************************************************************)
(* struct AES_ctx: the round keys and the vector the next block is chained *)
(* to.  A buffer is a sequence of blocks; a call yields the buffer it      *)
(* leaves and the context it leaves for the next call.                     *)
(***************************************************************************)
init_ctx_iv(key, iv)   == [rk |-> KeyExpansion(key), iv |-> iv]
ctx_set_iv(ctx, iv)    == [ctx EXCEPT !.iv = iv]
XorWithIv(block, iv)   == Block(LAMBDA c, r : Xor(block[At(c, r)], iv[At(c, r)]))

CBC_encrypt_buffer(ctx, buf) ==
  LET step(done, n) ==
        LET out == Cipher(XorWithIv(buf[n], done.ctx.iv), ctx.rk)
        IN [ctx |-> ctx_set_iv(ctx, out), buf |-> Append(done.buf, out)]
  IN Iterate(step, [ctx |-> ctx, buf |-> <<>>], Len(buf))

\* Each block is chained to the ciphertext before it; the last ciphertext of
\* the buffer is left as the vector.
CBC_decrypt_buffer(ctx, buf) ==
  LET step(done, n) ==
        [ctx |-> ctx_set_iv(ctx, buf[n]),
         buf |-> Append(done.buf,
                        XorWithIv(InvCipher(buf[n], ctx.rk), done.ctx.iv))]
  IN Iterate(step, [ctx |-> ctx, buf |-> <<>>], Len(buf))
==============================================================================
