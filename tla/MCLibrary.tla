------------------------------ MODULE MCLibrary ------------------------------
(***************************************************************************)
(* The containers and the functions without a caller inside the library.   *)
(* A behaviour is about one of them, the subject: the trie, the hash tree  *)
(* or the epoll wrapper goes through its operations, or a function is      *)
(* called for one input.  The rest stays as it began.                       *)
(***************************************************************************)
EXTENDS Containers, MCTrie

VARIABLES subject, input

Digest  == INSTANCE Digests
Aes128  == INSTANCE Aes WITH Nk <- 4, Nr <- 10
Aes256  == INSTANCE Aes WITH Nk <- 8, Nr <- 14
Sum     == INSTANCE Checksums
Random  == INSTANCE Twister WITH SIZE <- 7, PERIOD <- 4
Txt     == INSTANCE Text
Number  == INSTANCE Numbers
Date    == INSTANCE Calendar
Ini     == INSTANCE IniFile

\* the primes up to SIZE
TwoThree == <<2, 3>>

\* keys of the hash tree: 0 and -6 go the same way, 3 leaves it; the remainder of -2
\* is below zero on the second level
SignedKeys == {-6, -2, 0, 3}

-----------------------------------------------------------------------------
(***************************************************************************)
(* The cases of the functions.                                             *)
(***************************************************************************)
SeqsUpTo(S, n) == UNION {[1 .. k -> S] : k \in 0 .. n}

Octet(n)    == Sum!Octet(n)
Octets(n)   == [k \in 1 .. n |-> Octet((37 * k + 11) % 256)]

\* lengths around the blocks of 64 and the padding, in two calls
DigestCases == {0, 1, 55, 56, 60, 63, 64, 65} \X {0, 1, 8, 64}

\* blocks in two calls, and what the key and the blocks are made from
CipherCases == {<<n, cut, seed>> \in (1 .. 2) \X (0 .. 2) \X {0, 1} : cut <= n}

\* a length around the blocks of 4 and 16, a position and what changes there
SumCases == {<<n, at, by>> \in {1, 3, 4, 5, 15, 16, 17} \X (1 .. 17) \X {1, 128} : at <= n}

RandomCases == {0, 1, 5489}

DataCases == SeqsUpTo({0, 77, 251}, 4)
TextCases == SeqsUpTo({9, 32, 97}, 4)

NumberCases == 0 .. 130
YearCases   == 1968 .. 2110

Timevals == (-2 .. 2) \X {-2000001, -1000000, -999999, -1, 0, 1, 999999, 1000000, 2500000}

IniItems ==
  {<<"section", x>> : x \in {"a", "b"}} \cup {<<"broken", "a">>, <<"bare", "k">>}
  \cup {<<"set", x, v>> : x \in {"k", "l"}, v \in {"u", "v"}}
IniCases == SeqsUpTo(IniItems, 3) \X BOOLEAN

Calls(name, cases) == subject' = name /\ \E x \in cases : input' = x

Chooses ==
  /\ subject = "none"
  /\ \/ subject' \in {"trie", "tree", "scan"} /\ UNCHANGED input
     \/ Calls("digest", DigestCases)
     \/ Calls("cipher", CipherCases)
     \/ Calls("sum", SumCases)
     \/ Calls("random", RandomCases)
     \/ Calls("data", DataCases)
     \/ Calls("text", TextCases)
     \/ Calls("number", NumberCases)
     \/ Calls("year", YearCases)
     \/ Calls("timeval", Timevals)
     \/ Calls("ini", IniCases)
  /\ UNCHANGED <<vars, treeVars, scanVars>>

LibraryInit ==
  subject = "none" /\ input = "none" /\ Init /\ HashTree_!Init /\ Epoller_!Init

LibraryNext ==
  \/ Chooses
  \/ subject = "trie" /\ Next /\ UNCHANGED <<subject, input, treeVars, scanVars>>
  \/ subject = "tree" /\ HashTree_!Next /\ UNCHANGED <<subject, input, vars, scanVars>>
  \/ subject = "scan" /\ Epoller_!Next /\ UNCHANGED <<subject, input, vars, treeVars>>

LibrarySpec ==
  LibraryInit /\ [][LibraryNext]_<<subject, input, vars, treeVars, scanVars>>

\* once a key is twice in the hash tree nothing is claimed
Once == ~twice /\ ~died

-----------------------------------------------------------------------------
(***************************************************************************)
(* md5.cpp, sha1.cpp, sha256.cpp: however data is cut into calls, the      *)
(* digest is that of the blocks of the data with its padding - the mark,   *)
(* zeros, the length - and no byte left over in a buffer has a part in it; *)
(* the digests of nothing are the published ones.                          *)
(***************************************************************************)
Padded(data, length) ==
  data \o <<{7}>> \o Digest!Zeros((119 - (Len(data) % 64)) % 64) \o length

OfBlocks(F(_, _), start, data) ==
  Digest!Iterate(LAMBDA s, k : F(s, SubSeq(data, 64 * k - 63, 64 * k)), start, Len(data) \div 64)

BigWords(block) == [w \in 1 .. 16 |-> Digest!FromBig(Digest!Slice(block, w - 1))]

DigestsAgree ==
  subject = "digest" =>
    LET first  == Octets(input[1])
        second == SubSeq(Octets(input[1] + input[2]), input[1] + 1, input[1] + input[2])
        whole  == first \o second
        bits   == Digest!Num(8 * Len(whole))
        little == Padded(whole, Digest!LittleBytes(<<bits, {}>>))
        big    == Padded(whole, Digest!BigBytes(<<{}, bits>>))
        stale  == [k \in 1 .. 64 |-> 0 .. 7]
        md5    == Digest!MD5cUpdate(Digest!MD5cUpdate(Digest!MD5cInit, first), second)
        sha1   == Digest!SHA1Update(Digest!SHA1Update(Digest!SHA1Init, first), second)
    IN /\ Digest!MD5cFinal(md5)
            = Digest!LittleBytes(OfBlocks(Digest!MD5Transform, Digest!MD5cInit.state, little))
       /\ Digest!SHA1Final(sha1)
            = Digest!BigBytes(OfBlocks(Digest!SHA1Transform, Digest!SHA1Init.state, big))
       /\ Digest!sha256(whole, stale)
            = Digest!BigBytes(OfBlocks(LAMBDA h, block : Digest!_hash(h, BigWords(block)),
                                       Digest!sha256_init, big))
       /\ whole = <<>> =>
            /\ SubSeq(Digest!md5(<<>>), 1, 4) = <<Octet(\hd4), Octet(\h1d), Octet(\h8c), Octet(\hd9)>>
            /\ SubSeq(Digest!sha1(<<>>), 1, 4) = <<Octet(\hda), Octet(\h39), Octet(\ha3), Octet(\hee)>>
            /\ SubSeq(Digest!sha256(<<>>, stale), 1, 4)
                 = <<Octet(\he3), Octet(\hb0), Octet(\hc4), Octet(\h42)>>

(***************************************************************************)
(* aes128.cpp, aes256.cpp: what is encrypted in some calls is decrypted in *)
(* others, each going on from the vector the one before left; the blocks   *)
(* of FIPS 197 are encrypted to the published ones.                        *)
(***************************************************************************)
\* two calls on the parts of a buffer, the second with the context the first left
Twice(Call(_, _), ctx, buf, cut) ==
  LET r1 == Call(ctx, SubSeq(buf, 1, cut))
      r2 == Call(r1.ctx, SubSeq(buf, cut + 1, Len(buf)))
  IN r1.buf \o r2.buf

FipsBlock    == [k \in 1 .. 16 |-> Octet(17 * (k - 1))]
FipsKey(n)   == [k \in 1 .. n |-> Octet(k - 1)]
Buffer(n)    == [m \in 1 .. n |-> [k \in 1 .. 16 |-> Octet((91 * m + 29 * k) % 256)]]
Key(n, seed) == [k \in 1 .. n |-> Octet((53 * k + 7 * seed) % 256)]

CiphersInvert ==
  subject = "cipher" =>
    LET buf  == Buffer(input[1])
        c128 == Aes128!init_ctx_iv(Key(16, input[3]), FipsBlock)
        c256 == Aes256!init_ctx_iv(Key(32, input[3]), FipsBlock)
    IN /\ Twice(Aes128!CBC_decrypt_buffer, c128,
               Aes128!CBC_encrypt_buffer(c128, buf).buf, input[2]) = buf
       /\ Twice(Aes256!CBC_decrypt_buffer, c256,
               Twice(Aes256!CBC_encrypt_buffer, c256, buf, input[2]), 1) = buf
       /\ input[1] = 1 =>
            /\ SubSeq(Aes128!Cipher(FipsBlock, Aes128!KeyExpansion(FipsKey(16))), 1, 4)
                 = <<Octet(\h69), Octet(\hc4), Octet(\he0), Octet(\hd8)>>
            /\ SubSeq(Aes256!Cipher(FipsBlock, Aes256!KeyExpansion(FipsKey(32))), 1, 4)
                 = <<Octet(\h8e), Octet(\ha2), Octet(\hb7), Octet(\hca)>>

(***************************************************************************)
(* crc.cpp, checksum.cpp, murmurhash3.cpp: a change of one byte anywhere,  *)
(* in a block or in the tail, changes every checksum and every hash, and a *)
(* checksum can be taken in parts.                                         *)
(***************************************************************************)
ChecksumsSeeChanges ==
  subject = "sum" =>
    LET n     == input[1]
        at    == input[2]
        buf   == Octets(n)
        other == [buf EXCEPT ![at] = Sum!Xor(@, Octet(input[3]))]
        seed  == Octet(n)
        InParts(crc(_, _)) ==
          crc(crc(seed, SubSeq(buf, 1, at)), SubSeq(buf, at + 1, n)) = crc(seed, buf)
    IN /\ Sum!crc16(seed, buf) # Sum!crc16(seed, other) /\ InParts(Sum!crc16)
       /\ Sum!crc32(seed, buf) # Sum!crc32(seed, other) /\ InParts(Sum!crc32)
       /\ Sum!crc64(seed, buf) # Sum!crc64(seed, other) /\ InParts(Sum!crc64)
       /\ Sum!check(buf, Sum!get(buf)) /\ ~Sum!check(other, Sum!get(buf))
       /\ Sum!hash32(buf, seed) # Sum!hash32(other, seed)
       /\ Sum!hash128(buf, seed) # Sum!hash128(other, seed)
       /\ Sum!hash128_x64(buf, seed) # Sum!hash128_x64(other, seed)

(***************************************************************************)
(* mt_prng.cpp: the numbers are those of the recurrence of the Mersenne    *)
(* Twister, x[k + SIZE] from x[k], x[k + 1] and x[k + PERIOD], although    *)
(* the state is made anew in place; without a seed all are zero.           *)
(* random_uuid.cpp: what is generated is valid.                            *)
(***************************************************************************)
Numbered(state, n) ==
  Random!W!Iterate(LAMBDA s, k : LET r == Random!rand_uint32(s.state)
                                 IN [state |-> r.state, out |-> Append(s.out, r.number)],
                   [state |-> state, out |-> <<>>], n).out

Recurrence(start, n) ==
  Random!W!Iterate(LAMBDA x, k : Append(x, Random!Twist(x[k], x[k + 1], x[k + 4])), start, n)

TwisterFollows ==
  subject = "random" =>
    LET state == Random!seed(Random!Unseeded, Random!W!Num(input))
        x     == Recurrence(state.MT, 20)
    IN /\ Numbered(state, 20) = [k \in 1 .. 20 |-> Random!Tempered(x[k + 7])]
       /\ Numbered(Random!Unseeded, 20) = [k \in 1 .. 20 |-> {}]
       /\ LET first == Random!generate(state)
          IN Random!is_valid(first.uuid) /\ Random!is_valid(Random!generate(first.state).uuid)

(***************************************************************************)
(* base64.cpp, str_util.cpp: data comes back from base64, also with line   *)
(* breaks inside and blanks for pluses, and from hexadecimal, in digits of *)
(* either case; a buffer too short is refused; strlcpy and strlcat stay    *)
(* inside the buffer, lose nothing that fits and say when they did; trim   *)
(* takes the blanks of both ends and no others.                            *)
(***************************************************************************)
DataReturns(data) ==
  LET n    == Txt!EncodedLength(Len(data))
      text == Txt!encode(data, n)
      hex  == Txt!hex2string(data)
      Room(t) == Len(t) + 1
  IN /\ Len(text) = n /\ Txt!encode(data, n - 1) = -1
     /\ Txt!decode(text, Room(text)) = data /\ Txt!decode(text, Len(text)) = -1
     /\ LET posted == [k \in 1 .. n |-> IF text[k] = 43 THEN 32 ELSE text[k]]
        IN Txt!decode(posted, Room(posted)) = data
     /\ \A k \in 0 .. n :
          LET broken == SubSeq(text, 1, k) \o <<10>> \o SubSeq(text, k + 1, n)
          IN Txt!decode(broken, Room(broken)) = data
     /\ Txt!string2hex(hex) = data
     /\ Txt!string2hex([k \in DOMAIN hex |-> IF hex[k] > 96 THEN hex[k] - 32 ELSE hex[k]]) = data

TextFits(text) ==
  /\ \A cut \in 0 .. Len(text), siz \in 1 .. 5 :
       LET first  == SubSeq(text, 1, cut)
           second == SubSeq(text, cut + 1, Len(text))
           copy   == Txt!strlcpy(first, siz)
           both   == Txt!strlcat(copy.dst, second, siz)
       IN /\ Len(copy.dst) < siz /\ Len(both.dst) < siz
          /\ (copy.ret < siz) <=> (copy.dst = first)
          /\ IF both.ret < siz THEN both.dst = copy.dst \o second
             ELSE Len(both.dst) = siz - 1 /\ IsPrefix(both.dst, copy.dst \o second)
  /\ LET t == Txt!trim(text)
     IN /\ t # <<>> => ~Txt!isspace(t[1]) /\ ~Txt!isspace(Last(t))
        /\ \E k \in 0 .. (Len(text) - Len(t)) :
             /\ SubSeq(text, k + 1, k + Len(t)) = t
             /\ \A j \in DOMAIN text \ ((k + 1) .. (k + Len(t))) : Txt!isspace(text[j])

TextReturns ==
  /\ subject = "data" => DataReturns(input)
  /\ subject = "text" => TextFits(input)

(***************************************************************************)
(* math_util.cpp, time_util.cpp: numofpow2 is the least power of two from  *)
(* a number up to 2^32 on, get_pow2 its exponent; the primes are all the   *)
(* primes there are, in falling order.  From 1968 on the day after a day   *)
(* is one later, over the ends of months, leap years and centuries; a date *)
(* comes back from its text, with leading zeros or without; and            *)
(* normalize_time leaves less than a second and the same time.             *)
(***************************************************************************)
Greatest(S) == CHOOSE x \in S : \A y \in S : y <= x

PowersRight(w) ==
  LET exponent == Greatest(w) + IF w = {Greatest(w)} THEN 0 ELSE 1
  IN Number!numofpow2(w) = {exponent} /\ Number!get_pow2(w) = exponent

PrimesRight(n) ==
  LET primes == {m \in 2 .. n : \A x, y \in 2 .. (m - 1) : x * y # m}
      some   == Number!get_primes(3, n)
  IN /\ Number!get_prime(n) = IF primes = {} THEN IF n = 0 THEN 0 ELSE 1 ELSE Greatest(primes)
     /\ Len(some) = IF Cardinality(primes) < 3 THEN Cardinality(primes) ELSE 3
     /\ \A k \in DOMAIN some :
          some[k] = Greatest(primes \ {some[j] : j \in 1 .. (k - 1)})

Plain(n) == IF n < 10 THEN Date!Digits(n, 1) ELSE Date!Digits(n, 2)

DatesRight(year) ==
  \A month \in 1 .. 12 :
    LET last == Date!daysofmonth(year, month)
        tm(day) == <<year - 1900, month - 1, day, (7 * day) % 24, 59, day>>
        next == IF month = 12 THEN <<year - 1899, 0, 1>> ELSE <<year - 1900, month, 1>>
    IN /\ \A day \in 1 .. (last - 1) : Date!days(tm(day + 1)) = Date!days(tm(day)) + 1
       /\ Date!days(next) = Date!days(tm(last)) + 1
       /\ year = 1970 /\ month = 1 => Date!mktime_bj(<<70, 0, 1, 8, 0, 0>>) = 0
       /\ \A day \in {1, last} :
            /\ Date!str2datetime(Date!datetime2str(tm(day))) = tm(day)
            /\ Date!str2datetime(Date!Digits(year, 4) \o <<"-">> \o Plain(month) \o <<"-">>
                 \o Plain(day) \o <<" ">> \o Plain(tm(day)[4]) \o <<":">> \o Plain(59)
                 \o <<":">> \o Plain(day)) = tm(day)

TimevalRight(tv) ==
  LET n    == Date!normalize_time(tv)
      zero == <<0, 0>>
  IN /\ Date!timediff_usec(n, zero) = Date!timediff_usec(tv, zero)
     /\ n[2] \in -999999 .. 999999 /\ (n[1] >= 1 => n[2] >= 0)
     /\ Date!timediff_usec(Date!conv2timeval(Date!timediff_usec(tv, zero)), tv) = 0

NumbersRight ==
  /\ subject = "number" =>
       /\ PrimesRight(input)
       /\ input > 0 => PowersRight(Number!W!Num(input))
       /\ input \in 1 .. 31 => PowersRight({0, input}) /\ PowersRight(0 .. input)
  /\ subject = "year" => DatesRight(input)
  /\ subject = "timeval" => TimevalRight(input)

(***************************************************************************)
(* inifile.cpp: of the lines that set a key in a section the last one      *)
(* counts, over one that was loaded before, whatever blanks and comments   *)
(* stand around; a header without its bracket starts no section, a line    *)
(* without = sets a key to itself; reload forgets what was there.          *)
(***************************************************************************)
\* the lines that stand for an item, loose or tight
Line(item, loose) ==
  LET pad  == IF loose THEN <<" ", "\t">> ELSE <<>>
      note == IF loose THEN <<" ", "#", "=">> ELSE <<>>
  IN CASE item[1] = "section" -> pad \o <<"[">> \o pad \o <<item[2]>> \o pad \o <<"]">> \o note
       [] item[1] = "broken"  -> pad \o <<"[", item[2]>> \o note
       [] item[1] = "bare"    -> pad \o <<item[2]>> \o note
       [] item[1] = "set"     -> pad \o <<item[2]>> \o pad \o <<"=">> \o pad \o <<item[3]>> \o note

IniFileOf(items, loose) ==
  LET lines == [n \in DOMAIN items |-> Line(items[n], loose)]
  IN IF loose THEN <<<<>>, <<"#", "k", "=", "v">>>> \o lines ELSE lines

SectionAt(items, n) ==
  LET heads == {m \in 1 .. n : items[m][1] = "section"}
  IN IF heads = {} THEN <<>> ELSE <<items[Greatest(heads)][2]>>

LastSet(items, key, section) ==
  LET at == {n \in DOMAIN items : /\ items[n][1] \in {"set", "bare"} /\ items[n][2] = key
                                  /\ SectionAt(items, n) = section}
  IN IF at = {} THEN {} ELSE {items[Greatest(at)][IF items[Greatest(at)][1] = "set" THEN 3 ELSE 2]}

IniLastCounts ==
  subject = "ini" =>
    LET before == (<<<<"k">>, <<"a">>>> :> <<"z">>)
        file   == IniFileOf(input[1], input[2])
        after  == Ini!load(before, file)
        anew   == Ini!reload(before, file)
    IN /\ \A key \in {"k", "l"}, section \in {<<>>, <<"a">>, <<"b">>} :
            LET at  == <<<<key>>, section>>
                set == {<<v>> : v \in LastSet(input[1], key, section)}
                had == IF at \in DOMAIN before THEN {before[at]} ELSE {}
            IN /\ {after[x] : x \in DOMAIN after \cap {at}} = IF set = {} THEN had ELSE set
               /\ {anew[x] : x \in DOMAIN anew \cap {at}} = set
       /\ DOMAIN after \cup DOMAIN anew \subseteq {<<k>> : k \in {"k", "l"}} \X {<<>>, <<"a">>, <<"b">>}
==============================================================================
