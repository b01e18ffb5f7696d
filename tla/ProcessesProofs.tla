---------------------------- MODULE ProcessesProofs ----------------------------
(***************************************************************************)
(* Proofs about the run's composition: BloomFilter, whose state it is, for *)
(* every number of processes, every hash function and every size of the    *)
(* filter, and then that it does nothing a part of it does not do by       *)
(* itself, so that what is proved of each part holds of it.                *)
(***************************************************************************)
EXTENDS MCProcesses, FiniteSetTheorems, SequenceTheorems, TLAPS

-----------------------------------------------------------------------------
(***************************************************************************)
(* The inductive invariant.  Position is where set is in hash_pos_; all    *)
(* but Placed holds until operations of two processes get into each        *)
(* other's way.                                                            *)
(***************************************************************************)
\* The locals of init, set and dump index what they are meant to, and start from zero.
Placed ==
  \A p \in Procs :
    /\ pc[p] = "none" => i[p] = 0 /\ count[p] = 0
    /\ pc[p] = "count" => shared[p] /\ i[p] < size
    /\ pc[p] \in {"test", "load", "store"} => i[p] \in 1 .. Len(Hash[key[p]])
    /\ pc[p] = "dump" => i[p] < size

\* The bits of an item whose set has returned are set.
Sure ==
  \A m \in Memories : \A k \in sure[m] : \A n \in DOMAIN Hash[k] : Hash[k][n] \in mem[m]

\* In the middle of set the positions before the current one are set.
Adding ==
  \A p \in Procs : pc[p] \in {"test", "load", "store"} =>
    \A n \in 1 .. (i[p] - 1) : Hash[key[p]][n] \in mem[At(p)]

\* Between reading a byte and writing it back the byte stays as it was ...
Held ==
  \A p \in Procs : pc[p] = "store" => reg[p] = Byte(p, Position(p) \div CHAR_BIT)

\* ... since nobody else is about to write it.
OneWriter ==
  \A p, q \in Procs :
    p # q /\ pc[p] = "store" /\ pc[q] = "store" /\ At(p) = At(q) =>
      Position(p) \div CHAR_BIT # Position(q) \div CHAR_BIT

\* A dump or a load has the filter and the file for itself.
Alone ==
  \A p, q \in Procs : p # q /\ pc[p] \in {"dump", "read"} => pc[q] \in {"none", "count", "idle"}

\* What the file has of an item it was dumped with is set in the file.
Saved ==
  \A k \in copied : \A n \in DOMAIN Hash[k] :
    Hash[k][n] \div CHAR_BIT < Len(saved) =>
      Hash[k][n] \in saved[Hash[k][n] \div CHAR_BIT + 1]

\* The file being dumped holds the bytes that were written.
Dumping ==
  \A p \in Procs : pc[p] = "dump" => copied \subseteq sure[At(p)] /\ Len(saved) = i[p]

\* The bytes that were read hold what the file has of its items, and
\* nobody's count_ is trusted.
Reading ==
  \A p \in Procs : pc[p] = "read" =>
    /\ sure[At(p)] = {}
    /\ \A k \in copied : \A n \in DOMAIN Hash[k] :
         Hash[k][n] \div CHAR_BIT < i[p] => Hash[k][n] \in mem[At(p)]
    /\ \A q \in Procs : At(q) = At(p) => q \in recount

\* The bits that count_ counts: not the one set is about to add, and in init those of the
\* bytes that were looked at.
Counted(p) ==
  IF pc[p] = "count" THEN {b \in mem[At(p)] : b < i[p] * CHAR_BIT}
  ELSE mem[At(p)] \ (IF pc[p] \in {"load", "store"} THEN {Position(p)} ELSE {})

Counting ==
  \A p \in Procs \ recount :
    /\ count[p] <= Cardinality(Counted(p))
    /\ ~shared[p] => Counted(p) = mem[p] /\ count[p] = Cardinality(mem[p])

Orderly ==
  Sure /\ Adding /\ Held /\ OneWriter /\ Alone /\ Saved /\ Dumping /\ Reading /\ Counting

IInv == TypeOK /\ Placed /\ (~raced => Orderly)

-----------------------------------------------------------------------------
\* Every item has a position, and each of them is a bit of the filter.
LEMMA Positions ==
  ASSUME NEW k \in Keys
  PROVE  /\ Hash[k] \in Seq(Bits) /\ Len(Hash[k]) \in Nat \ {0}
         /\ DOMAIN Hash[k] = 1 .. Len(Hash[k])
         /\ \A n \in 1 .. Len(Hash[k]) : Hash[k][n] \in Bits
<1>1. Hash[k] \in Seq(Bits) /\ Hash[k] # <<>>
  BY FilterAssumption
<1>. QED BY <1>1, LenProperties, ElementOfSeq, EmptySeq

\* Dividing rounds down.
LEMMA Division ==
  ASSUME NEW e \in Nat, NEW u \in Nat, u >= 1
  PROVE  e \div u \in Nat /\ (e \div u) * u <= e
OBVIOUS

\* A bit lies in a byte of the filter.
LEMMA Bytes ==
  ASSUME NEW b \in Bits
  PROVE  b \in Nat /\ b \div CHAR_BIT \in 0 .. (size - 1)
<1>1. b \in Nat /\ b < size * CHAR_BIT
  BY FilterAssumption DEF Bits
<1>2. b \div CHAR_BIT \in Nat /\ (b \div CHAR_BIT) * CHAR_BIT <= b
  <2>1. CHAR_BIT \in Nat /\ CHAR_BIT >= 1
    BY FilterAssumption
  <2>. QED BY <1>1, <2>1, Division
<1>3. b \div CHAR_BIT < size
  <2>1. SUFFICES ASSUME size <= b \div CHAR_BIT PROVE FALSE
    BY <1>2, FilterAssumption
  <2> DEFINE d == b \div CHAR_BIT
  <2>2. d \in Nat /\ size <= d /\ d * CHAR_BIT <= b
    BY <1>2, <2>1
  <2> HIDE DEF d
  <2>3. size * CHAR_BIT <= d * CHAR_BIT
    BY <2>2, FilterAssumption
  <2>4. size * CHAR_BIT \in Nat /\ d * CHAR_BIT \in Nat
    BY <2>2, FilterAssumption
  <2>. QED BY <1>1, <2>2, <2>3, <2>4
<1>. QED BY <1>1, <1>2, <1>3, FilterAssumption

\* The sets of bits are finite.
LEMMA FiniteBits == \A B \in SUBSET Bits : IsFiniteSet(B) /\ Cardinality(B) \in Nat
<1>1. IsFiniteSet(Bits)
  BY FilterAssumption, FS_Interval DEF Bits
<1>. QED BY <1>1, FS_Subset, FS_CardinalityType

\* A process sees the segment or memory of its own, which is nobody else's.
LEMMA Owners ==
  ASSUME TypeOK
  PROVE  /\ Segment \notin Procs
         /\ \A p \in Procs : At(p) \in Memories /\ At(p) \in {p, Segment}
         /\ \A p, q \in Procs : p # q => At(q) # p
         /\ \A p \in Procs : shared[p] => At(p) = Segment
         /\ \A p \in Procs : ~shared[p] => At(p) = p
BY FilterAssumption DEF TypeOK, At, Memories, Segment

\* The position of a process that is in set.
LEMMA PositionIsBit ==
  ASSUME TypeOK, Placed, NEW p \in Procs, pc[p] \in {"test", "load", "store"}
  PROVE  /\ key[p] \in Keys /\ i[p] \in 1 .. Len(Hash[key[p]])
         /\ Position(p) \in Bits /\ Position(p) \in ByteOf(Position(p) \div CHAR_BIT)
<1>1. key[p] \in Keys /\ i[p] \in 1 .. Len(Hash[key[p]])
  BY DEF TypeOK, Placed
<1>2. Position(p) \in Bits
  BY <1>1, Positions DEF Position
<1>. QED BY <1>1, <1>2 DEF ByteOf

-----------------------------------------------------------------------------
\* The invariant holds of the initial states.
LEMMA InitIInv == Init => IInv
<1>1. SUFFICES ASSUME Init PROVE IInv
  OBVIOUS
<1>2. TypeOK
  <2>1. (CHOOSE k \in Keys : TRUE) \in Keys
    BY FilterAssumption
  <2>2. <<>> \in Seq(SUBSET Bits) /\ Len(<<>>) = 0
    BY EmptySeq
  <2>3. /\ pc \in [Procs -> {"none", "count", "idle", "test", "load", "store", "dump", "read"}]
        /\ mem \in [Memories -> SUBSET Bits] /\ sure \in [Memories -> SUBSET Keys]
        /\ key \in [Procs -> Keys] /\ shared \in [Procs -> BOOLEAN]
    BY <1>1, <2>1 DEF Init
  <2>4. saved \in Seq(SUBSET Bits) /\ Len(saved) <= size
    BY <1>1, <2>2, FilterAssumption DEF Init
  <2>5. 0 \in 0 .. MaxCalls /\ 0 \in Nat
    BY FilterAssumption
  <2>6. i \in [Procs -> Nat] /\ count \in [Procs -> Nat] /\ reg \in [Procs -> SUBSET Bits]
    BY <1>1 DEF Init
  <2>7. raced \in BOOLEAN /\ copied \subseteq Keys /\ recount \subseteq Procs /\ calls = 0
    BY <1>1 DEF Init
  <2>. QED BY <2>3, <2>4, <2>5, <2>6, <2>7 DEF TypeOK
<1>3. Placed
  BY <1>1 DEF Init, Placed
<1>4. Orderly
  <2>1. Len(saved) = 0
    BY <1>1 DEF Init
  <2>2. \A m \in Memories : mem[m] = {} /\ sure[m] = {}
    BY <1>1 DEF Init
  <2>3. Sure /\ Adding /\ Held /\ OneWriter /\ Alone /\ Saved /\ Dumping /\ Reading
    BY <1>1, <2>2 DEF Init, Sure, Adding, Held, OneWriter, Alone, Saved, Dumping, Reading
  <2>4. Counting
    <3>1. ASSUME NEW p \in Procs
          PROVE  Counted(p) = {} /\ mem[p] = {} /\ count[p] = 0
      BY <1>1, <1>2, <2>2, Owners DEF Init, Counted, Memories
    <3>. QED BY <3>1, FS_EmptySet DEF Counting
  <2>. QED BY <2>3, <2>4 DEF Orderly
<1>. QED BY <1>2, <1>3, <1>4 DEF IInv

(***************************************************************************)
(* Types, and where set and dump are.                                      *)
(***************************************************************************)
\* set has one more position to look at, or returns.
LEMMA OnwardsTyped ==
  ASSUME TypeOK, Placed, NEW p \in Procs, pc[p] \in {"test", "load", "store"}, Onwards(p)
  PROVE  /\ pc' \in [Procs -> {"none", "count", "idle", "test", "load", "store", "dump", "read"}]
         /\ i' \in [Procs -> Nat] /\ sure' \in [Memories -> SUBSET Keys]
         /\ pc'[p] \in {"idle", "test"}
         /\ pc'[p] = "test" => i'[p] \in 1 .. Len(Hash[key[p]])
         /\ \A q \in Procs \ {p} : pc'[q] = pc[q] /\ i'[q] = i[q]
<1>1. key[p] \in Keys /\ i[p] \in 1 .. Len(Hash[key[p]]) /\ Len(Hash[key[p]]) \in Nat
  BY PositionIsBit, Positions
<1>2. At(p) \in Memories
  BY Owners
<1>3. CASE i[p] < Len(Hash[key[p]])
  <2>1. pc' = [pc EXCEPT ![p] = "test"] /\ i' = [i EXCEPT ![p] = i[p] + 1] /\ sure' = sure
    BY <1>3 DEF Onwards, GoTo
  <2>2. i[p] \in Nat /\ i[p] + 1 \in 1 .. Len(Hash[key[p]])
    BY <1>1, <1>3
  <2>. QED BY <2>1, <2>2 DEF TypeOK
<1>4. CASE ~(i[p] < Len(Hash[key[p]]))
  <2>1. sure' = [sure EXCEPT ![At(p)] = @ \cup {key[p]}]
    BY <1>4 DEF Onwards
  <2>2. sure' \in [Memories -> SUBSET Keys]
    BY <1>1, <1>2, <2>1 DEF TypeOK
  <2>3. pc' = [pc EXCEPT ![p] = "idle"] /\ i' = [i EXCEPT ![p] = 0]
    BY <1>4 DEF Onwards, GoTo
  <2>. QED BY <2>2, <2>3 DEF TypeOK
<1>. QED BY <1>3, <1>4

\* A process is somewhere, after a jump too.
LEMMA GoToTyped ==
  ASSUME TypeOK, NEW p \in Procs,
         NEW l \in {"none", "count", "idle", "test", "load", "store", "dump", "read"}, GoTo(p, l)
  PROVE  /\ pc' \in [Procs -> {"none", "count", "idle", "test", "load", "store", "dump", "read"}]
         /\ pc'[p] = l /\ \A q \in Procs \ {p} : pc'[q] = pc[q]
BY DEF GoTo, TypeOK

\* A call is counted.
LEMMA CalledTyped == ASSUME TypeOK, Called PROVE calls' \in 0 .. MaxCalls
BY FilterAssumption DEF Called, TypeOK

\* A step of any process keeps the types and the places.
LEMMA StepTyped ==
  ASSUME TypeOK, Placed, [Next]_vars
  PROVE  TypeOK' /\ Placed'
<1>1. ASSUME NEW p \in Procs, init(p) PROVE TypeOK' /\ Placed'
  <2>1. PICK l \in {"count", "idle"} :
          GoTo(p, l) /\ (l = "count" => shared'[p])
    BY <1>1 DEF init, TypeOK
  <2>2. p \in Memories
    BY DEF Memories
  <2>3. /\ shared' \in [Procs -> BOOLEAN] /\ recount' \subseteq Procs
        /\ \A q \in Procs \ {p} : shared'[q] = shared[q]
    BY <1>1 DEF init, TypeOK
  <2>4. mem' \in [Memories -> SUBSET Bits] /\ sure' \in [Memories -> SUBSET Keys]
    BY <1>1, <2>2 DEF init, TypeOK
  <2>5. calls' \in 0 .. MaxCalls
    BY <1>1, CalledTyped DEF init
  <2>6. pc[p] = "none" /\ UNCHANGED <<i, key, reg, count, saved, copied, raced>>
    BY <1>1 DEF init, item, disk
  <2>7. TypeOK'
    BY <2>1, <2>3, <2>4, <2>5, <2>6, GoToTyped DEF TypeOK
  <2>. QED BY <2>1, <2>3, <2>6, <2>7, GoToTyped, FilterAssumption DEF Placed
<1>14. ASSUME NEW p \in Procs, CountsByte(p) PROVE TypeOK' /\ Placed'
  <2>1. /\ pc[p] = "count" /\ shared[p] /\ i[p] \in Nat /\ i[p] < size /\ size \in Nat
        /\ count[p] \in Nat
    BY <1>14, FilterAssumption DEF CountsByte, TypeOK, Placed
  <2>2. UNCHANGED <<shared, mem, key, reg, saved, copied, sure, raced, recount, calls>>
    BY <1>14 DEF CountsByte, item, disk
  <2>3. /\ count' \in [Procs -> Nat]
        /\ \A q \in Procs \ {p} : count'[q] = count[q]
    BY <1>14, <2>1 DEF CountsByte, TypeOK
  <2>4. CASE i[p] + 1 = size
    <3>1. i' = [i EXCEPT ![p] = 0] /\ GoTo(p, "idle")
      BY <1>14, <2>4 DEF CountsByte
    <3>2. TypeOK'
      BY <2>2, <2>3, <3>1, GoToTyped DEF TypeOK
    <3>3. \A q \in Procs \ {p} : i'[q] = i[q]
      BY <3>1 DEF TypeOK
    <3>. QED BY <2>2, <2>3, <3>1, <3>2, <3>3, GoToTyped DEF Placed
  <2>5. CASE i[p] + 1 # size
    <3>1. i' = [i EXCEPT ![p] = i[p] + 1] /\ pc' = pc
      BY <1>14, <2>5 DEF CountsByte
    <3>2. i' \in [Procs -> Nat] /\ i'[p] < size /\ \A q \in Procs \ {p} : i'[q] = i[q]
      BY <2>1, <2>5, <3>1 DEF TypeOK
    <3>3. TypeOK'
      BY <2>2, <2>3, <3>1, <3>2 DEF TypeOK
    <3>. QED BY <2>1, <2>2, <2>3, <3>1, <3>2, <3>3 DEF Placed
  <2>. QED BY <2>4, <2>5
<1>2. ASSUME NEW p \in Procs, uninit(p) PROVE TypeOK' /\ Placed'
  <2>1. p \in Memories /\ (CHOOSE k \in Keys : TRUE) \in Keys
    BY FilterAssumption DEF Memories
  <2>2. mem' \in [Memories -> SUBSET Bits] /\ sure' \in [Memories -> SUBSET Keys]
    BY <1>2, <2>1 DEF uninit, TypeOK
  <2>3. key' \in [Procs -> Keys]
    BY <1>2, <2>1 DEF uninit, TypeOK
  <2>4. GoTo(p, "none") /\ \A q \in Procs \ {p} : i'[q] = i[q] /\ key'[q] = key[q]
    BY <1>2 DEF uninit, TypeOK
  <2>5. TypeOK'
    BY <1>2, <2>2, <2>3, <2>4, GoToTyped DEF uninit, disk, TypeOK
  <2>6. /\ i'[p] = 0 /\ count'[p] = 0
        /\ \A q \in Procs \ {p} : count'[q] = count[q] /\ shared'[q] = shared[q]
    BY <1>2 DEF uninit, TypeOK
  <2>. QED BY <2>4, <2>5, <2>6, GoToTyped DEF Placed
<1>3. ASSUME NEW p \in Procs, NEW k \in Keys, set(p, k) PROVE TypeOK' /\ Placed'
  <2>1. Len(Hash[k]) \in Nat \ {0}
    BY Positions
  <2>2. GoTo(p, "test") /\ calls' \in 0 .. MaxCalls /\ raced' \in BOOLEAN
    BY <1>3, CalledTyped DEF set
  <2>3. i' = [i EXCEPT ![p] = 1] /\ key' = [key EXCEPT ![p] = k]
    BY <1>3 DEF set
  <2>4. UNCHANGED <<shared, mem, reg, count, saved, copied, sure, recount>>
    BY <1>3 DEF set, disk
  <2>5. TypeOK'
    BY <2>2, <2>3, <2>4, GoToTyped DEF TypeOK
  <2>6. \A q \in Procs \ {p} : i'[q] = i[q] /\ key'[q] = key[q]
    BY <2>3 DEF TypeOK
  <2>7. i'[p] = 1 /\ key'[p] = k
    BY <2>3 DEF TypeOK
  <2>. QED BY <2>1, <2>2, <2>4, <2>5, <2>6, <2>7, GoToTyped DEF Placed
<1>4. ASSUME NEW p \in Procs, Tests(p) PROVE TypeOK' /\ Placed'
  <2>1. CASE Position(p) \in mem[At(p)]
    <3>1. Onwards(p) /\ pc[p] = "test"
      BY <1>4, <2>1 DEF Tests
    <3>2. TypeOK'
      BY <1>4, <3>1, OnwardsTyped DEF Tests, item, disk, TypeOK
    <3>. QED BY <1>4, <3>1, <3>2, OnwardsTyped DEF Tests, item, Placed
  <2>2. CASE Position(p) \notin mem[At(p)]
    <3>1. GoTo(p, "load") /\ pc[p] = "test"
      BY <1>4, <2>2 DEF Tests
    <3>2. UNCHANGED <<shared, mem, key, i, reg, count, saved, sure, copied, raced, recount,
                      calls>>
      BY <1>4, <2>2 DEF Tests, item, disk
    <3>. QED BY <3>1, <3>2, GoToTyped DEF TypeOK, Placed
  <2>. QED BY <2>1, <2>2
<1>5. ASSUME NEW p \in Procs, Loads(p) PROVE TypeOK' /\ Placed'
  <2>1. Byte(p, Position(p) \div CHAR_BIT) \in SUBSET Bits
    BY DEF Byte, ByteOf
  <2>2. GoTo(p, "store") /\ pc[p] = "load" /\ raced' \in BOOLEAN
    BY <1>5 DEF Loads
  <2>3. reg' \in [Procs -> SUBSET Bits]
    BY <1>5, <2>1 DEF Loads, TypeOK
  <2>4. UNCHANGED <<shared, mem, key, i, count, saved, sure, copied, recount, calls>>
    BY <1>5 DEF Loads, disk
  <2>. QED BY <2>2, <2>3, <2>4, GoToTyped DEF TypeOK, Placed
<1>6. ASSUME NEW p \in Procs, Stores(p) PROVE TypeOK' /\ Placed'
  <2>1. Onwards(p) /\ pc[p] = "store"
    BY <1>6 DEF Stores
  <2>2. At(p) \in Memories /\ Position(p) \in Bits
    BY <2>1, Owners, PositionIsBit
  <2>3. mem' \in [Memories -> SUBSET Bits]
    BY <1>6, <2>2 DEF Stores, TypeOK
  <2>4. TypeOK'
    BY <1>6, <2>1, <2>3, OnwardsTyped DEF Stores, disk, TypeOK
  <2>. QED BY <1>6, <2>1, <2>4, OnwardsTyped DEF Stores, Placed
<1>7. ASSUME NEW p \in Procs, clear(p) PROVE TypeOK' /\ Placed'
  <2>1. At(p) \in Memories
    BY Owners
  <2>2. mem' \in [Memories -> SUBSET Bits] /\ sure' \in [Memories -> SUBSET Keys]
    BY <1>7, <2>1 DEF clear, TypeOK
  <2>3. /\ calls' \in 0 .. MaxCalls /\ raced' \in BOOLEAN
        /\ count' \in [Procs -> Nat] /\ recount' \subseteq Procs
    BY <1>7, CalledTyped DEF clear, TypeOK
  <2>4. UNCHANGED <<pc, shared, key, reg, i, saved, copied>>
    BY <1>7 DEF clear, item, disk
  <2>5. pc[p] = "idle" /\ \A q \in Procs \ {p} : count'[q] = count[q]
    BY <1>7 DEF clear, TypeOK
  <2>6. TypeOK'
    BY <2>2, <2>3, <2>4 DEF TypeOK
  <2>. QED BY <2>4, <2>5, <2>6 DEF Placed
<1>8. ASSUME NEW p \in Procs, dump(p) PROVE TypeOK' /\ Placed'
  <2>1. <<>> \in Seq(SUBSET Bits) /\ Len(<<>>) = 0 /\ size \in Nat /\ 0 < size
    BY EmptySeq, FilterAssumption
  <2>2. sure[At(p)] \subseteq Keys
    BY Owners DEF TypeOK
  <2>3. GoTo(p, "dump") /\ calls' \in 0 .. MaxCalls /\ raced' \in BOOLEAN
    BY <1>8, CalledTyped DEF dump
  <2>4. i' = [i EXCEPT ![p] = 0] /\ saved' = <<>> /\ copied' \subseteq Keys
    BY <1>8, <2>2 DEF dump
  <2>5. UNCHANGED <<shared, mem, key, reg, count, sure, recount>>
    BY <1>8 DEF dump, item
  <2>6. TypeOK'
    BY <2>1, <2>3, <2>4, <2>5, GoToTyped DEF TypeOK
  <2>7. i'[p] = 0 /\ \A q \in Procs \ {p} : i'[q] = i[q]
    BY <2>4 DEF TypeOK
  <2>. QED BY <2>1, <2>3, <2>5, <2>6, <2>7, GoToTyped DEF Placed
<1>9. ASSUME NEW p \in Procs, write_tofd(p) PROVE TypeOK' /\ Placed'
  <2>1. i[p] \in Nat /\ i[p] < size /\ size \in Nat
    BY <1>9, FilterAssumption DEF write_tofd, TypeOK, Placed
  <2>2. \A n \in 1 .. Len(saved) : saved[n] \in SUBSET Bits
    BY ElementOfSeq DEF TypeOK
  <2>3. Byte(p, i[p]) \in SUBSET Bits
    BY DEF Byte, ByteOf
  <2>4. Len(saved) \in Nat
    BY LenProperties DEF TypeOK
  <2> DEFINE s == [n \in 1 .. (i[p] + 1) |->
             IF n = i[p] + 1 THEN Byte(p, i[p]) ELSE IF n <= Len(saved) THEN saved[n] ELSE {}]
  <2>5. s \in Seq(SUBSET Bits) /\ Len(s) = i[p] + 1
    <3>1. \A n \in 1 .. (i[p] + 1) :
            (IF n = i[p] + 1 THEN Byte(p, i[p]) ELSE IF n <= Len(saved) THEN saved[n] ELSE {})
              \in SUBSET Bits
      BY <2>2, <2>3, <2>4
    <3>. QED BY <2>1, <3>1, IsASeq
  <2>6. saved' = s
    BY <1>9 DEF write_tofd
  <2> HIDE DEF s
  <2>7. UNCHANGED <<shared, mem, key, reg, count, sure, copied, raced, recount, calls>>
    BY <1>9 DEF write_tofd, item
  <2>8. saved' \in Seq(SUBSET Bits) /\ Len(saved') <= size
    BY <2>1, <2>5, <2>6
  <2>9. CASE i[p] + 1 = size
    <3>1. i' = [i EXCEPT ![p] = 0] /\ GoTo(p, "idle")
      BY <1>9, <2>9 DEF write_tofd
    <3>. QED BY <2>7, <2>8, <3>1, GoToTyped DEF TypeOK, Placed
  <2>10. CASE i[p] + 1 # size
    <3>1. i' = [i EXCEPT ![p] = i[p] + 1] /\ pc' = pc /\ pc[p] = "dump"
      BY <1>9, <2>10 DEF write_tofd
    <3>2. i' \in [Procs -> Nat] /\ i'[p] < size /\ \A q \in Procs \ {p} : i'[q] = i[q]
      BY <2>1, <2>10, <3>1 DEF TypeOK
    <3>3. TypeOK'
      BY <2>7, <2>8, <3>1, <3>2 DEF TypeOK
    <3>. QED BY <2>7, <3>1, <3>2, <3>3 DEF Placed
  <2>. QED BY <2>9, <2>10
<1>10. ASSUME NEW p \in Procs, WriteFails(p) PROVE TypeOK' /\ Placed'
  <2>1. i' = [i EXCEPT ![p] = 0] /\ GoTo(p, "idle")
    BY <1>10 DEF WriteFails
  <2>2. UNCHANGED <<shared, mem, key, reg, count, saved, sure, copied, raced, recount, calls>>
    BY <1>10 DEF WriteFails, item, disk
  <2>. QED BY <2>1, <2>2, GoToTyped DEF TypeOK, Placed
<1>11. ASSUME NEW p \in Procs, load(p) PROVE TypeOK' /\ Placed'
  <2>1. At(p) \in Memories
    BY Owners
  <2>2. GoTo(p, "read") /\ calls' \in 0 .. MaxCalls /\ raced' \in BOOLEAN
    BY <1>11, CalledTyped DEF load
  <2>3. sure' \in [Memories -> SUBSET Keys] /\ recount' \subseteq Procs
    BY <1>11, <2>1 DEF load, TypeOK
  <2>4. i' = [i EXCEPT ![p] = 0]
        /\ UNCHANGED <<shared, mem, key, reg, count, saved, copied>>
    BY <1>11 DEF load, item, disk
  <2>. QED BY <2>2, <2>3, <2>4, GoToTyped DEF TypeOK, Placed
<1>12. ASSUME NEW p \in Procs, read_fromfd(p) PROVE TypeOK' /\ Placed'
  <2>1. At(p) \in Memories
    BY Owners
  <2>2. mem' \in [Memories -> SUBSET Bits]
    BY <1>12, <2>1 DEF read_fromfd, TypeOK
  <2>3. Len(saved) \in Nat
    BY LenProperties DEF TypeOK
  <2>4. /\ UNCHANGED <<shared, key, reg, count, saved, copied, raced, recount, calls>>
        /\ pc[p] = "read"
    BY <1>12 DEF read_fromfd, item, disk
  <2>5. CASE Len(saved) = size
    <3>1. i' = [i EXCEPT ![p] = 0] /\ GoTo(p, "idle")
      BY <1>12, <2>5 DEF read_fromfd
    <3>2. sure' \in [Memories -> SUBSET Keys]
      BY <1>12, <2>1, <2>5 DEF read_fromfd, TypeOK
    <3>. QED BY <2>2, <2>4, <3>1, <3>2, GoToTyped DEF TypeOK, Placed
  <2>6. CASE Len(saved) # size
    <3>1. UNCHANGED <<pc, sure>>
      BY <1>12, <2>6 DEF read_fromfd
    <3>2. i' \in [Procs -> Nat] /\ \A q \in Procs \ {p} : i'[q] = i[q]
      BY <1>12, <2>3, <2>6 DEF read_fromfd, TypeOK
    <3>3. TypeOK'
      BY <2>2, <2>4, <3>1, <3>2 DEF TypeOK
    <3>. QED BY <2>4, <3>1, <3>2, <3>3 DEF Placed
  <2>. QED BY <2>5, <2>6
<1>13. CASE UNCHANGED vars
  BY <1>13 DEF vars, TypeOK, Placed
<1>. QED BY <1>1, <1>2, <1>3, <1>4, <1>5, <1>6, <1>7, <1>8, <1>9, <1>10, <1>11, <1>12,
            <1>13, <1>14 DEF Next

\* Every reachable state has its types, and Position is in hash_pos_.
THEOREM TypeCorrect == Spec => [](TypeOK /\ Placed)
<1>1. Init => TypeOK /\ Placed
  BY InitIInv DEF IInv
<1>. QED BY <1>1, StepTyped, PTL DEF Spec

-----------------------------------------------------------------------------
(***************************************************************************)
(* The rest of the invariant, action by action, while nothing got into     *)
(* anything's way.                                                         *)
(***************************************************************************)
\* What is typed stays typed, to be used with each action.
LEMMA NextTyped ==
  ASSUME IInv, Next
  PROVE  TypeOK /\ Placed /\ TypeOK' /\ Placed' /\ (~raced => Orderly)
BY StepTyped DEF IInv

\* A process whose locals stay as they are is where it was.
LEMMA Stays ==
  ASSUME NEW q \in Procs, key'[q] = key[q], i'[q] = i[q], shared'[q] = shared[q]
  PROVE  At(q)' = At(q) /\ Position(q)' = Position(q)
BY DEF At, Position

\* A call that begins set.
LEMMA SetKeeps ==
  ASSUME IInv, ~raced, NEW p \in Procs, NEW k \in Keys, set(p, k), ~raced'
  PROVE  Orderly'
<1>1. TypeOK /\ Placed /\ TypeOK' /\ Placed' /\ Orderly
  BY NextTyped DEF Next
<1>2. /\ pc[p] = "idle" /\ pc'[p] = "test" /\ i'[p] = 1
      /\ \A q \in Procs \ {p} : pc'[q] = pc[q] /\ i'[q] = i[q] /\ key'[q] = key[q]
  BY <1>1 DEF set, GoTo, TypeOK
<1>3. UNCHANGED <<shared, mem, reg, count, saved, sure, copied, recount>>
  BY DEF set, disk
<1>4. /\ \A q \in Procs : At(q)' = At(q)
      /\ \A q \in Procs \ {p} : Position(q)' = Position(q)
  BY <1>2, <1>3 DEF At, Position
<1>5. \A q \in Procs \ {p} : pc[q] \notin {"dump", "read"}
  BY DEF set, Busy
<1>6. Sure' /\ Saved'
  BY <1>1, <1>3 DEF Orderly, Sure, Saved
<1>7. Adding'
  BY <1>1, <1>2, <1>3, <1>4 DEF Orderly, Adding
<1>8. Held' /\ OneWriter'
  BY <1>1, <1>2, <1>3, <1>4 DEF Orderly, Held, OneWriter, Byte
<1>9. Alone'
  BY <1>1, <1>2, <1>5 DEF Orderly, Alone
<1>10. Dumping'
  BY <1>1, <1>2, <1>3, <1>4 DEF Orderly, Dumping
<1>11. Reading'
  BY <1>1, <1>2, <1>3, <1>4 DEF Orderly, Reading
<1>12. Counting'
  <2>1. ASSUME NEW q \in Procs PROVE Counted(q)' = Counted(q)
    BY <1>2, <1>3, <1>4 DEF Counted
  <2>. QED BY <1>1, <1>3, <2>1 DEF Orderly, Counting
<1>. QED BY <1>6, <1>7, <1>8, <1>9, <1>10, <1>11, <1>12 DEF Orderly

\* A position that is set already, or the read of its byte.
LEMMA LoadsKeeps ==
  ASSUME IInv, ~raced, NEW p \in Procs, Loads(p), ~raced'
  PROVE  Orderly'
<1>1. TypeOK /\ Placed /\ TypeOK' /\ Placed' /\ Orderly
  BY NextTyped DEF Next
<1>2. /\ pc[p] = "load" /\ pc'[p] = "store"
      /\ reg'[p] = Byte(p, Position(p) \div CHAR_BIT)
      /\ \A q \in Procs \ {p} : pc'[q] = pc[q] /\ reg'[q] = reg[q]
  BY <1>1 DEF Loads, GoTo, TypeOK
<1>3. UNCHANGED <<shared, mem, key, i, count, saved, sure, copied, recount>>
  BY DEF Loads, disk
<1>4. \A q \in Procs : At(q)' = At(q) /\ Position(q)' = Position(q)
  BY <1>3 DEF At, Position
<1>5. \A q \in Procs \ {p} : pc[q] = "store" /\ At(q) = At(p) =>
        Position(q) \div CHAR_BIT # Position(p) \div CHAR_BIT
  BY DEF Loads
<1>6. Sure' /\ Saved'
  BY <1>1, <1>3 DEF Orderly, Sure, Saved
<1>7. Adding'
  BY <1>1, <1>2, <1>3, <1>4 DEF Orderly, Adding
<1>8. Held' /\ OneWriter'
  BY <1>1, <1>2, <1>3, <1>4, <1>5 DEF Orderly, Held, OneWriter, Byte
<1>9. Alone'
  BY <1>1, <1>2 DEF Orderly, Alone
<1>10. Dumping'
  BY <1>1, <1>2, <1>3, <1>4 DEF Orderly, Dumping
<1>11. Reading'
  BY <1>1, <1>2, <1>3, <1>4 DEF Orderly, Reading
<1>12. Counting'
  <2>1. ASSUME NEW q \in Procs PROVE Counted(q)' = Counted(q)
    BY <1>2, <1>3, <1>4 DEF Counted
  <2>. QED BY <1>1, <1>3, <2>1 DEF Orderly, Counting
<1>. QED BY <1>6, <1>7, <1>8, <1>9, <1>10, <1>11, <1>12 DEF Orderly

\* set goes on from a position that is set now.
LEMMA OnwardsKeeps ==
  ASSUME TypeOK, Placed, TypeOK', Orderly, NEW p \in Procs, pc[p] \in {"test", "store"},
         Onwards(p), \A m \in Memories : mem[m] \subseteq mem'[m],
         Position(p) \in mem'[At(p)], UNCHANGED <<shared, key, saved, copied, recount>>
  PROVE  /\ Sure' /\ Adding' /\ Alone' /\ Saved' /\ Dumping' /\ Reading'
         /\ pc'[p] \in {"idle", "test"}
         /\ \A q \in Procs : At(q)' = At(q)
         /\ \A q \in Procs \ {p} :
              pc'[q] = pc[q] /\ i'[q] = i[q] /\ Position(q)' = Position(q)
<1>1. /\ pc'[p] \in {"idle", "test"} /\ sure' \in [Memories -> SUBSET Keys]
      /\ \A q \in Procs \ {p} : pc'[q] = pc[q] /\ i'[q] = i[q]
  BY OnwardsTyped
<1>2. /\ \A q \in Procs : At(q)' = At(q) /\ At(q) \in Memories
      /\ \A q \in Procs \ {p} : Position(q)' = Position(q)
  BY <1>1, Owners DEF At, Position
<1>3. /\ key[p] \in Keys /\ i[p] \in 1 .. Len(Hash[key[p]])
      /\ Len(Hash[key[p]]) \in Nat /\ DOMAIN Hash[key[p]] = 1 .. Len(Hash[key[p]])
  BY PositionIsBit, Positions
<1>4. \A n \in 1 .. i[p] : Hash[key[p]][n] \in mem'[At(p)]
  <2>1. \A n \in 1 .. (i[p] - 1) : Hash[key[p]][n] \in mem'[At(p)]
    BY <1>2 DEF Orderly, Adding
  <2>2. Hash[key[p]][i[p]] \in mem'[At(p)]
    BY DEF Position
  <2>. QED BY <1>3, <2>1, <2>2
<1>5. \A q \in Procs \ {p} : pc[q] \notin {"dump", "read"}
  BY DEF Orderly, Alone
<1>6. CASE i[p] < Len(Hash[key[p]])
  <2>1. i' = [i EXCEPT ![p] = i[p] + 1] /\ sure' = sure
    BY <1>6 DEF Onwards
  <2>2. i'[p] - 1 = i[p]
    BY <1>3, <2>1 DEF TypeOK
  <2>3. Sure'
    BY <2>1 DEF Orderly, Sure, TypeOK
  <2>4. Adding'
    <3>1. ASSUME NEW q \in Procs \ {p}, pc'[q] \in {"test", "load", "store"}
          PROVE  \A n \in 1 .. (i'[q] - 1) : Hash[key'[q]][n] \in mem'[At(q)']
      BY <1>1, <1>2, <3>1 DEF Orderly, Adding
    <3>2. \A n \in 1 .. (i'[p] - 1) : Hash[key'[p]][n] \in mem'[At(p)']
      BY <1>2, <1>4, <2>2
    <3>. QED BY <3>1, <3>2 DEF Adding
  <2>. QED BY <1>1, <1>2, <1>5, <2>3, <2>4 DEF Orderly, Alone, Saved, Dumping, Reading
<1>7. CASE ~(i[p] < Len(Hash[key[p]]))
  <2>1. sure' = [sure EXCEPT ![At(p)] = sure[At(p)] \cup {key[p]}] /\ pc'[p] = "idle"
    BY <1>7 DEF Onwards, GoTo, TypeOK
  <2>2. i[p] = Len(Hash[key[p]])
    BY <1>3, <1>7
  <2>3. Sure'
    <3>1. ASSUME NEW m \in Memories, NEW k \in sure'[m], k \notin sure[m]
          PROVE  k = key[p] /\ m = At(p)
      BY <1>2, <2>1, <3>1 DEF TypeOK
    <3>2. ASSUME NEW m \in Memories, NEW k \in sure'[m], NEW n \in DOMAIN Hash[k]
          PROVE  Hash[k][n] \in mem'[m]
      <4>1. CASE k \in sure[m]
        BY <4>1 DEF Orderly, Sure
      <4>2. CASE k \notin sure[m]
        BY <1>3, <1>4, <2>2, <3>1, <4>2
      <4>. QED BY <4>1, <4>2
    <3>. QED BY <3>2 DEF Sure
  <2>4. Adding'
    <3>1. ASSUME NEW q \in Procs \ {p}, pc'[q] \in {"test", "load", "store"}
          PROVE  \A n \in 1 .. (i'[q] - 1) : Hash[key'[q]][n] \in mem'[At(q)']
      BY <1>1, <1>2, <3>1 DEF Orderly, Adding
    <3>. QED BY <2>1, <3>1 DEF Adding
  <2>. QED BY <1>1, <1>2, <1>5, <2>1, <2>3, <2>4
           DEF Orderly, Alone, Saved, Dumping, Reading
<1>. QED BY <1>6, <1>7

\* A position that is set already, or one whose byte is to be read.
LEMMA TestsKeeps ==
  ASSUME IInv, ~raced, NEW p \in Procs, Tests(p), ~raced'
  PROVE  Orderly'
<1>1. TypeOK /\ Placed /\ TypeOK' /\ Placed' /\ Orderly
  BY NextTyped DEF Next
<1>2. pc[p] = "test" /\ UNCHANGED <<shared, mem, key, reg, count, saved, copied, recount>>
  BY DEF Tests, item, disk
<1>3. CASE Position(p) \in mem[At(p)]
  <2>1. Onwards(p)
    BY <1>3 DEF Tests
  <2>2. /\ Sure' /\ Adding' /\ Alone' /\ Saved' /\ Dumping' /\ Reading'
        /\ pc'[p] \in {"idle", "test"}
        /\ \A q \in Procs : At(q)' = At(q)
        /\ \A q \in Procs \ {p} :
             pc'[q] = pc[q] /\ i'[q] = i[q] /\ Position(q)' = Position(q)
    BY <1>1, <1>2, <1>3, <2>1, OnwardsKeeps
  <2>3. Held' /\ OneWriter'
    BY <1>1, <1>2, <2>2 DEF Orderly, Held, OneWriter, Byte
  <2>4. Counting'
    <3>1. ASSUME NEW q \in Procs PROVE Counted(q)' = Counted(q)
      BY <1>2, <2>2 DEF Counted
    <3>. QED BY <1>1, <1>2, <3>1 DEF Orderly, Counting
  <2>. QED BY <2>2, <2>3, <2>4 DEF Orderly
<1>4. CASE Position(p) \notin mem[At(p)]
  <2>1. pc'[p] = "load" /\ UNCHANGED <<i, sure>> /\ \A q \in Procs \ {p} : pc'[q] = pc[q]
    BY <1>1, <1>4 DEF Tests, GoTo, TypeOK
  <2>2. \A q \in Procs : At(q)' = At(q) /\ Position(q)' = Position(q)
    BY <1>2, <2>1 DEF At, Position
  <2>3. Sure' /\ Saved' /\ Adding'
    BY <1>1, <1>2, <2>1, <2>2 DEF Orderly, Sure, Saved, Adding
  <2>4. Held' /\ OneWriter' /\ Alone'
    BY <1>1, <1>2, <2>1, <2>2 DEF Orderly, Held, OneWriter, Byte, Alone
  <2>5. Dumping' /\ Reading'
    BY <1>1, <1>2, <2>1, <2>2 DEF Orderly, Dumping, Reading
  <2>6. Counting'
    <3>1. ASSUME NEW q \in Procs PROVE Counted(q)' = Counted(q)
      BY <1>2, <1>4, <2>1, <2>2 DEF Counted
    <3>. QED BY <1>1, <1>2, <3>1 DEF Orderly, Counting
  <2>. QED BY <2>3, <2>4, <2>5, <2>6 DEF Orderly
<1>. QED BY <1>3, <1>4

\* The byte is written back with one more bit.
LEMMA StoresKeeps ==
  ASSUME IInv, ~raced, NEW p \in Procs, Stores(p), ~raced'
  PROVE  Orderly'
<1> DEFINE b == Position(p)
           B == ByteOf(Position(p) \div CHAR_BIT)
<1>1. TypeOK /\ Placed /\ TypeOK' /\ Placed' /\ Orderly
  BY NextTyped DEF Next
<1>2. /\ pc[p] = "store" /\ Onwards(p)
      /\ UNCHANGED <<shared, key, saved, copied, recount>>
  BY DEF Stores, disk
<1>3. b \in Bits /\ b \in B /\ At(p) \in Memories
  BY <1>1, <1>2, PositionIsBit, Owners
<1>4. reg[p] = mem[At(p)] \cap B
  BY <1>1, <1>2 DEF Orderly, Held, Byte
<1>5. mem' = [mem EXCEPT ![At(p)] = mem[At(p)] \cup {b}]
  <2>1. mem' = [mem EXCEPT ![At(p)] = (mem[At(p)] \ B) \cup reg[p] \cup {b}]
    BY DEF Stores
  <2>2. (mem[At(p)] \ B) \cup (mem[At(p)] \cap B) \cup {b} = mem[At(p)] \cup {b}
    OBVIOUS
  <2>. QED BY <1>4, <2>1, <2>2
<1> HIDE DEF b, B
<1>6. /\ mem'[At(p)] = mem[At(p)] \cup {b}
      /\ \A m \in Memories \ {At(p)} : mem'[m] = mem[m]
      /\ \A m \in Memories : mem[m] \subseteq mem'[m]
  BY <1>1, <1>3, <1>5 DEF TypeOK
<1>7. /\ Sure' /\ Adding' /\ Alone' /\ Saved' /\ Dumping' /\ Reading'
      /\ pc'[p] \in {"idle", "test"}
      /\ \A q \in Procs : At(q)' = At(q)
      /\ \A q \in Procs \ {p} :
           pc'[q] = pc[q] /\ i'[q] = i[q] /\ Position(q)' = Position(q)
  BY <1>1, <1>2, <1>6, OnwardsKeeps DEF b
<1>8. /\ \A q \in Procs : At(q) \in Memories
      /\ \A q \in Procs \ {p} : reg'[q] = reg[q] /\ count'[q] = count[q]
      /\ count'[p] = count[p] + 1 /\ count[p] \in Nat
  BY <1>1, Owners DEF Stores, TypeOK
<1>9. OneWriter'
  BY <1>1, <1>7 DEF Orderly, OneWriter
<1>10. Held'
  <2>1. SUFFICES ASSUME NEW q \in Procs \ {p}, pc[q] = "store"
                 PROVE  reg[q] = mem'[At(q)] \cap ByteOf(Position(q) \div CHAR_BIT)
    BY <1>7, <1>8 DEF Held, Byte
  <2>2. reg[q] = mem[At(q)] \cap ByteOf(Position(q) \div CHAR_BIT)
    BY <1>1, <2>1 DEF Orderly, Held, Byte
  <2>3. CASE At(q) = At(p)
    <3>1. Position(q) \div CHAR_BIT # Position(p) \div CHAR_BIT
      BY <1>1, <1>2, <2>1, <2>3 DEF Orderly, OneWriter
    <3>2. b \notin ByteOf(Position(q) \div CHAR_BIT)
      BY <3>1 DEF ByteOf, b
    <3>. QED BY <1>6, <2>2, <2>3, <3>2
  <2>4. CASE At(q) # At(p)
    BY <1>6, <1>8, <2>2, <2>4
  <2>. QED BY <2>3, <2>4
<1>11. Counting'
  <2>1. ASSUME NEW q \in Procs \ recount, q # p
        PROVE  /\ count'[q] <= Cardinality(Counted(q)')
               /\ ~shared[q] => Counted(q)' = mem'[q] /\ count'[q] = Cardinality(mem'[q])
    <3>1. Counted(q) \subseteq Counted(q)' /\ Counted(q)' \subseteq Bits
      BY <1>1, <1>6, <1>7, <1>8, <2>1 DEF Counted, TypeOK
    <3>2. Cardinality(Counted(q)) <= Cardinality(Counted(q)')
      BY <3>1, FiniteBits, FS_Subset
    <3>3. count[q] <= Cardinality(Counted(q)) /\ count[q] \in Nat
      BY <1>1, <2>1 DEF Orderly, Counting, TypeOK
    <3>4. Cardinality(Counted(q)) \in Nat /\ Cardinality(Counted(q)') \in Nat
      BY <3>1, FiniteBits
    <3>5. ASSUME ~shared[q] PROVE Counted(q)' = mem'[q] /\ count'[q] = Cardinality(mem'[q])
      <4>1. At(q) = q /\ At(q) # At(p)
        BY <1>1, <2>1, <3>5, Owners
      <4>2. mem'[q] = mem[q]
        BY <1>6, <1>8, <4>1
      <4>3. Counted(q)' = Counted(q)
        BY <1>7, <2>1, <4>1, <4>2 DEF Counted
      <4>. QED BY <1>1, <1>8, <2>1, <3>5, <4>2, <4>3 DEF Orderly, Counting
    <3>. QED BY <1>8, <2>1, <3>2, <3>3, <3>4, <3>5
  <2>2. ASSUME p \notin recount
        PROVE  /\ count'[p] <= Cardinality(Counted(p)')
               /\ ~shared[p] => Counted(p)' = mem'[p] /\ count'[p] = Cardinality(mem'[p])
    <3>1. Counted(p) = mem[At(p)] \ {b} /\ Counted(p)' = mem[At(p)] \cup {b}
      BY <1>2, <1>6, <1>7 DEF Counted, b
    <3>2. mem[At(p)] \cup {b} = (mem[At(p)] \ {b}) \cup {b}
      OBVIOUS
    <3>3. mem[At(p)] \ {b} \in SUBSET Bits
      BY <1>1, <1>3 DEF TypeOK
    <3>4. Cardinality(Counted(p)') = Cardinality(Counted(p)) + 1
      <4>1. IsFiniteSet(mem[At(p)] \ {b}) /\ b \notin mem[At(p)] \ {b}
        BY <3>3, FiniteBits
      <4>2. Cardinality((mem[At(p)] \ {b}) \cup {b}) = Cardinality(mem[At(p)] \ {b}) + 1
        BY <4>1, FS_AddElement
      <4>. QED BY <3>1, <3>2, <4>2
    <3>5. count[p] <= Cardinality(Counted(p)) /\ Cardinality(Counted(p)) \in Nat
      BY <1>1, <2>2, <3>1, <3>3, FiniteBits DEF Orderly, Counting
    <3>6. ASSUME ~shared[p] PROVE Counted(p)' = mem'[p] /\ count'[p] = Cardinality(mem'[p])
      <4>1. At(p) = p
        BY <1>1, <3>6, Owners
      <4>2. Counted(p) = mem[p] /\ count[p] = Cardinality(mem[p])
        BY <1>1, <2>2, <3>6 DEF Orderly, Counting
      <4>. QED BY <1>6, <1>8, <3>1, <3>4, <4>1, <4>2
    <3>. QED BY <1>8, <3>4, <3>5, <3>6
  <2>. QED BY <1>2, <2>1, <2>2 DEF Counting
<1>. QED BY <1>7, <1>9, <1>10, <1>11 DEF Orderly

\* The destructor or a crash: what others see stays.
LEMMA UninitKeeps ==
  ASSUME IInv, ~raced, NEW p \in Procs, uninit(p), ~raced'
  PROVE  Orderly'
<1>1. TypeOK /\ Placed /\ TypeOK' /\ Placed' /\ Orderly
  BY NextTyped DEF Next
<1>2. /\ pc'[p] = "none" /\ shared'[p] = FALSE /\ count'[p] = 0
      /\ \A q \in Procs \ {p} : /\ pc'[q] = pc[q] /\ shared'[q] = shared[q]
                                /\ key'[q] = key[q] /\ i'[q] = i[q]
                                /\ reg'[q] = reg[q] /\ count'[q] = count[q]
  BY <1>1 DEF uninit, GoTo, TypeOK
<1>3. UNCHANGED <<saved, copied>> /\ recount' = recount \ {p}
  BY DEF uninit, disk
<1>4. p \in Memories /\ At(p)' = p /\ \A q \in Procs \ {p} : At(q) \in Memories \ {p}
  BY <1>1, <1>2, Owners DEF At, Memories
<1>5. /\ mem'[p] = {} /\ sure'[p] = {}
      /\ \A m \in Memories \ {p} : mem'[m] = mem[m] /\ sure'[m] = sure[m]
  BY <1>1, <1>4 DEF uninit, TypeOK
<1>6. \A q \in Procs \ {p} : At(q)' = At(q) /\ Position(q)' = Position(q)
  BY <1>2 DEF At, Position
<1>7. Sure' /\ Saved'
  BY <1>1, <1>3, <1>5 DEF Orderly, Sure, Saved
<1>8. Adding'
  BY <1>1, <1>2, <1>4, <1>5, <1>6 DEF Orderly, Adding
<1>9. Held' /\ OneWriter' /\ Alone'
  BY <1>1, <1>2, <1>4, <1>5, <1>6 DEF Orderly, Held, OneWriter, Byte, Alone
<1>10. Dumping'
  BY <1>1, <1>2, <1>3, <1>4, <1>5, <1>6 DEF Orderly, Dumping
<1>11. Reading'
  <2>1. SUFFICES ASSUME NEW q \in Procs \ {p}, pc[q] = "read"
                 PROVE  /\ sure'[At(q)] = {}
                        /\ \A k \in copied : \A n \in DOMAIN Hash[k] :
                             Hash[k][n] \div CHAR_BIT < i[q] => Hash[k][n] \in mem'[At(q)]
                        /\ \A r \in Procs : At(r)' = At(q) => r \in recount'
    BY <1>2, <1>3, <1>6 DEF Reading
  <2>2. ASSUME NEW r \in Procs, At(r)' = At(q) PROVE r \in recount'
    BY <1>1, <1>3, <1>4, <1>6, <2>1, <2>2 DEF Orderly, Reading
  <2>. QED BY <1>1, <1>4, <1>5, <2>1, <2>2 DEF Orderly, Reading
<1>12. Counting'
  <2>1. ASSUME NEW q \in Procs \ {p}, q \notin recount
        PROVE  /\ count'[q] <= Cardinality(Counted(q)')
               /\ ~shared'[q] => Counted(q)' = mem'[q] /\ count'[q] = Cardinality(mem'[q])
    <3>1. Counted(q)' = Counted(q)
      BY <1>2, <1>4, <1>5, <1>6 DEF Counted
    <3>2. ~shared[q] => mem'[q] = mem[q]
      BY <1>1, <1>4, <1>5, Owners
    <3>. QED BY <1>1, <1>2, <2>1, <3>1, <3>2 DEF Orderly, Counting
  <2>2. Counted(p)' = {} /\ mem'[p] = {} /\ Cardinality({}) = 0
    BY <1>2, <1>4, <1>5, FS_EmptySet DEF Counted
  <2>3. /\ count'[p] <= Cardinality(Counted(p)') /\ Counted(p)' = mem'[p]
        /\ count'[p] = Cardinality(mem'[p])
    BY <1>2, <2>2
  <2>. QED BY <1>3, <2>1, <2>3 DEF Counting
<1>. QED BY <1>7, <1>8, <1>9, <1>10, <1>11, <1>12 DEF Orderly

\* init, in memory of one's own or in the segment.
LEMMA InitKeeps ==
  ASSUME IInv, ~raced, NEW p \in Procs, init(p), ~raced'
  PROVE  Orderly'
<1>1. TypeOK /\ Placed /\ TypeOK' /\ Placed' /\ Orderly
  BY NextTyped DEF Next
<1>2. PICK use_shm \in BOOLEAN :
        /\ shared' = [shared EXCEPT ![p] = use_shm]
        /\ GoTo(p, IF use_shm THEN "count" ELSE "idle")
        /\ recount' = IF use_shm /\ \E q \in Procs : pc[q] = "read" /\ shared[q]
                      THEN recount \cup {p} ELSE recount
  BY DEF init
<1>3. /\ pc[p] = "none" /\ pc'[p] = (IF use_shm THEN "count" ELSE "idle")
      /\ \A q \in Procs \ {p} : pc'[q] = pc[q]
      /\ UNCHANGED <<i, key, reg, count, saved, copied>> /\ count[p] = 0 /\ i[p] = 0
  BY <1>1, <1>2 DEF init, GoTo, item, disk, TypeOK, Placed
<1>4. /\ p \in Memories /\ Segment \in Memories \ {p}
      /\ \A q \in Procs \ {p} : At(q) \in Memories \ {p}
  BY <1>1, Owners DEF Memories
<1>5. /\ mem'[p] = {} /\ sure'[p] = {}
      /\ \A m \in Memories \ {p} : mem'[m] = mem[m] /\ sure'[m] = sure[m]
  BY <1>1, <1>4 DEF init, TypeOK
<1>6. \A q \in Procs \ {p} : shared'[q] = shared[q] /\ count'[q] = count[q]
  BY <1>1, <1>2, <1>3 DEF TypeOK
<1>7. \A q \in Procs \ {p} : At(q)' = At(q) /\ Position(q)' = Position(q)
  BY <1>3, <1>6 DEF At, Position
<1>8. /\ use_shm => At(p)' = Segment
      /\ ~use_shm => At(p)' = p
      /\ shared'[p] <=> use_shm
  BY <1>1, <1>2 DEF At, TypeOK
<1>9. Sure' /\ Saved'
  BY <1>1, <1>3, <1>5 DEF Orderly, Sure, Saved
<1>10. Adding'
  BY <1>1, <1>3, <1>4, <1>5, <1>7 DEF Orderly, Adding
<1>11. Held' /\ OneWriter' /\ Alone'
  BY <1>1, <1>3, <1>4, <1>5, <1>7 DEF Orderly, Held, OneWriter, Byte, Alone
<1>12. Dumping'
  BY <1>1, <1>3, <1>4, <1>5, <1>7 DEF Orderly, Dumping
<1>13. Reading'
  <2>1. SUFFICES ASSUME NEW q \in Procs \ {p}, pc[q] = "read"
                 PROVE  /\ sure'[At(q)] = {}
                        /\ \A k \in copied : \A n \in DOMAIN Hash[k] :
                             Hash[k][n] \div CHAR_BIT < i[q] => Hash[k][n] \in mem'[At(q)]
                        /\ \A r \in Procs : At(r)' = At(q) => r \in recount'
    BY <1>3, <1>7 DEF Reading
  <2>2. ASSUME NEW r \in Procs \ {p}, At(r)' = At(q) PROVE r \in recount'
    BY <1>1, <1>2, <1>7, <2>1, <2>2 DEF Orderly, Reading
  <2>3. ASSUME At(p)' = At(q) PROVE p \in recount'
    <3>1. At(q) # p /\ (~shared[q] => At(q) = q)
      BY <1>1, Owners
    <3>2. use_shm /\ shared[q]
      BY <1>1, <1>4, <1>8, <2>3, <3>1, Owners
    <3>. QED BY <1>2, <2>1, <3>2
  <2>. QED BY <1>1, <1>4, <1>5, <2>1, <2>2, <2>3 DEF Orderly, Reading
<1>14. Counting'
  <2>1. ASSUME NEW q \in Procs \ {p}, q \notin recount
        PROVE  /\ count'[q] <= Cardinality(Counted(q)')
               /\ ~shared'[q] => Counted(q)' = mem'[q] /\ count'[q] = Cardinality(mem'[q])
    <3>1. Counted(q)' = Counted(q)
      BY <1>3, <1>4, <1>5, <1>7 DEF Counted
    <3>2. ~shared[q] => mem'[q] = mem[q]
      BY <1>1, <1>4, <1>5, Owners
    <3>. QED BY <1>1, <1>6, <2>1, <3>1, <3>2 DEF Orderly, Counting
  <2>2. CASE use_shm
    <3>1. Counted(p)' \in SUBSET Bits
      BY <1>1, <1>3, <1>4, <1>5, <1>8, <2>2 DEF Counted, TypeOK
    <3>2. Cardinality(Counted(p)') \in Nat /\ count'[p] = 0
      BY <1>3, <3>1, FiniteBits
    <3>. QED BY <1>2, <1>8, <2>1, <2>2, <3>2 DEF Counting
  <2>3. CASE ~use_shm
    <3>1. Counted(p)' = {} /\ mem'[p] = {} /\ count'[p] = 0
      BY <1>1, <1>2, <1>3, <1>5, <1>8, <2>3 DEF Counted, TypeOK
    <3>2. /\ count'[p] <= Cardinality(Counted(p)') /\ Counted(p)' = mem'[p]
          /\ count'[p] = Cardinality(mem'[p])
      BY <3>1, FS_EmptySet
    <3>. QED BY <1>2, <2>1, <2>3, <3>2 DEF Counting
  <2>. QED BY <2>2, <2>3
<1>. QED BY <1>9, <1>10, <1>11, <1>12, <1>13, <1>14 DEF Orderly

\* A byte of the segment is counted: one bit at most, and none that was counted before.
LEMMA CountsByteKeeps ==
  ASSUME IInv, ~raced, NEW p \in Procs, CountsByte(p), ~raced'
  PROVE  Orderly'
<1>1. TypeOK /\ Placed /\ TypeOK' /\ Placed' /\ Orderly
  BY NextTyped DEF Next
<1>2. /\ pc[p] = "count" /\ pc'[p] \in {"count", "idle"} /\ shared[p]
      /\ pc'[p] = "count" => i'[p] = i[p] + 1
      /\ \A q \in Procs \ {p} : pc'[q] = pc[q] /\ i'[q] = i[q] /\ count'[q] = count[q]
  BY <1>1 DEF CountsByte, GoTo, TypeOK, Placed
<1>3. UNCHANGED <<shared, mem, key, reg, saved, sure, copied, recount>>
  BY DEF CountsByte, item, disk
<1>4. /\ \A q \in Procs : At(q)' = At(q)
      /\ \A q \in Procs \ {p} : Position(q)' = Position(q)
  BY <1>2, <1>3 DEF At, Position
<1>5. Sure' /\ Saved' /\ Adding'
  BY <1>1, <1>2, <1>3, <1>4 DEF Orderly, Sure, Saved, Adding
<1>6. Held' /\ OneWriter' /\ Alone'
  BY <1>1, <1>2, <1>3, <1>4 DEF Orderly, Held, OneWriter, Byte, Alone
<1>7. Dumping' /\ Reading'
  BY <1>1, <1>2, <1>3, <1>4 DEF Orderly, Dumping, Reading
<1>8. Counting'
  <2>1. ASSUME NEW q \in Procs \ {p} PROVE Counted(q)' = Counted(q)
    BY <1>2, <1>3, <1>4 DEF Counted
  <2>2. ASSUME p \notin recount PROVE count'[p] <= Cardinality(Counted(p)')
    <3> DEFINE b == i[p] * CHAR_BIT
    <3>1. /\ mem[At(p)] \in SUBSET Bits /\ i[p] \in Nat /\ count[p] \in Nat /\ b \in Nat
          /\ (i[p] + 1) * CHAR_BIT = b + CHAR_BIT /\ CHAR_BIT >= 1 /\ CHAR_BIT \in Nat
      BY <1>1, Owners, FilterAssumption DEF TypeOK
    <3>2. Counted(p) = {c \in mem[At(p)] : c < b}
      BY <1>2 DEF Counted
    <3>3. count[p] <= Cardinality(Counted(p))
      BY <1>1, <2>2 DEF Orderly, Counting
    <3>4. count'[p] = IF b \in mem[At(p)] THEN count[p] + 1 ELSE count[p]
      BY <1>1 DEF CountsByte, TypeOK
    <3>5. Counted(p)' = IF pc'[p] = "count" THEN {c \in mem[At(p)] : c < (i[p] + 1) * CHAR_BIT}
                        ELSE mem[At(p)]
      BY <1>2, <1>3, <1>4 DEF Counted
    <3> HIDE DEF b
    <3>6. Counted(p) \subseteq Counted(p)' /\ Counted(p)' \in SUBSET Bits /\ b \notin Counted(p)
      <4>1. \A c \in Bits : c \in Nat /\ (c < b => c < b + CHAR_BIT)
        BY <3>1, Bytes
      <4>. QED BY <3>1, <3>2, <3>5, <4>1
    <3>7. b \in mem[At(p)] => b \in Counted(p)'
      BY <3>1, <3>5
    <3>8. /\ Cardinality(Counted(p)) \in Nat /\ Cardinality(Counted(p)') \in Nat
          /\ Cardinality(Counted(p)) <= Cardinality(Counted(p)')
      BY <3>6, FiniteBits, FS_Subset
    <3>9. CASE b \in mem[At(p)]
      <4>1. Counted(p) \cup {b} \subseteq Counted(p)' /\ IsFiniteSet(Counted(p))
        BY <3>6, <3>7, <3>9, FiniteBits
      <4>2. Cardinality(Counted(p) \cup {b}) = Cardinality(Counted(p)) + 1
        BY <3>6, <4>1, FS_AddElement
      <4>3. Cardinality(Counted(p) \cup {b}) <= Cardinality(Counted(p)')
        BY <3>6, <4>1, FiniteBits, FS_Subset
      <4>. QED BY <3>1, <3>3, <3>4, <3>8, <3>9, <4>2, <4>3
    <3>10. CASE b \notin mem[At(p)]
      BY <3>1, <3>3, <3>4, <3>8, <3>10
    <3>. QED BY <3>9, <3>10
  <2>. QED BY <1>1, <1>2, <1>3, <2>1, <2>2 DEF Orderly, Counting
<1>. QED BY <1>5, <1>6, <1>7, <1>8 DEF Orderly

\* clear, with the filter for itself.
LEMMA ClearKeeps ==
  ASSUME IInv, ~raced, NEW p \in Procs, clear(p), ~raced'
  PROVE  Orderly'
<1>1. TypeOK /\ Placed /\ TypeOK' /\ Placed' /\ Orderly
  BY NextTyped DEF Next
<1>2. /\ pc[p] = "idle" /\ i' = i
      /\ \A q \in Procs : pc[q] \in {"none", "count", "idle"} /\ pc'[q] = pc[q]
  BY DEF clear, Busy
<1>3. /\ UNCHANGED <<shared, saved, copied>> /\ count'[p] = 0
      /\ recount' = (recount \ {p}) \cup {q \in Procs \ {p} : At(q) = At(p)}
      /\ \A q \in Procs \ {p} : count'[q] = count[q]
  BY <1>1 DEF clear, disk, TypeOK
<1>4. \A q \in Procs : At(q)' = At(q) /\ At(q) \in Memories
  BY <1>1, <1>3, Owners DEF At
<1>5. /\ mem'[At(p)] = {} /\ sure'[At(p)] = {}
      /\ \A m \in Memories \ {At(p)} : mem'[m] = mem[m] /\ sure'[m] = sure[m]
  BY <1>1, <1>4 DEF clear, TypeOK
<1>6. Sure' /\ Saved'
  BY <1>1, <1>3, <1>5 DEF Orderly, Sure, Saved
<1>7. Adding' /\ Held' /\ OneWriter' /\ Alone' /\ Dumping' /\ Reading'
  BY <1>2 DEF Adding, Held, OneWriter, Alone, Dumping, Reading
<1>8. Counting'
  <2>1. Counted(p)' = mem'[At(p)]
    BY <1>2, <1>4 DEF Counted
  <2>2. ASSUME NEW q \in Procs \ {p}, q \notin recount'
        PROVE  /\ count'[q] <= Cardinality(Counted(q)')
               /\ ~shared'[q] => Counted(q)' = mem'[q] /\ count'[q] = Cardinality(mem'[q])
    <3>1. At(q) # At(p) /\ q \notin recount
      BY <1>3, <2>2
    <3>2. Counted(q)' = Counted(q)
      BY <1>2, <1>4, <1>5, <3>1 DEF Counted
    <3>3. ~shared[q] => mem'[q] = mem[q]
      BY <1>1, <1>4, <1>5, <3>1, Owners
    <3>. QED BY <1>1, <1>3, <2>2, <3>1, <3>2, <3>3 DEF Orderly, Counting
  <2>3. Counted(p)' = {} /\ (~shared[p] => mem'[p] = {}) /\ Cardinality({}) = 0
    BY <1>1, <1>5, <2>1, Owners, FS_EmptySet
  <2>. QED BY <1>3, <2>2, <2>3 DEF Counting
<1>. QED BY <1>6, <1>7, <1>8 DEF Orderly

\* The start of a dump: the file is empty.
LEMMA DumpKeeps ==
  ASSUME IInv, ~raced, NEW p \in Procs, dump(p), ~raced'
  PROVE  Orderly'
<1>1. TypeOK /\ Placed /\ TypeOK' /\ Placed' /\ Orderly
  BY NextTyped DEF Next
<1>2. /\ \A q \in Procs : pc[q] \in {"none", "count", "idle"}
      /\ pc'[p] = "dump" /\ \A q \in Procs \ {p} : pc'[q] = pc[q]
  BY <1>1 DEF dump, Busy, GoTo, TypeOK
<1>3. /\ UNCHANGED <<shared, mem, count, sure, recount>>
      /\ saved' = <<>> /\ copied' = sure[At(p)] /\ i'[p] = 0
      /\ pc[p] = "idle" /\ \A q \in Procs \ {p} : i'[q] = i[q]
  BY <1>1 DEF dump, item, TypeOK
<1>4. \A q \in Procs : At(q)' = At(q)
  BY <1>3 DEF At
<1>5. Len(saved') = 0
  BY <1>3
<1>6. Sure'
  BY <1>1, <1>3 DEF Orderly, Sure
<1>7. Saved'
  <2>1. copied' \subseteq Keys
    BY <1>1 DEF TypeOK
  <2>2. ASSUME NEW k \in copied', NEW n \in DOMAIN Hash[k]
        PROVE  ~(Hash[k][n] \div CHAR_BIT < Len(saved'))
    <3>1. Hash[k][n] \in Bits
      BY <2>1, <2>2, Positions
    <3>2. Hash[k][n] \div CHAR_BIT \in Nat
      BY <3>1, Bytes
    <3>. QED BY <1>5, <3>2
  <2>. QED BY <2>2 DEF Saved
<1>8. Adding' /\ Held' /\ OneWriter' /\ Alone' /\ Reading'
  BY <1>2 DEF Adding, Held, OneWriter, Alone, Reading
<1>9. Dumping'
  BY <1>2, <1>3, <1>4, <1>5 DEF Dumping
<1>10. Counting'
  <2>1. ASSUME NEW q \in Procs PROVE Counted(q)' = Counted(q)
    BY <1>2, <1>3, <1>4 DEF Counted
  <2>. QED BY <1>1, <1>3, <2>1 DEF Orderly, Counting
<1>. QED BY <1>6, <1>7, <1>8, <1>9, <1>10 DEF Orderly

\* A byte of a dump: the bits of its items are in the byte.
LEMMA WriteKeeps ==
  ASSUME IInv, ~raced, NEW p \in Procs, write_tofd(p), ~raced'
  PROVE  Orderly'
<1>1. TypeOK /\ Placed /\ TypeOK' /\ Placed' /\ Orderly
  BY NextTyped DEF Next
<1>2. pc[p] = "dump" /\ UNCHANGED <<shared, mem, key, reg, count, sure, copied, recount>>
  BY DEF write_tofd, item
<1>3. /\ pc'[p] \in {"dump", "idle"} /\ (pc'[p] = "dump" => i'[p] = i[p] + 1)
      /\ \A q \in Procs \ {p} : pc'[q] = pc[q] /\ i'[q] = i[q]
  BY <1>1 DEF write_tofd, GoTo, TypeOK
<1>4. \A q \in Procs \ {p} : pc[q] \in {"none", "count", "idle"}
  BY <1>1, <1>2 DEF Orderly, Alone
<1>5. \A q \in Procs : At(q)' = At(q) /\ At(q) \in Memories
  BY <1>1, <1>2, Owners DEF At
<1>6. copied \subseteq sure[At(p)] /\ Len(saved) = i[p] /\ i[p] \in Nat
  BY <1>1, <1>2 DEF Orderly, Dumping, TypeOK
<1>7. /\ Len(saved') = i[p] + 1 /\ saved'[i[p] + 1] = Byte(p, i[p])
      /\ \A n \in 1 .. i[p] : saved'[n] = saved[n]
  BY <1>6 DEF write_tofd
<1>8. Saved'
  <2>1. SUFFICES ASSUME NEW k \in copied, NEW n \in DOMAIN Hash[k],
                        Hash[k][n] \div CHAR_BIT < i[p] + 1
                 PROVE  Hash[k][n] \in saved'[Hash[k][n] \div CHAR_BIT + 1]
    BY <1>2, <1>7 DEF Saved
  <2> DEFINE b == Hash[k][n]
             B == Hash[k][n] \div CHAR_BIT
  <2>2. b \in Bits /\ B \in Nat
    BY <1>1, Positions, Bytes DEF TypeOK
  <2>3. b \in mem[At(p)]
    BY <1>1, <1>5, <1>6 DEF Orderly, Sure
  <2>4. CASE B < i[p]
    <3>1. b \in saved[B + 1]
      BY <1>1, <1>6, <2>4 DEF Orderly, Saved
    <3>2. B + 1 \in 1 .. i[p]
      BY <1>6, <2>2, <2>4
    <3>. QED BY <1>7, <3>1, <3>2
  <2>5. CASE B = i[p]
    <3>1. b \in Byte(p, B)
      BY <2>2, <2>3 DEF Byte, ByteOf
    <3>. QED BY <1>7, <2>5, <3>1
  <2>. QED BY <1>6, <2>1, <2>2, <2>4, <2>5
<1>9. Sure'
  BY <1>1, <1>2 DEF Orderly, Sure
<1>10. Adding' /\ Held' /\ OneWriter' /\ Alone' /\ Reading'
  BY <1>3, <1>4 DEF Adding, Held, OneWriter, Alone, Reading
<1>11. Dumping'
  BY <1>2, <1>3, <1>4, <1>5, <1>6, <1>7 DEF Dumping
<1>12. Counting'
  <2>1. ASSUME NEW q \in Procs PROVE Counted(q)' = Counted(q)
    BY <1>2, <1>3, <1>4, <1>5 DEF Counted
  <2>. QED BY <1>1, <1>2, <2>1 DEF Orderly, Counting
<1>. QED BY <1>8, <1>9, <1>10, <1>11, <1>12 DEF Orderly

\* A dump that breaks off: the file is short.
LEMMA WriteFailsKeeps ==
  ASSUME IInv, ~raced, NEW p \in Procs, WriteFails(p), ~raced'
  PROVE  Orderly'
<1>1. TypeOK /\ Placed /\ TypeOK' /\ Placed' /\ Orderly
  BY NextTyped DEF Next
<1>2. /\ UNCHANGED <<shared, mem, key, reg, count, saved, sure, copied, recount>>
      /\ pc[p] = "dump" /\ pc'[p] = "idle"
      /\ \A q \in Procs \ {p} : pc'[q] = pc[q] /\ i'[q] = i[q]
  BY <1>1 DEF WriteFails, item, disk, GoTo, TypeOK
<1>3. \A q \in Procs : pc'[q] \in {"none", "count", "idle"}
  BY <1>1, <1>2 DEF Orderly, Alone
<1>4. Sure' /\ Saved'
  BY <1>1, <1>2 DEF Orderly, Sure, Saved
<1>5. Adding' /\ Held' /\ OneWriter' /\ Alone' /\ Dumping' /\ Reading'
  BY <1>3 DEF Adding, Held, OneWriter, Alone, Dumping, Reading
<1>6. Counting'
  <2>1. \A q \in Procs : At(q)' = At(q)
    BY <1>2 DEF At
  <2>2. ASSUME NEW q \in Procs PROVE Counted(q)' = Counted(q)
    BY <1>2, <1>3, <2>1 DEF Counted
  <2>. QED BY <1>1, <1>2, <2>2 DEF Orderly, Counting
<1>. QED BY <1>4, <1>5, <1>6 DEF Orderly

\* The start of a load: nothing is promised of the filter any more.
LEMMA LoadKeeps ==
  ASSUME IInv, ~raced, NEW p \in Procs, load(p), ~raced'
  PROVE  Orderly'
<1>1. TypeOK /\ Placed /\ TypeOK' /\ Placed' /\ Orderly
  BY NextTyped DEF Next
<1>2. /\ \A q \in Procs : pc[q] \in {"none", "count", "idle"}
      /\ pc'[p] = "read" /\ \A q \in Procs \ {p} : pc'[q] = pc[q]
  BY <1>1 DEF load, Busy, GoTo, TypeOK
<1>3. /\ UNCHANGED <<shared, mem, count, saved, copied>> /\ i'[p] = 0 /\ pc[p] = "idle"
      /\ \A q \in Procs \ {p} : i'[q] = i[q]
      /\ recount' = recount \cup {q \in Procs : At(q) = At(p)}
  BY <1>1 DEF load, item, disk, TypeOK
<1>4. \A q \in Procs : At(q)' = At(q) /\ At(q) \in Memories
  BY <1>1, <1>3, Owners DEF At
<1>5. sure'[At(p)] = {} /\ \A m \in Memories \ {At(p)} : sure'[m] = sure[m]
  BY <1>1, <1>4 DEF load, TypeOK
<1>6. Sure' /\ Saved'
  BY <1>1, <1>3, <1>5 DEF Orderly, Sure, Saved
<1>7. Adding' /\ Held' /\ OneWriter' /\ Alone' /\ Dumping'
  BY <1>2 DEF Adding, Held, OneWriter, Alone, Dumping
<1>8. Reading'
  <2>1. ASSUME NEW k \in copied, NEW n \in DOMAIN Hash[k]
        PROVE  ~(Hash[k][n] \div CHAR_BIT < 0)
    <3>1. k \in Keys
      BY <1>1 DEF TypeOK
    <3>2. Hash[k][n] \in Bits
      BY <3>1, Positions
    <3>. QED BY <3>2, Bytes, FilterAssumption
  <2>2. \A q \in Procs : pc'[q] = "read" => q = p
    BY <1>2
  <2>3. sure'[At(p)'] = {}
    BY <1>4, <1>5
  <2>4. \A k \in copied' : \A n \in DOMAIN Hash[k] :
          ~(Hash[k][n] \div CHAR_BIT < i'[p])
    BY <1>3, <2>1
  <2>5. \A q \in Procs : At(q)' = At(p)' => q \in recount'
    BY <1>3, <1>4
  <2>. QED BY <2>2, <2>3, <2>4, <2>5 DEF Reading
<1>9. Counting'
  <2>1. ASSUME NEW q \in Procs PROVE Counted(q)' = Counted(q)
    BY <1>2, <1>3, <1>4 DEF Counted
  <2>. QED BY <1>1, <1>3, <2>1 DEF Orderly, Counting
<1>. QED BY <1>6, <1>7, <1>8, <1>9 DEF Orderly

\* A read of what the file has by now.
LEMMA ReadKeeps ==
  ASSUME IInv, ~raced, NEW p \in Procs, read_fromfd(p), ~raced'
  PROVE  Orderly'
<1> DEFINE read == {b \in Bits : b \div CHAR_BIT \in i[p] .. (Len(saved) - 1)}
           file == {b \in read : b \in saved[b \div CHAR_BIT + 1]}
<1>1. TypeOK /\ Placed /\ TypeOK' /\ Placed' /\ Orderly
  BY NextTyped DEF Next
<1>2. /\ pc[p] = "read" /\ mem' = [mem EXCEPT ![At(p)] = (mem[At(p)] \ read) \cup file]
      /\ UNCHANGED <<shared, key, reg, count, saved, copied, recount>>
  BY DEF read_fromfd, item, disk
<1>3. \A q \in Procs \ {p} :
        pc[q] \in {"none", "count", "idle"} /\ pc'[q] = pc[q] /\ i'[q] = i[q]
  BY <1>1, <1>2 DEF Orderly, Alone, read_fromfd, GoTo, TypeOK
<1>4. \A q \in Procs : At(q)' = At(q) /\ At(q) \in Memories
  BY <1>1, <1>2, Owners DEF At
<1>5. /\ mem'[At(p)] = (mem[At(p)] \ read) \cup file
      /\ \A m \in Memories \ {At(p)} : mem'[m] = mem[m]
  BY <1>1, <1>2, <1>4 DEF TypeOK
<1>6. /\ sure[At(p)] = {}
      /\ \A k \in copied : \A n \in DOMAIN Hash[k] :
           Hash[k][n] \div CHAR_BIT < i[p] => Hash[k][n] \in mem[At(p)]
      /\ \A q \in Procs : At(q) = At(p) => q \in recount
  BY <1>1, <1>2 DEF Orderly, Reading
<1>7. Len(saved) \in Nat /\ i[p] \in Nat /\ size \in Nat
  BY <1>1, LenProperties, FilterAssumption DEF TypeOK
<1>8. ASSUME NEW k \in copied, NEW n \in DOMAIN Hash[k],
             Hash[k][n] \div CHAR_BIT < i[p] \/ Hash[k][n] \div CHAR_BIT < Len(saved)
      PROVE  Hash[k][n] \in mem'[At(p)]
  <2>1. Hash[k][n] \in Bits /\ Hash[k][n] \div CHAR_BIT \in Nat
    BY <1>1, Positions, Bytes DEF TypeOK
  <2>2. CASE Hash[k][n] \div CHAR_BIT < i[p]
    <3>1. Hash[k][n] \in mem[At(p)] /\ Hash[k][n] \notin read
      BY <1>6, <1>7, <2>1, <2>2
    <3>. QED BY <1>5, <3>1
  <2>3. CASE ~(Hash[k][n] \div CHAR_BIT < i[p])
    <3>1. Hash[k][n] \in read
      BY <1>7, <1>8, <2>1, <2>3
    <3>2. Hash[k][n] \in saved[Hash[k][n] \div CHAR_BIT + 1]
      BY <1>1, <1>8, <2>3 DEF Orderly, Saved
    <3>. QED BY <1>5, <3>1, <3>2
  <2>. QED BY <2>2, <2>3
<1> HIDE DEF read, file
<1>9. Saved'
  BY <1>1, <1>2 DEF Orderly, Saved
<1>10. Counting'
  <2>1. ASSUME NEW q \in Procs, q \notin recount
        PROVE  Counted(q)' = Counted(q) /\ (~shared[q] => mem'[q] = mem[q])
    <3>1. At(q) # At(p) /\ q # p
      BY <1>6, <2>1
    <3>2. mem'[At(q)] = mem[At(q)]
      BY <1>4, <1>5, <3>1
    <3>. QED BY <1>1, <1>3, <1>4, <3>1, <3>2, Owners DEF Counted
  <2>. QED BY <1>1, <1>2, <2>1 DEF Orderly, Counting
<1>11. CASE Len(saved) = size
  <2>1. pc'[p] = "idle" /\ sure' = [sure EXCEPT ![At(p)] = copied]
    BY <1>1, <1>11 DEF read_fromfd, GoTo, TypeOK
  <2>2. Sure'
    <3>1. sure'[At(p)] = copied /\ \A m \in Memories \ {At(p)} : sure'[m] = sure[m]
      BY <1>1, <1>4, <2>1 DEF TypeOK
    <3>2. ASSUME NEW k \in copied, NEW n \in DOMAIN Hash[k]
          PROVE  Hash[k][n] \in mem'[At(p)]
      <4>1. Hash[k][n] \div CHAR_BIT < Len(saved)
        <5>1. k \in Keys
          BY <1>1 DEF TypeOK
        <5>2. Hash[k][n] \in Bits
          BY <5>1, Positions
        <5>. QED BY <1>7, <1>11, <5>2, Bytes
      <4>. QED BY <1>8, <4>1
    <3>3. Sure
      BY <1>1 DEF Orderly
    <3>4. ASSUME NEW m \in Memories, NEW k \in sure'[m], NEW n \in DOMAIN Hash[k]
          PROVE  Hash[k][n] \in mem'[m]
      <4>1. CASE m = At(p)
        BY <3>1, <3>2, <3>4, <4>1
      <4>2. CASE m # At(p)
        BY <1>5, <3>1, <3>3, <3>4, <4>2 DEF Sure
      <4>. QED BY <4>1, <4>2
    <3>. QED BY <3>4 DEF Sure
  <2>3. Adding' /\ Held' /\ OneWriter' /\ Alone' /\ Dumping' /\ Reading'
    BY <1>3, <2>1 DEF Adding, Held, OneWriter, Alone, Dumping, Reading
  <2>. QED BY <1>9, <1>10, <2>2, <2>3 DEF Orderly
<1>12. CASE Len(saved) # size
  <2>1. /\ UNCHANGED <<pc, sure>>
        /\ i'[p] = IF i[p] < Len(saved) THEN Len(saved) ELSE i[p]
    BY <1>1, <1>12 DEF read_fromfd, TypeOK
  <2>2. Sure'
    BY <1>1, <1>5, <1>6, <2>1 DEF Orderly, Sure
  <2>3. Adding' /\ Held' /\ OneWriter' /\ Alone' /\ Dumping'
    BY <1>2, <1>3, <2>1 DEF Adding, Held, OneWriter, Alone, Dumping
  <2>4. Reading'
    <3>1. \A k \in copied : \A n \in DOMAIN Hash[k] :
            Hash[k][n] \div CHAR_BIT < i'[p] => Hash[k][n] \in mem'[At(p)]
      BY <1>8, <2>1
    <3>. QED BY <1>2, <1>3, <1>4, <1>6, <2>1, <3>1 DEF Reading
  <2>. QED BY <1>9, <1>10, <2>2, <2>3, <2>4 DEF Orderly
<1>. QED BY <1>11, <1>12

-----------------------------------------------------------------------------
\* What got into something's way stays so.
LEMMA RacedStays == ASSUME Next, raced PROVE raced'
BY DEF Next, init, CountsByte, uninit, set, Tests, Loads, Stores, clear, dump, write_tofd, WriteFails,
       load, read_fromfd

\* A step of any process keeps the invariant.
LEMMA StepIInv == IInv /\ [Next]_vars => IInv'
<1>1. SUFFICES ASSUME IInv, [Next]_vars PROVE IInv'
  OBVIOUS
<1>2. TypeOK' /\ Placed'
  BY <1>1, StepTyped DEF IInv
<1>3. CASE Next
  <2>1. SUFFICES ASSUME ~raced' PROVE Orderly'
    BY <1>2 DEF IInv
  <2>2. ~raced
    BY <1>3, <2>1, RacedStays
  <2>. QED BY <1>1, <1>3, <2>1, <2>2, InitKeeps, CountsByteKeeps, UninitKeeps, SetKeeps, TestsKeeps,
              LoadsKeeps, StoresKeeps, ClearKeeps, DumpKeeps, WriteKeeps, WriteFailsKeeps, LoadKeeps,
              ReadKeeps DEF Next
<1>4. CASE UNCHANGED vars
  <2>1. UNCHANGED <<pc, shared, mem, key, i, reg, count, saved, sure, copied, raced, recount>>
    BY <1>4 DEF vars
  <2>2. \A q \in Procs : At(q)' = At(q) /\ Position(q)' = Position(q)
    BY <2>1 DEF At, Position
  <2>3. SUFFICES ASSUME Orderly PROVE Orderly'
    BY <1>1, <1>2, <2>1 DEF IInv
  <2>4. Sure' /\ Saved' /\ Alone'
    BY <2>1, <2>3 DEF Orderly, Sure, Saved, Alone
  <2>5. Adding' /\ Held' /\ OneWriter'
    BY <2>1, <2>2, <2>3 DEF Orderly, Adding, Held, OneWriter, Byte
  <2>6. Dumping' /\ Reading'
    BY <2>1, <2>2, <2>3 DEF Orderly, Dumping, Reading
  <2>7. Counting'
    <3>1. \A q \in Procs : Counted(q)' = Counted(q)
      BY <2>1, <2>2 DEF Counted
    <3>. QED BY <2>1, <2>3, <3>1 DEF Orderly, Counting
  <2>. QED BY <2>4, <2>5, <2>6, <2>7 DEF Orderly
<1>. QED BY <1>1, <1>3, <1>4

\* IInv holds of every reachable state.
THEOREM Invariant == Spec => []IInv
BY InitIInv, StepIInv, PTL DEF Spec

(***************************************************************************)
(* The promise of a filter: whatever the processes, the hash functions and *)
(* the size, an item whose set has returned is found, in the memory it was *)
(* set in or its dump was loaded into, as long as no operations of two     *)
(* processes got into each other's way.                                    *)
(***************************************************************************)
THEOREM SetIsFound == Spec => []NoFalseNegative
<1>1. IInv => NoFalseNegative
  BY Owners DEF IInv, Orderly, Sure, NoFalseNegative, check
<1>. QED BY <1>1, Invariant, PTL

(***************************************************************************)
(* usage_rate: count_ is the number of bits set in a filter of one's own   *)
(* and never more than that in a shared one.                               *)
(***************************************************************************)
THEOREM CountIsRight == Spec => []CountIsBits
<1>1. IInv => CountIsBits
  <2>1. SUFFICES ASSUME IInv, ~raced, NEW p \in Procs \ recount
                 PROVE  /\ count[p] <= Cardinality(mem[At(p)])
                        /\ ~shared[p] => count[p] = Cardinality(mem[p])
    BY DEF CountIsBits
  <2>2. mem[At(p)] \in SUBSET Bits /\ count[p] \in Nat
    BY <2>1, Owners DEF IInv, TypeOK
  <2>3. Counted(p) \in SUBSET mem[At(p)]
    BY DEF Counted
  <2>4. /\ Cardinality(Counted(p)) <= Cardinality(mem[At(p)])
        /\ Cardinality(Counted(p)) \in Nat /\ Cardinality(mem[At(p)]) \in Nat
    BY <2>2, <2>3, FiniteBits, FS_Subset
  <2>. QED BY <2>1, <2>2, <2>4 DEF IInv, Orderly, Counting
<1>. QED BY <1>1, Invariant, PTL

-----------------------------------------------------------------------------

\* The filters' variables change by steps of BloomFilter only.
LEMMA FiltersAlone == ProcessesSpec => Spec
<1>1. ProcessesInit => Init
  BY DEF ProcessesInit
<1>2. [Filters \/ Segments \/ Daemons \/ Loggers]_<<subject, vars, objects, daemon, loggers>>
        => [Next]_vars
  BY DEF Filters, Segments, Daemons, Loggers
<1>. QED BY <1>1, <1>2, PTL DEF ProcessesSpec, Spec

\* An item whose set has returned is found, and count_ counts the bits, in the
\* composition too.
THEOREM FiltersHold == ProcessesSpec => [](NoFalseNegative /\ CountIsBits)
BY FiltersAlone, SetIsFound, CountIsRight, PTL

-------------------------------------------------------------------------------
(***************************************************************************)
(* Daemon, for every number of process numbers, of calls, of files and of  *)
(* tries.                                                                  *)
(*                                                                         *)
(* The inductive invariant.  Located is about one call by itself; the rest *)
(* holds as long as no start or restart ran beside another call.           *)
(***************************************************************************)
\* Where a process is tells what it called, and what its locals hold there.
Located(p) ==
  /\ proc[p] \in {"start", "probe", "fork", "open", "lock", "write", "close"} => Daemon_!Starts(p)
  /\ proc[p] \in {"restart", "reprobe"} => cmd[p] = "restart"
  /\ proc[p] \in {"stop", "kill", "wait", "unlink"} => cmd[p] \in {"stop", "restart"}
  /\ proc[p] \in {"lock", "write", "close"} => opened[p] \in Daemon_!Files
  /\ proc[p] = "reprobe" => pid[p] \in Pids

Types == Daemon_!TypeOK /\ \A p \in Pids : Located(p)

\* A call that starts a daemon is the only call there is.
Single ==
  \A p, q \in Pids : p # q /\ Daemon_!InCall(p) /\ Daemon_!Starts(p) => ~Daemon_!InCall(q)

Named == \A p \in Daemon_!Running : Daemon_!Content = p

\* A start that read the file has what the file still holds.
HasRead(p) ==
  proc[p] = "probe" => pid[p] = IF Daemon_!Content = Daemon_!None THEN -1 ELSE Daemon_!Content

\* No daemon runs behind the probe of a start, or when a stop removes the file.
Vacant(p) ==
  proc[p] \in {"fork", "open", "lock", "write", "close", "unlink"} => Daemon_!Running = {}

\* A stop aims at the daemon, if there is one.
Aims(p) ==
  proc[p] \in {"kill", "wait"} => \A d \in Daemon_!Running : pid[p] = d

\* The file a start writes is the one that has the name.
Holding(p) ==
  /\ proc[p] \in {"lock", "write", "close"} => path # Daemon_!None /\ opened[p] = path
  /\ proc[p] = "close" => Daemon_!Content = p

\* A restart gets to its stop with the number of a process only.
Restarting(p) ==
  cmd[p] = "restart" =>
    /\ proc[p] \in {"reprobe", "stop"} => Daemon_!Content # Daemon_!None
    /\ proc[p] \in {"kill", "wait"} => pid[p] \in Pids

Proceeds(p) == HasRead(p) /\ Vacant(p) /\ Aims(p) /\ Holding(p) /\ Restarting(p)

Harmless == \A s \in struck : ~s.running /\ (s.by = "restart" => s.found > 0)

OrderlyCalls == Single /\ Named /\ (\A p \in Pids : Proceeds(p)) /\ Harmless

DaemonInv == Types /\ (~overlapped => OrderlyCalls)

-----------------------------------------------------------------------------
(***************************************************************************)
(* Types and places.                                                       *)
(***************************************************************************)
\* A process that dies or fails leaves nothing behind.
GoneActions(p) ==
  \/ Daemon_!Dies(p) \/ Daemon_!StartRefused(p) \/ Daemon_!StartFails(p) \/ Daemon_!LockFails(p) \/ Daemon_!WriteFails(p)
  \/ Daemon_!StopFindsNone(p) \/ Daemon_!StopGivesUp(p) \/ Daemon_!RestartRefused(p)

\* The locals of a process that is gone, or is the daemon, are as at first.
LEMMA ForgottenTyped ==
  ASSUME Daemon_!DaemonAssumption, Types, NEW p \in Pids, Daemon_!Forgotten(p)
  PROVE  /\ cmd' \in [Pids -> Daemon_!Commands] /\ pid' \in [Pids -> Pids \cup {-1}]
         /\ tries' \in [Pids -> 0 .. Tries] /\ opened' \in [Pids -> Daemon_!Files \cup {Daemon_!None}]
<1>1. cmd' \in [Pids -> Daemon_!Commands] /\ pid' \in [Pids -> Pids \cup {-1}]
  BY DEF Daemon_!Forgotten, Types, Daemon_!TypeOK, Daemon_!Commands
<1>2. tries' \in [Pids -> 0 .. Tries] /\ opened' \in [Pids -> Daemon_!Files \cup {Daemon_!None}]
  BY DEF Daemon_!Forgotten, Types, Daemon_!TypeOK, Daemon_!DaemonAssumption
<1>. QED BY <1>1, <1>2

\* The end of a process at any step.
LEMMA GoneTyped ==
  ASSUME Daemon_!DaemonAssumption, Types, NEW p \in Pids, Daemon_!Gone(p)
  PROVE  Types'
<1>1. Daemon_!TypeOK'
  <2>1. quit' \subseteq Pids /\ locked' \in [Daemon_!Files -> Pids \cup {Daemon_!None}]
    BY DEF Daemon_!Gone, Types, Daemon_!TypeOK
  <2>2. proc' \in [Pids -> Daemon_!Idle \cup {"start", "probe", "fork", "open", "lock", "write",
                                    "close", "stop", "kill", "wait", "unlink",
                                    "restart", "reprobe"}]
    BY DEF Daemon_!Gone, Daemon_!GoTo, Types, Daemon_!TypeOK, Daemon_!Idle
  <2>3. cmd' \in [Pids -> Daemon_!Commands] /\ pid' \in [Pids -> Pids \cup {-1}]
    BY ForgottenTyped DEF Daemon_!Gone
  <2>4. tries' \in [Pids -> 0 .. Tries] /\ opened' \in [Pids -> Daemon_!Files \cup {Daemon_!None}]
    BY ForgottenTyped DEF Daemon_!Gone
  <2>5. UNCHANGED <<path, text, launches, overlapped, struck>>
    BY DEF Daemon_!Gone
  <2>. QED BY <2>1, <2>2, <2>3, <2>4, <2>5 DEF Types, Daemon_!TypeOK
<1>2. \A q \in Pids : Located(q)'
  BY DEF Daemon_!Gone, Daemon_!GoTo, Daemon_!Forgotten, Types, Daemon_!TypeOK, Located,
         Daemon_!Starts
<1>. QED BY <1>1, <1>2 DEF Types

\* Every step.
LEMMA StepCalls ==
  ASSUME Daemon_!DaemonAssumption, Types, [Daemon_!Next]_(Daemon_!vars)
  PROVE  Types'
<1>1. Daemon_!DaemonAssumption /\ Daemon_!TypeOK /\ \A p \in Pids : Located(p)
  BY DEF Types
<1>3. ASSUME NEW p \in Pids, Daemon_!Spawn(p) PROVE Types'
  <2>1. Daemon_!TypeOK'
    BY <1>3, <1>1 DEF Daemon_!Spawn, Daemon_!GoTo, Daemon_!TypeOK, Daemon_!Idle,
           Daemon_!file
  <2>2. \A q \in Pids : Located(q)'
    BY <1>3, <1>1 DEF Daemon_!Spawn, Daemon_!GoTo, Daemon_!TypeOK, Located, Daemon_!Starts
  <2>. QED BY <2>1, <2>2 DEF Types
<1>4. ASSUME NEW p \in Pids, Daemon_!StartReads(p) PROVE Types'
  <2>1. Daemon_!TypeOK'
    BY <1>4, <1>1 DEF Daemon_!StartReads, Daemon_!GoTo, Daemon_!getpidfromfile,
           Daemon_!Content, Daemon_!TypeOK, Daemon_!Idle, Daemon_!file
  <2>2. \A q \in Pids : Located(q)'
    BY <1>4, <1>1 DEF Daemon_!StartReads, Daemon_!GoTo, Daemon_!getpidfromfile,
           Daemon_!Content, Daemon_!TypeOK, Located, Daemon_!Starts
  <2>. QED BY <2>1, <2>2 DEF Types
<1>5. ASSUME NEW p \in Pids, Daemon_!StartProbes(p) PROVE Types'
  <2>1. Daemon_!TypeOK'
    BY <1>5, <1>1 DEF Daemon_!StartProbes, Daemon_!GoTo, Daemon_!TypeOK, Daemon_!Idle,
           Daemon_!file
  <2>2. \A q \in Pids : Located(q)'
    BY <1>5, <1>1 DEF Daemon_!StartProbes, Daemon_!GoTo, Daemon_!TypeOK, Located,
           Daemon_!Starts
  <2>. QED BY <2>1, <2>2 DEF Types
<1>6. ASSUME NEW p \in Pids, Daemon_!do_fork(p) PROVE Types'
  <2>1. Daemon_!TypeOK'
    <3>1. PICK q \in Pids : /\ proc' = [proc EXCEPT ![p] = "free", ![q] = "open"]
                            /\ cmd' = [cmd EXCEPT ![q] = cmd[p], ![p] = "start"]
                            /\ pid' = [pid EXCEPT ![q] = pid[p], ![p] = -1]
                            /\ quit' = quit \ {p}
      BY <1>6 DEF Daemon_!do_fork
    <3>2. proc' \in [Pids -> Daemon_!Idle \cup {"start", "probe", "fork", "open", "lock", "write",
                                      "close", "stop", "kill", "wait", "unlink",
                                      "restart", "reprobe"}]
      BY <1>1, <3>1 DEF Daemon_!TypeOK, Daemon_!Idle
    <3>3. cmd' \in [Pids -> Daemon_!Commands] /\ pid' \in [Pids -> Pids \cup {-1}]
      BY <1>1, <3>1 DEF Daemon_!TypeOK, Daemon_!Commands
    <3>. QED BY <1>6, <1>1, <3>1, <3>2, <3>3 DEF Daemon_!do_fork, Daemon_!TypeOK,
           Daemon_!file
  <2>2. \A q \in Pids : Located(q)'
    BY <1>6, <1>1 DEF Daemon_!do_fork, Daemon_!GoTo, Daemon_!TypeOK, Located, Daemon_!Starts
  <2>. QED BY <2>1, <2>2 DEF Types
<1>7. ASSUME NEW p \in Pids, Daemon_!Opens(p) PROVE Types'
  <2>1. Daemon_!TypeOK'
    <3>1. PICK f \in Daemon_!Files : /\ path' = f
                                     /\ text' = [text EXCEPT ![f] = Daemon_!None]
                                     /\ opened' = [opened EXCEPT ![p] = f]
      BY <1>7, <1>1 DEF Daemon_!Opens, Daemon_!TypeOK
    <3>2. /\ text' \in [Daemon_!Files -> Pids \cup {Daemon_!None}] /\ path' \in Daemon_!Files \cup {Daemon_!None}
          /\ opened' \in [Pids -> Daemon_!Files \cup {Daemon_!None}]
      BY <1>1, <3>1 DEF Daemon_!TypeOK
    <3>. QED BY <1>7, <1>1, <3>2 DEF Daemon_!Opens, Daemon_!GoTo, Daemon_!TypeOK,
           Daemon_!Idle
  <2>2. \A q \in Pids : Located(q)'
    BY <1>7, <1>1 DEF Daemon_!Opens, Daemon_!GoTo, Daemon_!Files, Daemon_!TypeOK, Located,
           Daemon_!Starts
  <2>. QED BY <2>1, <2>2 DEF Types
<1>8. ASSUME NEW p \in Pids, Daemon_!Locks(p) PROVE Types'
  <2>1. Daemon_!TypeOK'
    BY <1>8, <1>1 DEF Daemon_!Locks, Daemon_!GoTo, Daemon_!TypeOK, Daemon_!Idle,
           Daemon_!file
  <2>2. \A q \in Pids : Located(q)'
    BY <1>8, <1>1 DEF Daemon_!Locks, Daemon_!GoTo, Daemon_!TypeOK, Located, Daemon_!Starts
  <2>. QED BY <2>1, <2>2 DEF Types
<1>9. ASSUME NEW p \in Pids, Daemon_!Writes(p) PROVE Types'
  <2>1. Daemon_!TypeOK'
    BY <1>9, <1>1 DEF Daemon_!Writes, Daemon_!GoTo, Daemon_!TypeOK, Daemon_!Idle,
           Daemon_!file
  <2>2. \A q \in Pids : Located(q)'
    BY <1>9, <1>1 DEF Daemon_!Writes, Daemon_!GoTo, Daemon_!TypeOK, Located, Daemon_!Starts
  <2>. QED BY <2>1, <2>2 DEF Types
<1>10. ASSUME NEW p \in Pids, Daemon_!Closes(p) PROVE Types'
  <2>1. Daemon_!TypeOK'
    <3>1. proc' \in [Pids -> Daemon_!Idle \cup {"start", "probe", "fork", "open", "lock", "write",
                                      "close", "stop", "kill", "wait", "unlink",
                                      "restart", "reprobe"}]
      BY <1>10, <1>1 DEF Daemon_!Closes, Daemon_!GoTo, Daemon_!TypeOK, Daemon_!Idle
    <3>2. cmd' \in [Pids -> Daemon_!Commands] /\ pid' \in [Pids -> Pids \cup {-1}]
      BY <1>10, <1>1, ForgottenTyped DEF Daemon_!Closes
    <3>3. tries' \in [Pids -> 0 .. Tries] /\ opened' \in [Pids -> Daemon_!Files \cup {Daemon_!None}]
      BY <1>10, <1>1, ForgottenTyped DEF Daemon_!Closes
    <3>4. locked' \in [Daemon_!Files -> Pids \cup {Daemon_!None}]
      BY <1>10, <1>1 DEF Daemon_!Closes, Daemon_!TypeOK
    <3>. QED BY <1>10, <1>1, <3>1, <3>2, <3>3, <3>4 DEF Daemon_!Closes, Daemon_!TypeOK
  <2>2. \A q \in Pids : Located(q)'
    BY <1>10, <1>1 DEF Daemon_!Closes, Daemon_!GoTo, Daemon_!Forgotten, Daemon_!TypeOK,
           Located, Daemon_!Starts
  <2>. QED BY <2>1, <2>2 DEF Types
<1>11. ASSUME NEW p \in Pids, Daemon_!StopReads(p) PROVE Types'
  <2>1. Daemon_!TypeOK'
    <3>1. pid' \in [Pids -> Pids \cup {-1}] /\ tries' \in [Pids -> 0 .. Tries]
      BY <1>11, <1>1 DEF Daemon_!StopReads, Daemon_!getpidfromfile, Daemon_!Content,
             Daemon_!TypeOK, Daemon_!DaemonAssumption
    <3>. QED BY <1>11, <1>1, <3>1 DEF Daemon_!StopReads, Daemon_!GoTo, Daemon_!TypeOK,
           Daemon_!Idle, Daemon_!file
  <2>2. \A q \in Pids : Located(q)'
    BY <1>11, <1>1 DEF Daemon_!StopReads, Daemon_!GoTo, Daemon_!getpidfromfile,
           Daemon_!Content, Daemon_!TypeOK, Located, Daemon_!Starts
  <2>. QED BY <2>1, <2>2 DEF Types
<1>12. ASSUME NEW p \in Pids, Daemon_!StopKills(p) PROVE Types'
  <2>1. Daemon_!TypeOK'
    <3>1. quit' \subseteq Pids
      BY <1>12, <1>1 DEF Daemon_!StopKills, Daemon_!Signals, Daemon_!Targets, Daemon_!TypeOK
    <3>2. struck' \subseteq [by : Daemon_!Commands, found : Pids \cup {-1}, running : BOOLEAN]
      <4>1. [by |-> cmd[p], found |-> pid[p], running |-> Daemon_!Running # {}]
              \in [by : Daemon_!Commands, found : Pids \cup {-1}, running : BOOLEAN]
        BY <1>1 DEF Daemon_!TypeOK
      <4>. QED BY <1>12, <1>1, <4>1 DEF Daemon_!StopKills, Daemon_!Signals, Daemon_!TypeOK
    <3>. QED BY <1>12, <1>1, <3>1, <3>2 DEF Daemon_!StopKills, Daemon_!GoTo,
           Daemon_!TypeOK, Daemon_!Idle, Daemon_!file
  <2>2. \A q \in Pids : Located(q)'
    BY <1>12, <1>1 DEF Daemon_!StopKills, Daemon_!GoTo, Daemon_!Signals, Daemon_!Targets,
           Daemon_!TypeOK, Located, Daemon_!Starts
  <2>. QED BY <2>1, <2>2 DEF Types
<1>13. ASSUME NEW p \in Pids, Daemon_!StopKillsAgain(p) PROVE Types'
  <2>1. Daemon_!TypeOK'
    <3>1. quit' \subseteq Pids
      BY <1>13, <1>1 DEF Daemon_!StopKillsAgain, Daemon_!Signals, Daemon_!Targets,
             Daemon_!TypeOK
    <3>2. struck' \subseteq [by : Daemon_!Commands, found : Pids \cup {-1}, running : BOOLEAN]
      <4>1. [by |-> cmd[p], found |-> pid[p], running |-> Daemon_!Running # {}]
              \in [by : Daemon_!Commands, found : Pids \cup {-1}, running : BOOLEAN]
        BY <1>1 DEF Daemon_!TypeOK
      <4>. QED BY <1>13, <1>1, <4>1 DEF Daemon_!StopKillsAgain, Daemon_!Signals,
             Daemon_!TypeOK
    <3>3. tries' \in [Pids -> 0 .. Tries]
      BY <1>13, <1>1 DEF Daemon_!StopKillsAgain, Daemon_!TypeOK, Daemon_!DaemonAssumption
    <3>. QED BY <1>13, <1>1, <3>1, <3>2, <3>3 DEF Daemon_!StopKillsAgain, Daemon_!TypeOK,
           Daemon_!file
  <2>2. \A q \in Pids : Located(q)'
    BY <1>13, <1>1 DEF Daemon_!StopKillsAgain, Daemon_!GoTo, Daemon_!Signals,
           Daemon_!Targets, Daemon_!TypeOK, Located, Daemon_!Starts
  <2>. QED BY <2>1, <2>2 DEF Types
<1>14. ASSUME NEW p \in Pids, Daemon_!StopSeesEnd(p) PROVE Types'
  <2>1. Daemon_!TypeOK'
    BY <1>14, <1>1 DEF Daemon_!StopSeesEnd, Daemon_!GoTo, Daemon_!TypeOK, Daemon_!Idle,
           Daemon_!file
  <2>2. \A q \in Pids : Located(q)'
    BY <1>14, <1>1 DEF Daemon_!StopSeesEnd, Daemon_!GoTo, Daemon_!TypeOK, Located,
           Daemon_!Starts
  <2>. QED BY <2>1, <2>2 DEF Types
<1>15. ASSUME NEW p \in Pids, Daemon_!Unlinks(p) PROVE Types'
  <2>1. Daemon_!TypeOK'
    <3>1. /\ path' \in Daemon_!Files \cup {Daemon_!None} /\ text' \in [Daemon_!Files -> Pids \cup {Daemon_!None}]
          /\ UNCHANGED <<locked, launches, overlapped, struck>>
      BY <1>15, <1>1 DEF Daemon_!Unlinks, Daemon_!TypeOK
    <3>2. CASE cmd[p] = "restart"
      BY <1>15, <1>1, <3>1, <3>2 DEF Daemon_!Unlinks, Daemon_!GoTo, Daemon_!TypeOK,
             Daemon_!Idle
    <3>3. CASE cmd[p] # "restart"
      <4>1. proc' \in [Pids -> Daemon_!Idle \cup {"start", "probe", "fork", "open", "lock", "write",
                                      "close", "stop", "kill", "wait", "unlink",
                                      "restart", "reprobe"}]
        BY <1>15, <1>1, <3>3 DEF Daemon_!Unlinks, Daemon_!GoTo, Daemon_!TypeOK, Daemon_!Idle
      <4>2. cmd' \in [Pids -> Daemon_!Commands] /\ pid' \in [Pids -> Pids \cup {-1}]
        BY <1>15, <1>1, <3>3, ForgottenTyped DEF Daemon_!Unlinks
      <4>3. tries' \in [Pids -> 0 .. Tries] /\ opened' \in [Pids -> Daemon_!Files \cup {Daemon_!None}]
        BY <1>15, <1>1, <3>3, ForgottenTyped DEF Daemon_!Unlinks
      <4>4. quit' \subseteq Pids
        BY <1>15, <1>1, <3>3 DEF Daemon_!Unlinks, Daemon_!TypeOK
      <4>. QED BY <1>1, <3>1, <4>1, <4>2, <4>3, <4>4 DEF Daemon_!TypeOK
    <3>. QED BY <3>2, <3>3
  <2>2. \A q \in Pids : Located(q)'
    BY <1>15, <1>1 DEF Daemon_!Unlinks, Daemon_!GoTo, Daemon_!Forgotten, Daemon_!TypeOK,
           Located, Daemon_!Starts
  <2>. QED BY <2>1, <2>2 DEF Types
<1>16. ASSUME NEW p \in Pids, Daemon_!RestartReads(p) PROVE Types'
  <2>1. Daemon_!TypeOK'
    BY <1>16, <1>1 DEF Daemon_!RestartReads, Daemon_!GoTo, Daemon_!getpidfromfile,
           Daemon_!Content, Daemon_!TypeOK, Daemon_!Idle, Daemon_!file
  <2>2. \A q \in Pids : Located(q)'
    BY <1>16, <1>1 DEF Daemon_!RestartReads, Daemon_!GoTo, Daemon_!getpidfromfile,
           Daemon_!Content, Daemon_!TypeOK, Located, Daemon_!Starts
  <2>. QED BY <2>1, <2>2 DEF Types
<1>17. ASSUME NEW p \in Pids, Daemon_!RestartProbes(p) PROVE Types'
  <2>1. Daemon_!TypeOK'
    BY <1>17, <1>1 DEF Daemon_!RestartProbes, Daemon_!GoTo, Daemon_!TypeOK, Daemon_!Idle,
           Daemon_!file
  <2>2. \A q \in Pids : Located(q)'
    BY <1>17, <1>1 DEF Daemon_!RestartProbes, Daemon_!GoTo, Daemon_!TypeOK, Located,
           Daemon_!Starts
  <2>. QED BY <2>1, <2>2 DEF Types
<1>2. ASSUME NEW p \in Pids, GoneActions(p) PROVE Types'
  BY <1>2, GoneTyped DEF GoneActions, Daemon_!Dies, Daemon_!StartRefused,
         Daemon_!StartFails, Daemon_!LockFails, Daemon_!WriteFails,
     Daemon_!StopFindsNone, Daemon_!StopGivesUp, Daemon_!RestartRefused
<1>18. ASSUME NEW p \in Pids, NEW c \in Daemon_!Commands, Daemon_!Launch(p, c) PROVE Types'
  <2>1. Daemon_!TypeOK'
    <3>1. overlapped' \in BOOLEAN
      BY <1>18 DEF Daemon_!Launch
    <3>2. launches' \in 0 .. MaxLaunches
      BY <1>18, <1>1 DEF Daemon_!Launch, Daemon_!TypeOK, Daemon_!DaemonAssumption
    <3>3. proc' \in [Pids -> Daemon_!Idle \cup {"start", "probe", "fork", "open", "lock", "write",
                                      "close", "stop", "kill", "wait", "unlink",
                                      "restart", "reprobe"}]
      BY <1>18, <1>1 DEF Daemon_!Launch, Daemon_!GoTo, Daemon_!TypeOK, Daemon_!Idle,
             Daemon_!Commands
    <3>4. cmd' \in [Pids -> Daemon_!Commands]
      BY <1>18, <1>1 DEF Daemon_!Launch, Daemon_!TypeOK
    <3>. QED BY <1>18, <1>1, <3>1, <3>2, <3>3, <3>4 DEF Daemon_!Launch, Daemon_!TypeOK,
           Daemon_!file
  <2>2. \A q \in Pids : Located(q)'
    BY <1>18, <1>1 DEF Daemon_!Launch, Daemon_!GoTo, Daemon_!TypeOK, Located,
           Daemon_!Starts, Daemon_!Commands
  <2>. QED BY <2>1, <2>2 DEF Types
<1>19. CASE UNCHANGED Daemon_!vars
  BY <1>1, <1>19 DEF Daemon_!vars, Types, Daemon_!TypeOK, Located, Daemon_!Starts
<1>. QED BY <1>2, <1>3, <1>4, <1>5, <1>6, <1>7, <1>8, <1>9, <1>10, <1>11, <1>12, <1>13, <1>14,
            <1>15, <1>16, <1>17, <1>18, <1>19 DEF Daemon_!Next, GoneActions

-----------------------------------------------------------------------------
(***************************************************************************)
(* The rest of the invariant, action by action, while no start or restart  *)
(* ran beside another call.                                                *)
(***************************************************************************)
\* The numbers of daemons, and what a file may hold.
LEMMA Numbers ==
  ASSUME Daemon_!DaemonAssumption, Daemon_!TypeOK
  PROVE  /\ Daemon_!Content \in Pids \cup {Daemon_!None}
         /\ \A p \in Pids : p \in Nat /\ p > 0 /\ p # Daemon_!None /\ p # -1
         /\ Daemon_!Running \subseteq Pids /\ \A p \in Pids : p \in Daemon_!Running <=> proc[p] = "daemon"
BY DEF Daemon_!DaemonAssumption, Daemon_!TypeOK, Daemon_!Content, Daemon_!None,
       Daemon_!Running

\* A step of one process that leaves the file alone and starts no daemon.
LEMMA Locally ==
  ASSUME Types, OrderlyCalls, NEW p \in Pids,
         \A q \in Pids \ {p} : /\ proc'[q] = proc[q] /\ cmd'[q] = cmd[q]
                               /\ pid'[q] = pid[q] /\ opened'[q] = opened[q],
         UNCHANGED <<path, text>>, proc'[p] # "daemon",
         Daemon_!InCall(p)' => Daemon_!InCall(p) /\ cmd'[p] = cmd[p]
  PROVE  /\ Single' /\ Named' /\ Daemon_!Running' \subseteq Daemon_!Running /\ Daemon_!Content' = Daemon_!Content
         /\ \A q \in Pids \ {p} : Proceeds(q)'
<1>1. Daemon_!Content' = Daemon_!Content
  BY DEF Daemon_!Content
<1>2. Daemon_!Running' \subseteq Daemon_!Running
  BY DEF Daemon_!Running
<1>3. Named'
  BY <1>1, <1>2 DEF OrderlyCalls, Named
<1>4. Single'
  BY DEF OrderlyCalls, Single, Daemon_!InCall, Daemon_!Starts
<1>5. ASSUME NEW q \in Pids \ {p} PROVE Proceeds(q)'
  <2>1. Proceeds(q)
    BY DEF OrderlyCalls
  <2>2. HasRead(q)' /\ Holding(q)'
    BY <1>1, <2>1 DEF Proceeds, HasRead, Holding
  <2>3. Vacant(q)' /\ Aims(q)'
    BY <1>2, <2>1 DEF Proceeds, Vacant, Aims
  <2>4. Restarting(q)'
    BY <1>1, <2>1 DEF Proceeds, Restarting
  <2>. QED BY <2>2, <2>3, <2>4 DEF Proceeds
<1>. QED BY <1>1, <1>2, <1>3, <1>4, <1>5

\* A process that is in no call any more has nothing to keep.
LEMMA OutOfCall ==
  ASSUME NEW p \in Pids, proc'[p] \in {"free", "other", "foreign", "daemon"}
  PROVE  Proceeds(p)' /\ ~Daemon_!InCall(p)'
BY DEF Proceeds, HasRead, Vacant, Aims, Holding, Restarting, Daemon_!InCall, Daemon_!Idle

\* Beside a call that starts a daemon nobody is in a call.
LEMMA StartsAlone ==
  ASSUME OrderlyCalls, NEW p \in Pids, Daemon_!InCall(p), Daemon_!Starts(p), NEW q \in Pids, q # p
  PROVE  ~Daemon_!InCall(q)
BY DEF OrderlyCalls, Single

\* A process ends, at any step.
LEMMA GoneKeeps ==
  ASSUME Types, OrderlyCalls, NEW p \in Pids, Daemon_!Gone(p)
  PROVE  OrderlyCalls'
<1>1. /\ proc'[p] = "free" /\ UNCHANGED <<path, text, struck>>
      /\ \A q \in Pids \ {p} : /\ proc'[q] = proc[q] /\ cmd'[q] = cmd[q]
                               /\ pid'[q] = pid[q] /\ opened'[q] = opened[q]
  BY DEF Daemon_!Gone, Daemon_!GoTo, Daemon_!Forgotten, Types, Daemon_!TypeOK
<1>2. Proceeds(p)' /\ ~Daemon_!InCall(p)'
  BY <1>1, OutOfCall
<1>3. Single' /\ Named' /\ \A q \in Pids \ {p} : Proceeds(q)'
  BY <1>1, <1>2, Locally
<1>4. Harmless'
  BY <1>1 DEF OrderlyCalls, Harmless
<1>. QED BY <1>2, <1>3, <1>4 DEF OrderlyCalls

\* A stranger gets a free number.
LEMMA SpawnKeeps ==
  ASSUME Types, OrderlyCalls, NEW p \in Pids, Daemon_!Spawn(p)
  PROVE  OrderlyCalls'
<1>1. /\ proc'[p] \in {"other", "foreign"} /\ UNCHANGED <<cmd, pid, opened, path, text, struck>>
      /\ \A q \in Pids \ {p} : proc'[q] = proc[q]
  BY DEF Daemon_!Spawn, Daemon_!GoTo, Types, Daemon_!TypeOK, Daemon_!file
<1>2. Proceeds(p)' /\ ~Daemon_!InCall(p)'
  BY <1>1, OutOfCall
<1>3. Single' /\ Named' /\ \A q \in Pids \ {p} : Proceeds(q)'
  BY <1>1, <1>2, Locally
<1>4. Harmless'
  BY <1>1 DEF OrderlyCalls, Harmless
<1>. QED BY <1>2, <1>3, <1>4 DEF OrderlyCalls

\* A call begins that overlaps with nothing it should not.
LEMMA LaunchKeeps ==
  ASSUME Types, OrderlyCalls, NEW p \in Pids, NEW c \in Daemon_!Commands, Daemon_!Launch(p, c), ~overlapped'
  PROVE  OrderlyCalls'
<1>1. /\ proc[p] = "free" /\ proc'[p] = c /\ cmd'[p] = c /\ c \in {"start", "stop", "restart"}
      /\ UNCHANGED <<pid, opened, path, text, struck>>
      /\ \A q \in Pids \ {p} : proc'[q] = proc[q] /\ cmd'[q] = cmd[q]
  BY DEF Daemon_!Launch, Daemon_!GoTo, Types, Daemon_!TypeOK, Daemon_!file, Daemon_!Commands
<1>2. \A q \in Pids : Daemon_!InCall(q) => c = "stop" /\ ~Daemon_!Starts(q)
  BY DEF Daemon_!Launch
<1>3. Daemon_!Content' = Daemon_!Content /\ Daemon_!Running' = Daemon_!Running
  BY <1>1 DEF Daemon_!Content, Daemon_!Running
<1>4. Single'
  BY <1>1, <1>2 DEF Single, Daemon_!InCall, Daemon_!Starts, Daemon_!Idle
<1>5. Named' /\ Harmless'
  BY <1>1, <1>3 DEF OrderlyCalls, Named, Harmless
<1>6. ASSUME NEW q \in Pids \ {p} PROVE Proceeds(q)'
  BY <1>1, <1>3 DEF OrderlyCalls, Proceeds, HasRead, Vacant, Aims, Holding, Restarting
<1>7. Proceeds(p)'
  BY <1>1 DEF Proceeds, HasRead, Vacant, Aims, Holding, Restarting
<1>. QED BY <1>4, <1>5, <1>6, <1>7 DEF OrderlyCalls

\* The number a start reads is the daemon's, if there is one ...
LEMMA StartReadsKeeps ==
  ASSUME Types, OrderlyCalls, NEW p \in Pids, Daemon_!StartReads(p)
  PROVE  OrderlyCalls'
<1>1. /\ proc[p] = "start" /\ proc'[p] = "probe"
      /\ pid'[p] = IF Daemon_!Content = Daemon_!None THEN -1 ELSE Daemon_!Content
      /\ UNCHANGED <<cmd, opened, path, text, struck>>
      /\ \A q \in Pids \ {p} : proc'[q] = proc[q] /\ pid'[q] = pid[q]
  BY DEF Daemon_!StartReads, Daemon_!getpidfromfile, Daemon_!GoTo, Types, Daemon_!TypeOK,
         Daemon_!file
<1>2. /\ Single' /\ Named' /\ Daemon_!Content' = Daemon_!Content
      /\ \A q \in Pids \ {p} : Proceeds(q)'
  BY <1>1, Locally DEF Daemon_!InCall, Daemon_!Idle
<1>3. Proceeds(p)'
  BY <1>1, <1>2 DEF Proceeds, HasRead, Vacant, Aims, Holding, Restarting
<1>4. Harmless'
  BY <1>1 DEF OrderlyCalls, Harmless
<1>. QED BY <1>2, <1>3, <1>4 DEF OrderlyCalls

\* ... so where the probe finds nobody, no daemon runs.
LEMMA StartProbesKeeps ==
  ASSUME Daemon_!DaemonAssumption, Types, OrderlyCalls, NEW p \in Pids, Daemon_!StartProbes(p)
  PROVE  OrderlyCalls'
<1>1. /\ proc[p] = "probe" /\ proc'[p] = "fork" /\ (pid[p] > 0 => proc[pid[p]] = "free")
      /\ UNCHANGED <<cmd, pid, opened, path, text, struck>>
      /\ \A q \in Pids \ {p} : proc'[q] = proc[q]
  BY DEF Daemon_!StartProbes, Daemon_!GoTo, Types, Daemon_!TypeOK, Daemon_!file
<1>2. /\ Single' /\ Named' /\ Daemon_!Running' \subseteq Daemon_!Running
      /\ \A q \in Pids \ {p} : Proceeds(q)'
  BY <1>1, Locally DEF Daemon_!InCall, Daemon_!Idle
<1>3. Daemon_!Running = {}
  <2>1. SUFFICES ASSUME NEW d \in Daemon_!Running PROVE FALSE
    OBVIOUS
  <2>2. Daemon_!Content = d /\ d \in Pids /\ d > 0 /\ d # Daemon_!None /\ proc[d] = "daemon"
    BY Numbers DEF OrderlyCalls, Named, Types
  <2>3. pid[p] = d
    BY <1>1, <2>2 DEF OrderlyCalls, Proceeds, HasRead
  <2>. QED BY <1>1, <2>2, <2>3
<1>4. Proceeds(p)'
  BY <1>1, <1>2, <1>3 DEF Proceeds, HasRead, Vacant, Aims, Holding, Restarting
<1>5. Harmless'
  BY <1>1 DEF OrderlyCalls, Harmless
<1>. QED BY <1>2, <1>4, <1>5 DEF OrderlyCalls

\* The child is alone in a call as its parent was.
LEMMA ForkKeeps ==
  ASSUME Types, OrderlyCalls, NEW p \in Pids, Daemon_!do_fork(p)
  PROVE  OrderlyCalls'
<1>1. PICK q \in Pids : /\ proc[q] = "free"
                        /\ proc' = [proc EXCEPT ![p] = "free", ![q] = "open"]
                        /\ cmd' = [cmd EXCEPT ![q] = cmd[p], ![p] = "start"]
                        /\ pid' = [pid EXCEPT ![q] = pid[p], ![p] = -1]
  BY DEF Daemon_!do_fork
<1>2. proc[p] = "fork" /\ q # p /\ Daemon_!InCall(p) /\ Daemon_!Starts(p)
  BY <1>1 DEF Daemon_!do_fork, Daemon_!InCall, Daemon_!Idle, Types, Located
<1>3. /\ proc'[p] = "free" /\ proc'[q] = "open" /\ cmd'[q] = cmd[p]
      /\ \A r \in Pids \ {p, q} : proc'[r] = proc[r] /\ cmd'[r] = cmd[r]
      /\ UNCHANGED <<opened, path, text, struck>>
  BY <1>1, <1>2 DEF Daemon_!do_fork, Daemon_!file, Types, Daemon_!TypeOK
<1>4. \A r \in Pids \ {p} : ~Daemon_!InCall(r)
  BY <1>2, StartsAlone
<1>5. Daemon_!Running = {}
  BY <1>2 DEF OrderlyCalls, Proceeds, Vacant
<1>6. Daemon_!Running' = {}
  BY <1>3, <1>5 DEF Daemon_!Running
<1>7. \A r \in Pids \ {q} : ~Daemon_!InCall(r)'
  BY <1>3, <1>4 DEF Daemon_!InCall, Daemon_!Idle
<1>8. Single'
  BY <1>7 DEF Single
<1>9. ASSUME NEW r \in Pids \ {q} PROVE Proceeds(r)'
  BY <1>7, OutOfCall DEF Daemon_!InCall, Daemon_!Idle
<1>10. Proceeds(q)'
  BY <1>3, <1>6 DEF Proceeds, HasRead, Vacant, Aims, Holding, Restarting
<1>11. Named' /\ Harmless'
  BY <1>3, <1>6 DEF OrderlyCalls, Named, Harmless
<1>. QED BY <1>8, <1>9, <1>10, <1>11 DEF OrderlyCalls

\* The file is created or truncated by the only call there is.
LEMMA OpensKeeps ==
  ASSUME Types, OrderlyCalls, NEW p \in Pids, Daemon_!Opens(p)
  PROVE  OrderlyCalls'
<1>1. PICK f : /\ f \in Daemon_!Files
               /\ path' = f /\ text' = [text EXCEPT ![f] = Daemon_!None] /\ opened' = [opened EXCEPT ![p] = f]
  BY DEF Daemon_!Opens, Types, Daemon_!TypeOK
<1>2. /\ proc[p] = "open" /\ proc'[p] = "lock" /\ \A q \in Pids \ {p} : proc'[q] = proc[q]
      /\ opened'[p] = f /\ f # Daemon_!None /\ UNCHANGED <<cmd, pid, struck>>
  BY <1>1 DEF Daemon_!Opens, Daemon_!GoTo, Types, Daemon_!TypeOK, Daemon_!Files,
         Daemon_!None
<1>3. Daemon_!InCall(p) /\ Daemon_!Starts(p)
  BY <1>2 DEF Daemon_!InCall, Daemon_!Idle, Types, Located
<1>4. \A q \in Pids \ {p} : ~Daemon_!InCall(q)'
  BY <1>2, <1>3, StartsAlone DEF Daemon_!InCall
<1>5. Daemon_!Running' = {}
  BY <1>2 DEF OrderlyCalls, Proceeds, Vacant, Daemon_!Running
<1>6. Proceeds(p)'
  BY <1>1, <1>2, <1>5 DEF Proceeds, HasRead, Vacant, Aims, Holding, Restarting
<1>7. \A q \in Pids \ {p} : Proceeds(q)'
  BY <1>4, OutOfCall DEF Daemon_!InCall, Daemon_!Idle
<1>8. Single' /\ Named' /\ Harmless'
  BY <1>2, <1>4, <1>5 DEF OrderlyCalls, Single, Named, Harmless
<1>. QED BY <1>6, <1>7, <1>8 DEF OrderlyCalls

\* The lock changes nothing that matters to a call that is alone.
LEMMA LocksKeeps ==
  ASSUME Types, OrderlyCalls, NEW p \in Pids, Daemon_!Locks(p)
  PROVE  OrderlyCalls'
<1>1. /\ proc[p] = "lock" /\ proc'[p] = "write" /\ UNCHANGED <<cmd, pid, opened, path, text, struck>>
      /\ \A q \in Pids \ {p} : proc'[q] = proc[q]
  BY DEF Daemon_!Locks, Daemon_!GoTo, Types, Daemon_!TypeOK
<1>2. /\ Single' /\ Named' /\ Daemon_!Running' \subseteq Daemon_!Running /\ Daemon_!Content' = Daemon_!Content
      /\ \A q \in Pids \ {p} : Proceeds(q)'
  BY <1>1, Locally DEF Daemon_!InCall, Daemon_!Idle
<1>3. Proceeds(p)'
  BY <1>1, <1>2 DEF OrderlyCalls, Proceeds, HasRead, Vacant, Aims, Holding, Restarting
<1>4. Harmless'
  BY <1>1 DEF OrderlyCalls, Harmless
<1>. QED BY <1>2, <1>3, <1>4 DEF OrderlyCalls

\* The number gets into the file that has the name.
LEMMA WritesKeeps ==
  ASSUME Types, OrderlyCalls, NEW p \in Pids, Daemon_!Writes(p)
  PROVE  OrderlyCalls'
<1>1. /\ proc[p] = "write" /\ proc'[p] = "close" /\ \A q \in Pids \ {p} : proc'[q] = proc[q]
      /\ opened[p] \in Daemon_!Files /\ text'[opened[p]] = p /\ UNCHANGED <<cmd, pid, opened, path, struck>>
  BY DEF Daemon_!Writes, Daemon_!GoTo, Types, Daemon_!TypeOK, Located
<1>2. Daemon_!InCall(p) /\ Daemon_!Starts(p)
  BY <1>1 DEF Daemon_!InCall, Daemon_!Idle, Types, Located
<1>3. \A q \in Pids \ {p} : ~Daemon_!InCall(q)'
  BY <1>1, <1>2, StartsAlone DEF Daemon_!InCall
<1>4. Daemon_!Running' = {}
  BY <1>1 DEF OrderlyCalls, Proceeds, Vacant, Daemon_!Running
<1>5. path # Daemon_!None /\ opened[p] = path
  BY <1>1 DEF OrderlyCalls, Proceeds, Holding
<1>6. Daemon_!Content' = p
  BY <1>1, <1>5 DEF Daemon_!Content
<1>7. Proceeds(p)'
  BY <1>1, <1>4, <1>5, <1>6 DEF Proceeds, HasRead, Vacant, Aims, Holding, Restarting
<1>8. \A q \in Pids \ {p} : Proceeds(q)'
  BY <1>3, OutOfCall DEF Daemon_!InCall, Daemon_!Idle
<1>9. Single' /\ Named' /\ Harmless'
  BY <1>1, <1>3, <1>4 DEF OrderlyCalls, Single, Named, Harmless
<1>. QED BY <1>7, <1>8, <1>9 DEF OrderlyCalls

\* The process becomes the daemon, the only one, named in the file.
LEMMA ClosesKeeps ==
  ASSUME Types, OrderlyCalls, NEW p \in Pids, Daemon_!Closes(p)
  PROVE  OrderlyCalls'
<1>1. /\ proc[p] = "close" /\ proc'[p] = "daemon" /\ \A q \in Pids \ {p} : proc'[q] = proc[q]
      /\ UNCHANGED <<path, text, struck>>
  BY DEF Daemon_!Closes, Daemon_!GoTo, Types, Daemon_!TypeOK
<1>2. Daemon_!InCall(p) /\ Daemon_!Starts(p)
  BY <1>1 DEF Daemon_!InCall, Daemon_!Idle, Types, Located
<1>3. \A q \in Pids : ~Daemon_!InCall(q)'
  BY <1>1, <1>2, StartsAlone DEF Daemon_!InCall, Daemon_!Idle
<1>4. Daemon_!Running' \subseteq {p}
  BY <1>1 DEF OrderlyCalls, Proceeds, Vacant, Daemon_!Running
<1>5. Daemon_!Content' = p
  BY <1>1 DEF OrderlyCalls, Proceeds, Holding, Daemon_!Content
<1>6. \A q \in Pids : Proceeds(q)'
  BY <1>3, OutOfCall DEF Daemon_!InCall, Daemon_!Idle
<1>7. Single' /\ Named' /\ Harmless'
  BY <1>1, <1>3, <1>4, <1>5 DEF OrderlyCalls, Single, Named, Harmless
<1>. QED BY <1>6, <1>7 DEF OrderlyCalls

\* A stop that read the file aims at the daemon.
LEMMA StopReadsKeeps ==
  ASSUME Daemon_!DaemonAssumption, Types, OrderlyCalls, NEW p \in Pids, Daemon_!StopReads(p)
  PROVE  OrderlyCalls'
<1>1. /\ proc[p] = "stop" /\ proc'[p] = "kill"
      /\ pid'[p] = IF Daemon_!Content = Daemon_!None THEN -1 ELSE Daemon_!Content
      /\ UNCHANGED <<cmd, opened, path, text, struck>>
      /\ \A q \in Pids \ {p} : proc'[q] = proc[q] /\ pid'[q] = pid[q]
  BY DEF Daemon_!StopReads, Daemon_!getpidfromfile, Daemon_!GoTo, Types, Daemon_!TypeOK,
         Daemon_!file
<1>2. /\ Single' /\ Named' /\ Daemon_!Running' \subseteq Daemon_!Running
      /\ \A q \in Pids \ {p} : Proceeds(q)'
  BY <1>1, Locally DEF Daemon_!InCall, Daemon_!Idle
<1>3. Aims(p)'
  BY <1>1, <1>2, Numbers DEF Aims, OrderlyCalls, Named, Types
<1>4. Restarting(p)'
  BY <1>1, Numbers DEF OrderlyCalls, Proceeds, Restarting, Types
<1>5. Proceeds(p)'
  BY <1>1, <1>3, <1>4 DEF Proceeds, HasRead, Vacant, Holding
<1>6. Harmless'
  BY <1>1 DEF OrderlyCalls, Harmless
<1>. QED BY <1>2, <1>5, <1>6 DEF OrderlyCalls

\* Where a daemon runs, a stop finds it and nobody else.
LEMMA AimIsDaemon ==
  ASSUME Daemon_!DaemonAssumption, Types, OrderlyCalls, NEW p \in Pids, proc[p] \in {"kill", "wait"},
         NEW d \in Daemon_!Running
  PROVE  Daemon_!Targets(p, pid[p]) = {d} /\ proc[d] = "daemon"
<1>1. pid[p] = d
  BY DEF OrderlyCalls, Proceeds, Aims
<1>2. d # -1 /\ proc[d] = "daemon"
  BY Numbers DEF Types
<1>. QED BY <1>1, <1>2 DEF Daemon_!Targets, Daemon_!Mine

\* So a stranger gets the signal only when no daemon runs, and a restart has
\* a number to send it to.
LEMMA SignalsHarmless ==
  ASSUME Daemon_!DaemonAssumption, Types, OrderlyCalls, NEW p \in Pids, proc[p] \in {"kill", "wait"}, Daemon_!Signals(p)
  PROVE  Harmless'
<1>1. Harmless
  BY DEF OrderlyCalls
<1>2. CASE \E q \in Daemon_!Targets(p, pid[p]) : proc[q] = "other"
  <2>1. struck' = struck \cup {[by |-> cmd[p], found |-> pid[p], running |-> Daemon_!Running # {}]}
    BY <1>2 DEF Daemon_!Signals
  <2>2. Daemon_!Running = {}
    BY <1>2, AimIsDaemon
  <2>3. cmd[p] = "restart" => pid[p] > 0
    BY Numbers DEF OrderlyCalls, Proceeds, Restarting, Types
  <2> DEFINE r == [by |-> cmd[p], found |-> pid[p], running |-> Daemon_!Running # {}]
  <2>4. r.by = cmd[p] /\ r.found = pid[p] /\ r.running = (Daemon_!Running # {})
    OBVIOUS
  <2>5. ~r.running /\ (r.by = "restart" => r.found > 0)
    BY <2>2, <2>3, <2>4
  <2>6. struck' = struck \cup {r}
    BY <2>1
  <2> HIDE DEF r
  <2>. QED BY <1>1, <2>5, <2>6 DEF Harmless
<1>3. CASE ~ \E q \in Daemon_!Targets(p, pid[p]) : proc[q] = "other"
  BY <1>1, <1>3 DEF Daemon_!Signals, Harmless
<1>. QED BY <1>2, <1>3

\* The signal, for the first time ...
LEMMA StopKillsKeeps ==
  ASSUME Daemon_!DaemonAssumption, Types, OrderlyCalls, NEW p \in Pids, Daemon_!StopKills(p)
  PROVE  OrderlyCalls'
<1>1. /\ proc[p] = "kill" /\ proc'[p] = "wait" /\ UNCHANGED <<cmd, pid, opened, path, text>>
      /\ \A q \in Pids \ {p} : proc'[q] = proc[q]
  BY DEF Daemon_!StopKills, Daemon_!GoTo, Types, Daemon_!TypeOK, Daemon_!file
<1>2. /\ Single' /\ Named' /\ Daemon_!Running' \subseteq Daemon_!Running /\ Daemon_!Content' = Daemon_!Content
      /\ \A q \in Pids \ {p} : Proceeds(q)'
  BY <1>1, Locally DEF Daemon_!InCall, Daemon_!Idle
<1>3. Proceeds(p)'
  BY <1>1, <1>2 DEF OrderlyCalls, Proceeds, HasRead, Vacant, Aims, Holding, Restarting
<1>4. Harmless'
  BY <1>1, SignalsHarmless DEF Daemon_!StopKills
<1>. QED BY <1>2, <1>3, <1>4 DEF OrderlyCalls

\* ... and again.
LEMMA StopKillsAgainKeeps ==
  ASSUME Daemon_!DaemonAssumption, Types, OrderlyCalls, NEW p \in Pids, Daemon_!StopKillsAgain(p)
  PROVE  OrderlyCalls'
<1>1. proc[p] = "wait" /\ UNCHANGED <<proc, cmd, pid, opened, path, text>>
  BY DEF Daemon_!StopKillsAgain, Daemon_!file
<1>2. /\ Single' /\ Named' /\ Daemon_!Running' \subseteq Daemon_!Running /\ Daemon_!Content' = Daemon_!Content
      /\ \A q \in Pids \ {p} : Proceeds(q)'
  BY <1>1, Locally DEF Daemon_!InCall, Daemon_!Idle
<1>3. Proceeds(p)'
  BY <1>1, <1>2 DEF OrderlyCalls, Proceeds, HasRead, Vacant, Aims, Holding, Restarting
<1>4. Harmless'
  BY <1>1, SignalsHarmless DEF Daemon_!StopKillsAgain
<1>. QED BY <1>2, <1>3, <1>4 DEF OrderlyCalls

\* A stop that sees nobody to signal knows that no daemon runs.
LEMMA StopSeesEndKeeps ==
  ASSUME Daemon_!DaemonAssumption, Types, OrderlyCalls, NEW p \in Pids, Daemon_!StopSeesEnd(p)
  PROVE  OrderlyCalls'
<1>1. /\ proc[p] = "wait" /\ proc'[p] = "unlink" /\ Daemon_!Targets(p, pid[p]) = {}
      /\ UNCHANGED <<cmd, pid, opened, path, text, struck>>
      /\ \A q \in Pids \ {p} : proc'[q] = proc[q]
  BY DEF Daemon_!StopSeesEnd, Daemon_!GoTo, Types, Daemon_!TypeOK, Daemon_!file
<1>2. /\ Single' /\ Named' /\ Daemon_!Running' \subseteq Daemon_!Running
      /\ \A q \in Pids \ {p} : Proceeds(q)'
  BY <1>1, Locally DEF Daemon_!InCall, Daemon_!Idle
<1>3. Daemon_!Running = {}
  BY <1>1, AimIsDaemon
<1>4. Proceeds(p)'
  BY <1>1, <1>2, <1>3 DEF Proceeds, HasRead, Vacant, Aims, Holding, Restarting
<1>5. Harmless'
  BY <1>1 DEF OrderlyCalls, Harmless
<1>. QED BY <1>2, <1>4, <1>5 DEF OrderlyCalls

\* The name goes while no daemon runs; who else is in a call only stops.
LEMMA UnlinksKeeps ==
  ASSUME Types, OrderlyCalls, NEW p \in Pids, Daemon_!Unlinks(p)
  PROVE  OrderlyCalls'
<1>1. /\ proc[p] = "unlink" /\ proc'[p] = IF cmd[p] = "restart" THEN "start" ELSE "free"
      /\ UNCHANGED struck
      /\ \A q \in Pids \ {p} : /\ proc'[q] = proc[q] /\ cmd'[q] = cmd[q]
                               /\ pid'[q] = pid[q] /\ opened'[q] = opened[q]
  BY DEF Daemon_!Unlinks, Daemon_!GoTo, Daemon_!Forgotten, Types, Daemon_!TypeOK
<1>2. Daemon_!InCall(p) /\ Daemon_!Running' = {}
  BY <1>1 DEF OrderlyCalls, Proceeds, Vacant, Daemon_!Running, Daemon_!InCall, Daemon_!Idle
<1>3. ASSUME NEW q \in Pids \ {p}, Daemon_!InCall(q) PROVE ~Daemon_!Starts(q)
  BY <1>2, <1>3, StartsAlone
<1>4. ASSUME NEW q \in Pids \ {p}, Daemon_!InCall(q) PROVE ~Daemon_!Starts(p)
  BY <1>2, <1>4, StartsAlone
<1>5. Single'
  <2>1. CASE cmd[p] = "restart"
    BY <1>1, <1>4, <2>1 DEF Single, Daemon_!InCall, Daemon_!Starts
  <2>2. CASE cmd[p] # "restart"
    BY <1>1, <1>3, <2>2 DEF Single, Daemon_!InCall, Daemon_!Starts, Daemon_!Idle
  <2>. QED BY <2>1, <2>2
<1>6. ASSUME NEW q \in Pids \ {p} PROVE Proceeds(q)'
  <2>1. CASE Daemon_!InCall(q)
    <3>1. proc[q] \notin {"probe", "lock", "write", "close"} /\ cmd[q] # "restart"
      BY <1>3, <2>1 DEF Daemon_!Starts, Types, Located
    <3>. QED BY <1>1, <1>2, <3>1 DEF Proceeds, HasRead, Vacant, Aims, Holding, Restarting
  <2>2. CASE ~Daemon_!InCall(q)
    BY <1>1, <2>2, OutOfCall DEF Daemon_!InCall, Daemon_!Idle
  <2>. QED BY <2>1, <2>2
<1>7. Proceeds(p)'
  BY <1>1 DEF Proceeds, HasRead, Vacant, Aims, Holding, Restarting
<1>8. Named' /\ Harmless'
  BY <1>1, <1>2 DEF OrderlyCalls, Named, Harmless
<1>. QED BY <1>5, <1>6, <1>7, <1>8 DEF OrderlyCalls

\* A restart looks at the file ...
LEMMA RestartReadsKeeps ==
  ASSUME Types, OrderlyCalls, NEW p \in Pids, Daemon_!RestartReads(p)
  PROVE  OrderlyCalls'
<1>1. /\ proc[p] = "restart" /\ proc'[p] = IF Daemon_!Content = Daemon_!None THEN "start" ELSE "reprobe"
      /\ UNCHANGED <<cmd, opened, path, text, struck>>
      /\ \A q \in Pids \ {p} : proc'[q] = proc[q] /\ pid'[q] = pid[q]
  BY DEF Daemon_!RestartReads, Daemon_!getpidfromfile, Daemon_!GoTo, Types, Daemon_!TypeOK,
         Daemon_!file
<1>2. /\ Single' /\ Named' /\ Daemon_!Content' = Daemon_!Content
      /\ \A q \in Pids \ {p} : Proceeds(q)'
  BY <1>1, Locally DEF Daemon_!InCall, Daemon_!Idle
<1>3. Proceeds(p)'
  BY <1>1, <1>2 DEF Proceeds, HasRead, Vacant, Aims, Holding, Restarting
<1>4. Harmless'
  BY <1>1 DEF OrderlyCalls, Harmless
<1>. QED BY <1>2, <1>3, <1>4 DEF OrderlyCalls

\* ... and at the process it names.
LEMMA RestartProbesKeeps ==
  ASSUME Types, OrderlyCalls, NEW p \in Pids, Daemon_!RestartProbes(p)
  PROVE  OrderlyCalls'
<1>1. /\ proc[p] = "reprobe" /\ proc'[p] \in {"start", "stop"}
      /\ UNCHANGED <<cmd, pid, opened, path, text, struck>>
      /\ \A q \in Pids \ {p} : proc'[q] = proc[q]
  BY DEF Daemon_!RestartProbes, Daemon_!GoTo, Types, Daemon_!TypeOK, Daemon_!file
<1>2. /\ Single' /\ Named' /\ Daemon_!Content' = Daemon_!Content
      /\ \A q \in Pids \ {p} : Proceeds(q)'
  BY <1>1, Locally DEF Daemon_!InCall, Daemon_!Idle
<1>3. Proceeds(p)'
  BY <1>1, <1>2 DEF OrderlyCalls, Proceeds, HasRead, Vacant, Aims, Holding, Restarting
<1>4. Harmless'
  BY <1>1 DEF OrderlyCalls, Harmless
<1>. QED BY <1>2, <1>3, <1>4 DEF OrderlyCalls

-----------------------------------------------------------------------------
\* The invariant holds of the initial states.
LEMMA InitDaemon == Daemon_!DaemonAssumption /\ Daemon_!Init => DaemonInv
<1>1. SUFFICES ASSUME Daemon_!DaemonAssumption, Daemon_!Init PROVE DaemonInv
  OBVIOUS
<1>2. Daemon_!TypeOK
  <2>1. /\ proc \in [Pids -> Daemon_!Idle \cup {"start", "probe", "fork", "open", "lock", "write",
                                     "close", "stop", "kill", "wait", "unlink",
                                     "restart", "reprobe"}]
        /\ cmd \in [Pids -> Daemon_!Commands] /\ pid \in [Pids -> Pids \cup {-1}]
    BY <1>1 DEF Daemon_!Init, Daemon_!Idle, Daemon_!Commands
  <2>2. tries \in [Pids -> 0 .. Tries] /\ launches \in 0 .. MaxLaunches
    BY <1>1 DEF Daemon_!DaemonAssumption, Daemon_!Init
  <2>3. /\ opened \in [Pids -> Daemon_!Files \cup {Daemon_!None}] /\ path \in Daemon_!Files \cup {Daemon_!None}
        /\ text \in [Daemon_!Files -> Pids \cup {Daemon_!None}] /\ locked \in [Daemon_!Files -> Pids \cup {Daemon_!None}]
    BY <1>1 DEF Daemon_!Init
  <2>4. quit \subseteq Pids /\ overlapped \in BOOLEAN
        /\ struck \subseteq [by : Daemon_!Commands, found : Pids \cup {-1}, running : BOOLEAN]
    BY <1>1 DEF Daemon_!Init
  <2>. QED BY <2>1, <2>2, <2>3, <2>4 DEF Daemon_!TypeOK
<1>3. \A p \in Pids : Located(p)
  BY <1>1 DEF Daemon_!Init, Located
<1>4. Daemon_!Running = {}
  BY <1>1 DEF Daemon_!Init, Daemon_!Running
<1>5. Single /\ Named /\ Harmless
  BY <1>1, <1>4 DEF Daemon_!Init, Single, Named, Harmless, Daemon_!InCall, Daemon_!Idle
<1>6. \A p \in Pids : Proceeds(p)
  BY <1>1 DEF Daemon_!Init, Proceeds, HasRead, Vacant, Aims, Holding, Restarting
<1>. QED BY <1>2, <1>3, <1>5, <1>6 DEF DaemonInv, Types, OrderlyCalls

\* A call that overlapped with a start stays known.
LEMMA OverlappedStays == ASSUME Daemon_!Next, overlapped PROVE overlapped'
BY DEF Daemon_!Next, Daemon_!Spawn, Daemon_!Dies, Daemon_!Launch, Daemon_!StartReads,
       Daemon_!StartProbes, Daemon_!StartRefused, Daemon_!StartFails, Daemon_!do_fork,
       Daemon_!Opens, Daemon_!Locks, Daemon_!LockFails, Daemon_!Writes, Daemon_!WriteFails,
       Daemon_!Closes, Daemon_!StopReads, Daemon_!StopKills,
       Daemon_!StopFindsNone, Daemon_!StopKillsAgain, Daemon_!StopGivesUp,
       Daemon_!StopSeesEnd, Daemon_!Unlinks, Daemon_!RestartReads,
       Daemon_!RestartProbes, Daemon_!RestartRefused, Daemon_!Gone

\* A step of any process keeps the invariant.
LEMMA StepDaemon == Daemon_!DaemonAssumption /\ DaemonInv /\ [Daemon_!Next]_(Daemon_!vars) => DaemonInv'
<1>1. SUFFICES ASSUME Daemon_!DaemonAssumption, DaemonInv, [Daemon_!Next]_(Daemon_!vars) PROVE DaemonInv'
  OBVIOUS
<1>2. Types /\ Types'
  BY <1>1, StepCalls DEF DaemonInv
<1>3. CASE Daemon_!Next
  <2>1. SUFFICES ASSUME ~overlapped' PROVE OrderlyCalls'
    BY <1>2 DEF DaemonInv
  <2>2. OrderlyCalls
    BY <1>1, <1>3, <2>1, OverlappedStays DEF DaemonInv
  <2>3. ASSUME NEW p \in Pids, GoneActions(p) PROVE OrderlyCalls'
    BY <1>2, <2>2, <2>3, GoneKeeps DEF GoneActions, Daemon_!Dies, Daemon_!StartRefused,
           Daemon_!StartFails, Daemon_!LockFails,
       Daemon_!WriteFails, Daemon_!StopFindsNone, Daemon_!StopGivesUp,
       Daemon_!RestartRefused
  <2>. QED BY <1>1, <1>2, <1>3, <2>1, <2>2, <2>3, SpawnKeeps, LaunchKeeps, StartReadsKeeps,
              StartProbesKeeps, ForkKeeps, OpensKeeps, LocksKeeps, WritesKeeps, ClosesKeeps,
              StopReadsKeeps, StopKillsKeeps, StopKillsAgainKeeps, StopSeesEndKeeps,
              UnlinksKeeps, RestartReadsKeeps, RestartProbesKeeps DEF Daemon_!Next,
                     GoneActions
<1>4. CASE UNCHANGED Daemon_!vars
  <2>1. SUFFICES ASSUME OrderlyCalls PROVE OrderlyCalls'
    BY <1>1, <1>2, <1>4 DEF DaemonInv, Daemon_!vars
  <2>2. UNCHANGED <<proc, cmd, pid, opened, path, text, struck>>
    BY <1>4 DEF Daemon_!vars
  <2>3. Daemon_!Content' = Daemon_!Content /\ Daemon_!Running' = Daemon_!Running
    BY <2>2 DEF Daemon_!Content, Daemon_!Running
  <2>. QED BY <2>1, <2>2, <2>3 DEF OrderlyCalls, Single, Named, Harmless, Daemon_!InCall,
         Daemon_!Starts, Proceeds,
              HasRead, Vacant, Aims, Holding, Restarting
<1>. QED BY <1>1, <1>3, <1>4

\* DaemonInv holds of every reachable state, whatever the constants.
THEOREM DaemonInvariant == Daemon_!DaemonAssumption => (Daemon_!Spec => []DaemonInv)
<1>1. SUFFICES ASSUME Daemon_!DaemonAssumption PROVE Daemon_!Spec => []DaemonInv
  OBVIOUS
<1>2. Daemon_!Init => DaemonInv
  BY <1>1, InitDaemon
<1>3. DaemonInv /\ [Daemon_!Next]_(Daemon_!vars) => DaemonInv'
  BY <1>1, StepDaemon
<1>. QED BY <1>2, <1>3, PTL DEF Daemon_!Spec

(***************************************************************************)
(* As long as no start or restart ran beside another call, the pid file    *)
(* names the daemon that runs, so there is one at most.                    *)
(***************************************************************************)
LEMMA NumberIsDaemon == Daemon_!DaemonAssumption => (Daemon_!Spec => []Daemon_!DaemonIsNamed)
<1>1. SUFFICES ASSUME Daemon_!DaemonAssumption PROVE Daemon_!Spec => []Daemon_!DaemonIsNamed
  OBVIOUS
<1>2. DaemonInv => Daemon_!DaemonIsNamed
  BY DEF DaemonInv, OrderlyCalls, Named, Daemon_!DaemonIsNamed
<1>3. Daemon_!Spec => []DaemonInv
  BY <1>1, DaemonInvariant
<1>. QED BY <1>2, <1>3, PTL

(***************************************************************************)
(* Under the same condition nobody but the daemon gets a SIGQUIT while a   *)
(* daemon runs, and a restart sends none without a number.                 *)
(***************************************************************************)
LEMMA StrangersSpared == Daemon_!DaemonAssumption => (Daemon_!Spec => []Daemon_!StrangersUnharmed)
<1>1. SUFFICES ASSUME Daemon_!DaemonAssumption PROVE Daemon_!Spec => []Daemon_!StrangersUnharmed
  OBVIOUS
<1>2. DaemonInv => Daemon_!StrangersUnharmed
  BY DEF DaemonInv, OrderlyCalls, Harmless, Daemon_!StrangersUnharmed
<1>3. Daemon_!Spec => []DaemonInv
  BY <1>1, DaemonInvariant
<1>. QED BY <1>2, <1>3, PTL

\* The daemon's variables change by steps of Daemon only.
LEMMA DaemonAlone == ProcessesSpec => Daemon_!Spec
<1>1. ProcessesInit => Daemon_!Init
  BY DEF ProcessesInit
<1>2. [Filters \/ Segments \/ Daemons \/ Loggers]_<<subject, vars, objects, daemon, loggers>>
        => [Daemon_!Next]_(Daemon_!vars)
  <2>1. UNCHANGED daemon => UNCHANGED Daemon_!vars
    BY DEF Daemon_!vars, daemon
  <2>2. Filters \/ Segments \/ Loggers => UNCHANGED daemon
    BY DEF Filters, Segments, Loggers
  <2>3. Daemons => Daemon_!Next
    BY DEF Daemons
  <2>. QED BY <2>1, <2>2, <2>3
<1>. QED BY <1>1, <1>2, PTL DEF ProcessesSpec, Daemon_!Spec

\* The pid file names the daemon that runs, as long as no start or restart ran
\* beside another call.
THEOREM FileNamesDaemon == ProcessesSpec => []DaemonIsNamed
<1>1. Daemon_!Spec => []Daemon_!DaemonIsNamed
  BY ProcessesAssumption, NumberIsDaemon
<1>2. Daemon_!DaemonIsNamed => DaemonIsNamed
  BY DEF DaemonIsNamed
<1>. QED BY <1>1, <1>2, DaemonAlone, PTL

\* Under the same condition no stranger gets a signal while a daemon runs.
THEOREM NoStrangerStruck == ProcessesSpec => []StrangersUnharmed
<1>1. Daemon_!Spec => []Daemon_!StrangersUnharmed
  BY ProcessesAssumption, StrangersSpared
<1>2. Daemon_!StrangersUnharmed => StrangersUnharmed
  BY DEF StrangersUnharmed
<1>. QED BY <1>1, <1>2, DaemonAlone, PTL

-------------------------------------------------------------------------------
(***************************************************************************)
(* SharedMemory, for any number of processes, segments and lengths.        *)
(* Neither SegmentsKnown nor MappingsBacked is inductive.  A process that  *)
(* was told it created a segment holds the claim before it attaches, while *)
(* get is between its two system calls, and keeps it while it opens a      *)
(* file; and a detach leaves nothing attached only because a process       *)
(* without a forgotten attachment has each segment attached at most once.  *)
(* A mapping is inside the file only because the file was extended before  *)
(* it is mapped, or the process is known to have failed, and never shrinks. *)
(***************************************************************************)
Places == {"idle", "lookup", "attach", "extend", "map"}

SegmentTypes ==
  /\ at \in [Procs -> Places]
  /\ used \subseteq Ids
  /\ keyed \in used \cup {Segment_!None}
  /\ shm \in [Procs -> used \cup {Segment_!None}]
  /\ shm_id \in [Procs -> used \cup {Segment_!None}]
  /\ is_created \in [Procs -> BOOLEAN]
  /\ attached \in [Procs -> [Ids -> Nat]]

MappingTypes ==
  /\ asked \in [Procs -> Nat]
  /\ addr \in [Procs -> BOOLEAN]
  /\ length \in [Procs -> Nat]
  /\ mapped \in [Procs -> Nat]
  /\ content \in Seq(Values \cup {0})

\* what p was told it created, from the shmget on
Claims(p, d) ==
  /\ is_created[p]
  /\ IF at[p] = "attach" THEN shm_id[p] = d ELSE shm[p] = d

\* only the process that shmget refused looks the segment up
Refused == \A p \in Procs : at[p] = "lookup" => ~is_created[p]

\* what is about to be attached is a segment
Numbered == \A p \in Procs : at[p] = "attach" => shm_id[p] # Segment_!None

OneCreator == \A d \in Ids : \A p, q \in Procs : Claims(p, d) /\ Claims(q, d) => p = q

Pointed == \A p \in Procs : \A d \in Ids : shm[p] = d => attached[p][d] >= 1

\* one attachment at most, but for those nobody knows of
AttachedOnce == \A p \in Procs \ forgot : \A d \in Ids :
             attached[p][d] = IF shm[p] = d THEN 1 ELSE 0

\* what p has mapped is in the file, and what it is about to map
Fits(p) ==
  p \notin short => /\ addr[p] /\ at[p] \notin {"extend", "map"} => length[p] <= Len(content)
                    /\ at[p] = "map" => asked[p] <= Len(content)

\* p has what its object points to, and nothing else that is known
Tallied(p) ==
  /\ addr[p] => mapped[p] >= 1
  /\ p \notin leaked => mapped[p] = IF addr[p] THEN 1 ELSE 0

Extended   == \A p \in Procs : Fits(p)
MappedOnce == \A p \in Procs : Tallied(p)

SegmentInv ==
  SegmentTypes /\ Refused /\ Numbered /\ OneCreator /\ Pointed /\ AttachedOnce

MappingInv == MappingTypes /\ Extended /\ MappedOnce

ObjectsInv == SegmentInv /\ MappingInv

-----------------------------------------------------------------------------
(***************************************************************************)
(* A step about the one half leaves the invariant of the other.            *)
(***************************************************************************)
\* What open, close and the stores do is nothing to the segments.
LEMMA SegmentsLeft ==
  ASSUME SegmentInv, NEW p \in Procs, NEW l \in Places \ {"lookup", "attach"},
         at[p] # "attach", Segment_!GoTo(p, l), UNCHANGED <<Segment_!segment, forgot>>
  PROVE  SegmentInv'
<1>1. at' \in [Procs -> Places]
  BY DEF SegmentInv, SegmentTypes, Segment_!GoTo
<1>2. SegmentTypes'
  BY <1>1 DEF SegmentInv, SegmentTypes, Segment_!segment
<1>3. \A q \in Procs : at'[q] = IF q = p THEN l ELSE at[q]
  BY DEF SegmentInv, SegmentTypes, Segment_!GoTo
<1>4. \A q \in Procs, d \in Ids : Claims(q, d)' => Claims(q, d)
  BY <1>3 DEF Claims, Segment_!segment
<1>5. OneCreator'
  BY <1>4 DEF SegmentInv, OneCreator
<1>6. Refused' /\ Numbered'
  BY <1>3 DEF SegmentInv, Refused, Numbered, Segment_!segment
<1>7. Pointed' /\ AttachedOnce'
  BY DEF SegmentInv, Pointed, AttachedOnce, Segment_!segment
<1>. QED BY <1>2, <1>5, <1>6, <1>7 DEF SegmentInv

\* What get, detach and destroy do is nothing to the mapping.
LEMMA MappingLeft ==
  ASSUME SegmentTypes, MappingInv, NEW p \in Procs, NEW l \in Places \ {"extend", "map"},
         at[p] \notin {"extend", "map"}, Segment_!GoTo(p, l), UNCHANGED Segment_!mapping
  PROVE  MappingInv'
<1>1. \A q \in Procs : at'[q] = IF q = p THEN l ELSE at[q]
  BY DEF SegmentTypes, Segment_!GoTo
<1>2. UNCHANGED <<asked, addr, length, mapped, leaked, short, content>>
  BY DEF Segment_!mapping
<1>3. MappingTypes'
  BY <1>2 DEF MappingInv, MappingTypes
<1>4. Extended'
  BY <1>1, <1>2 DEF MappingInv, Extended, Fits
<1>5. MappedOnce'
  BY <1>2 DEF MappingInv, MappedOnce, Tallied
<1>. QED BY <1>3, <1>4, <1>5 DEF MappingInv

\* A step that moves nobody is as one that goes where it was.
LEMMA StaysThere ==
  ASSUME SegmentTypes, NEW p \in Procs, UNCHANGED at
  PROVE  Segment_!GoTo(p, at[p])
BY DEF SegmentTypes, Segment_!GoTo

-----------------------------------------------------------------------------
(***************************************************************************)
(* The segments, one lemma for each call.                                  *)
(***************************************************************************)
\* At the start nobody claims or has anything.
LEMMA InitSegment == ASSUME Segment_!SharedAssumption, Segment_!Init PROVE SegmentInv
<1>1. SegmentTypes
  BY DEF Segment_!Init, SegmentTypes, Places, Segment_!None
<1>2. Refused /\ Numbered
  BY DEF Segment_!Init, Refused, Numbered
<1>3. \A d \in Ids : d # Segment_!None
  BY DEF Segment_!SharedAssumption, Segment_!None
<1>4. OneCreator
  BY <1>3 DEF Segment_!Init, OneCreator, Claims
<1>5. Pointed /\ AttachedOnce
  BY <1>3 DEF Segment_!Init, Pointed, AttachedOnce
<1>. QED BY <1>1, <1>2, <1>4, <1>5 DEF SegmentInv

\* get: nobody can claim a segment that has just been created.
LEMMA GetSegment ==
  ASSUME Segment_!SharedAssumption, SegmentInv, NEW p \in Procs, Segment_!get(p)
  PROVE  SegmentInv'
<1>. USE DEF SegmentInv
<1>a. \A d \in Ids : d # Segment_!None
  BY DEF Segment_!SharedAssumption, Segment_!None
<1>b. UNCHANGED <<shm, attached, forgot>>
  BY DEF Segment_!get
<1>c. Pointed' /\ AttachedOnce'
  BY <1>b DEF Pointed, AttachedOnce
<1>1. CASE keyed = Segment_!None
  <2>1. PICK d \in Ids \ used :
          /\ keyed' = d /\ used' = used \cup {d}
          /\ shm_id' = [shm_id EXCEPT ![p] = d]
          /\ is_created' = [is_created EXCEPT ![p] = TRUE]
          /\ at' = [at EXCEPT ![p] = "attach"]
    BY <1>1 DEF Segment_!get, Segment_!Fresh, Segment_!GoTo
  <2>2. SegmentTypes'
    <3>1. at' \in [Procs -> Places]
      BY <2>1 DEF SegmentTypes, Places
    <3>2. is_created' \in [Procs -> BOOLEAN]
      BY <2>1 DEF SegmentTypes
    <3>3. used' \subseteq Ids /\ keyed' \in used' \cup {Segment_!None}
      BY <2>1 DEF SegmentTypes
    <3>4. shm' \in [Procs -> used' \cup {Segment_!None}]
      BY <2>1, <1>b DEF SegmentTypes
    <3>5. shm_id' \in [Procs -> used' \cup {Segment_!None}]
      BY <2>1 DEF SegmentTypes
    <3>6. attached' \in [Procs -> [Ids -> Nat]]
      BY <1>b DEF SegmentTypes
    <3>. QED BY <3>1, <3>2, <3>3, <3>4, <3>5, <3>6 DEF SegmentTypes
  <2>3. /\ at'[p] = "attach" /\ shm_id'[p] = d /\ is_created'[p]
        /\ \A q \in Procs \ {p} :
             at'[q] = at[q] /\ shm_id'[q] = shm_id[q] /\ is_created'[q] = is_created[q]
    BY <2>1 DEF SegmentTypes
  <2>4. Refused' /\ Numbered'
    BY <2>1, <2>3, <1>a DEF Refused, Numbered
  <2>5. \A e \in Ids, q \in Procs \ {p} : Claims(q, e)' => Claims(q, e) /\ e # d
    BY <2>1, <2>3, <1>a, <1>b DEF Claims, SegmentTypes
  <2>6. \A e \in Ids : Claims(p, e)' => e = d
    BY <2>3 DEF Claims
  <2>7. OneCreator'
    BY <2>5, <2>6 DEF OneCreator
  <2>. QED BY <2>2, <2>4, <2>7, <1>c
<1>2. CASE keyed # Segment_!None
  <2>1. /\ is_created' = [is_created EXCEPT ![p] = FALSE]
        /\ at' = [at EXCEPT ![p] = "lookup"]
        /\ UNCHANGED <<keyed, used, shm_id>>
    BY <1>2 DEF Segment_!get, Segment_!GoTo
  <2>2. SegmentTypes'
    <3>1. at' \in [Procs -> Places]
      BY <2>1 DEF SegmentTypes, Places
    <3>2. is_created' \in [Procs -> BOOLEAN]
      BY <2>1 DEF SegmentTypes
    <3>. QED BY <3>1, <3>2, <2>1, <1>b DEF SegmentTypes
  <2>3. /\ at'[p] = "lookup" /\ ~is_created'[p]
        /\ \A q \in Procs \ {p} : at'[q] = at[q] /\ is_created'[q] = is_created[q]
    BY <2>1 DEF SegmentTypes
  <2>4. Refused' /\ Numbered'
    BY <2>1, <2>3 DEF Refused, Numbered
  <2>5. \A e \in Ids, q \in Procs : Claims(q, e)' => Claims(q, e)
    BY <2>1, <2>3, <1>b DEF Claims
  <2>6. OneCreator'
    BY <2>5 DEF OneCreator
  <2>. QED BY <2>2, <2>4, <2>6, <1>c
<1>. QED BY <1>1, <1>2

\* LooksUp: whoever looks the segment up claims nothing.
LEMMA LooksUpSegment ==
  ASSUME SegmentInv, NEW p \in Procs, Segment_!LooksUp(p)
  PROVE  SegmentInv'
<1>. USE DEF SegmentInv
<1>1. /\ at' = [at EXCEPT ![p] = IF keyed = Segment_!None THEN "idle" ELSE "attach"]
      /\ shm_id' = [shm_id EXCEPT ![p] = keyed]
      /\ UNCHANGED <<shm, is_created, keyed, attached, used, forgot>>
  BY DEF Segment_!LooksUp, Segment_!GoTo
<1>2. SegmentTypes'
  <2>1. at' \in [Procs -> Places]
    BY <1>1 DEF SegmentTypes, Places
  <2>2. shm_id' \in [Procs -> used \cup {Segment_!None}]
    BY <1>1 DEF SegmentTypes
  <2>. QED BY <2>1, <2>2, <1>1 DEF SegmentTypes
<1>3. /\ at'[p] # "lookup" /\ at'[p] = "attach" => shm_id'[p] # Segment_!None
      /\ \A q \in Procs \ {p} : at'[q] = at[q] /\ shm_id'[q] = shm_id[q]
  BY <1>1 DEF SegmentTypes
<1>4. ~is_created[p]
  BY DEF Segment_!LooksUp, Refused
<1>5. Refused' /\ Numbered'
  BY <1>1, <1>3 DEF Refused, Numbered
<1>6. \A e \in Ids, q \in Procs : Claims(q, e)' => Claims(q, e)
  BY <1>1, <1>3, <1>4 DEF Claims
<1>7. OneCreator'
  BY <1>6 DEF OneCreator
<1>8. Pointed' /\ AttachedOnce'
  BY <1>1 DEF Pointed, AttachedOnce
<1>. QED BY <1>2, <1>5, <1>7, <1>8

\* Attaches: what the process had is forgotten, unless it had nothing.
LEMMA AttachesSegment ==
  ASSUME Segment_!SharedAssumption, SegmentInv, NEW p \in Procs, Segment_!Attaches(p)
  PROVE  SegmentInv'
<1>. USE DEF SegmentInv
<1>. DEFINE s == shm_id[p]
<1>a. \A d \in Ids : d # Segment_!None
  BY DEF Segment_!SharedAssumption, Segment_!None
<1>b. s \in used /\ s \in Ids
  BY DEF Segment_!Attaches, Numbered, SegmentTypes
<1>c. /\ at[p] = "attach" /\ at' = [at EXCEPT ![p] = "idle"]
      /\ UNCHANGED <<shm_id, is_created, keyed, used>>
      /\ forgot' = IF shm[p] = Segment_!None THEN forgot ELSE forgot \cup {p}
  BY DEF Segment_!Attaches, Segment_!GoTo
<1>d. /\ shm' = [shm EXCEPT ![p] = shm'[p]]
      /\ shm'[p] \in {s, Segment_!None}
  BY DEF Segment_!Attaches, SegmentTypes
<1>e. /\ shm'[p] = s => /\ attached'[p][s] = attached[p][s] + 1
                        /\ \A d \in Ids \ {s} : attached'[p][d] = attached[p][d]
      /\ shm'[p] = Segment_!None => \A d \in Ids : attached'[p][d] = attached[p][d]
      /\ \A q \in Procs \ {p} : attached'[q] = attached[q]
      /\ attached' \in [Procs -> [Ids -> Nat]]
  <2>1. CASE Segment_!Exists(s)
    <3>1. shm'[p] = s /\ s # Segment_!None /\ attached' = [attached EXCEPT ![p][s] = @ + 1]
      BY <2>1, <1>a, <1>b DEF Segment_!Attaches, SegmentTypes
    <3>2. attached[p] \in [Ids -> Nat] /\ attached[p][s] \in Nat
      BY <1>b DEF SegmentTypes
    <3>. QED BY <3>1, <3>2, <1>b DEF SegmentTypes
  <2>2. CASE ~Segment_!Exists(s)
    <3>1. shm'[p] = Segment_!None /\ s # Segment_!None /\ attached' = attached
      BY <2>2, <1>a, <1>b DEF Segment_!Attaches, SegmentTypes
    <3>. QED BY <3>1 DEF SegmentTypes
  <2>. QED BY <2>1, <2>2
<1>1. SegmentTypes'
  <2>1. at' \in [Procs -> Places]
    BY <1>c DEF SegmentTypes, Places
  <2>2. shm' \in [Procs -> used \cup {Segment_!None}]
    BY <1>b, <1>d DEF SegmentTypes
  <2>. QED BY <2>1, <2>2, <1>c, <1>e DEF SegmentTypes
<1>2. /\ at'[p] = "idle"
      /\ \A q \in Procs \ {p} : at'[q] = at[q] /\ shm'[q] = shm[q]
  BY <1>c, <1>d DEF SegmentTypes
<1>3. Refused' /\ Numbered'
  BY <1>c, <1>2 DEF Refused, Numbered
<1>4. \A d \in Ids, q \in Procs : Claims(q, d)' => Claims(q, d)
  <2>. TAKE d \in Ids, q \in Procs
  <2>1. CASE q = p
    BY <2>1, <1>a, <1>c, <1>d, <1>2 DEF Claims
  <2>2. CASE q # p
    BY <2>2, <1>c, <1>2 DEF Claims
  <2>. QED BY <2>1, <2>2
<1>5. OneCreator'
  BY <1>4 DEF OneCreator
<1>6. Pointed'
  <2>. SUFFICES ASSUME NEW q \in Procs, NEW d \in Ids, shm'[q] = d
                PROVE  attached'[q][d] >= 1
    BY DEF Pointed
  <2>1. CASE q = p
    <3>1. d = s /\ attached'[p][s] = attached[p][s] + 1
      BY <2>1, <1>a, <1>d, <1>e
    <3>2. attached[p][s] \in Nat
      BY <1>b DEF SegmentTypes
    <3>. QED BY <2>1, <3>1, <3>2
  <2>2. CASE q # p
    BY <2>2, <1>2, <1>e DEF Pointed
  <2>. QED BY <2>1, <2>2
<1>7. AttachedOnce'
  <2>. SUFFICES ASSUME NEW q \in Procs, q \notin forgot', NEW d \in Ids
                PROVE  attached'[q][d] = IF shm'[q] = d THEN 1 ELSE 0
    BY DEF AttachedOnce
  <2>1. q \notin forgot
    BY <1>c
  <2>2. CASE q = p
    <3>1. shm[p] = Segment_!None
      BY <2>2, <1>c
    <3>2. attached[p][d] = 0 /\ attached[p][s] = 0
      BY <2>1, <2>2, <3>1, <1>a, <1>b DEF AttachedOnce
    <3>3. CASE shm'[p] = s
      BY <3>2, <3>3, <2>2, <1>e
    <3>4. CASE shm'[p] = Segment_!None
      BY <3>2, <3>4, <2>2, <1>a, <1>e
    <3>. QED BY <3>3, <3>4, <1>d
  <2>3. CASE q # p
    BY <2>1, <2>3, <1>2, <1>e DEF AttachedOnce
  <2>. QED BY <2>2, <2>3
<1>. QED BY <1>1, <1>3, <1>5, <1>6, <1>7

(***************************************************************************)
(* detach, destroy and the end of an object all leave the process without  *)
(* a pointer; what it pointed to is detached, or forgotten.                *)
(***************************************************************************)
LEMMA DropsSegment ==
  ASSUME Segment_!SharedAssumption, SegmentInv, NEW p \in Procs,
         at[p] = "idle", shm[p] # Segment_!None, UNCHANGED <<at, used>>,
         shm' = [shm EXCEPT ![p] = Segment_!None],
         keyed' \in {keyed, Segment_!None},
         shm_id' = shm_id \/ shm_id' = [shm_id EXCEPT ![p] = Segment_!None],
         is_created' = is_created \/ is_created' = [is_created EXCEPT ![p] = TRUE],
         \/ attached' = [attached EXCEPT ![p][shm[p]] = @ - 1] /\ forgot' = forgot
         \/ attached' = attached /\ forgot' = forgot \cup {p}
  PROVE  SegmentInv'
<1>. USE DEF SegmentInv
<1>. DEFINE s == shm[p]
<1>a. \A d \in Ids : d # Segment_!None
  BY DEF Segment_!SharedAssumption, Segment_!None
<1>b. s \in Ids /\ attached[p][s] >= 1
  BY DEF SegmentTypes, Pointed
<1>c. attached \in [Procs -> [Ids -> Nat]] /\ attached[p] \in [Ids -> Nat] /\ attached[p][s] \in Nat
  BY <1>b DEF SegmentTypes
<1>d. /\ \A q \in Procs \ {p} : attached'[q] = attached[q]
      /\ \A d \in Ids \ {s} : attached'[p][d] = attached[p][d]
      /\ p \in forgot' \/ attached'[p][s] = attached[p][s] - 1
      /\ forgot \subseteq forgot'
      /\ attached' \in [Procs -> [Ids -> Nat]]
  <2>1. CASE attached' = [attached EXCEPT ![p][s] = @ - 1] /\ forgot' = forgot
    <3>1. attached[p][s] - 1 \in Nat
      BY <1>b, <1>c
    <3>. QED BY <2>1, <3>1, <1>b, <1>c
  <2>2. CASE attached' = attached /\ forgot' = forgot \cup {p}
    BY <2>2, <1>c
  <2>. QED BY <2>1, <2>2
<1>1. SegmentTypes'
  <2>1. shm' \in [Procs -> used \cup {Segment_!None}]
    BY DEF SegmentTypes
  <2>2. shm_id' \in [Procs -> used \cup {Segment_!None}]
    BY DEF SegmentTypes
  <2>3. is_created' \in [Procs -> BOOLEAN]
    BY DEF SegmentTypes
  <2>. QED BY <2>1, <2>2, <2>3, <1>d DEF SegmentTypes
<1>2. /\ shm'[p] = Segment_!None
      /\ \A q \in Procs \ {p} : /\ shm'[q] = shm[q] /\ shm_id'[q] = shm_id[q]
                                /\ is_created'[q] = is_created[q]
  BY DEF SegmentTypes
<1>3. Refused' /\ Numbered'
  BY <1>2 DEF Refused, Numbered
<1>4. \A d \in Ids, q \in Procs : Claims(q, d)' => Claims(q, d)
  BY <1>a, <1>2 DEF Claims
<1>5. OneCreator'
  BY <1>4 DEF OneCreator
<1>6. Pointed'
  BY <1>a, <1>2, <1>d DEF Pointed
<1>7. AttachedOnce'
  <2>. SUFFICES ASSUME NEW q \in Procs, q \notin forgot', NEW d \in Ids
                PROVE  attached'[q][d] = IF shm'[q] = d THEN 1 ELSE 0
    BY DEF AttachedOnce
  <2>1. q \notin forgot
    BY <1>d
  <2>2. CASE q = p
    <3>1. attached[p][d] = IF s = d THEN 1 ELSE 0
      BY <2>1, <2>2 DEF AttachedOnce
    <3>2. shm'[p] # d
      BY <1>a, <1>2
    <3>3. CASE d = s
      BY <3>1, <3>2, <3>3, <2>2, <1>d
    <3>4. CASE d # s
      BY <3>1, <3>2, <3>4, <2>2, <1>d
    <3>. QED BY <3>3, <3>4
  <2>3. CASE q # p
    BY <2>1, <2>3, <1>2, <1>d DEF AttachedOnce
  <2>. QED BY <2>2, <2>3
<1>. QED BY <1>1, <1>3, <1>5, <1>6, <1>7

\* Exit: the kernel detaches everything.
LEMMA ExitSegment ==
  ASSUME Segment_!SharedAssumption, SegmentInv, NEW p \in Procs, Segment_!Exit(p)
  PROVE  SegmentInv'
<1>. USE DEF SegmentInv
<1>a. \A d \in Ids : d # Segment_!None
  BY DEF Segment_!SharedAssumption, Segment_!None
<1>b. /\ at' = [at EXCEPT ![p] = "idle"]
      /\ shm' = [shm EXCEPT ![p] = Segment_!None]
      /\ shm_id' = [shm_id EXCEPT ![p] = Segment_!None]
      /\ is_created' = [is_created EXCEPT ![p] = TRUE]
      /\ attached' = [attached EXCEPT ![p] = [d \in Ids |-> 0]]
      /\ forgot' = forgot \ {p}
      /\ UNCHANGED <<keyed, used>>
  BY DEF Segment_!Exit, Segment_!GoTo
<1>1. SegmentTypes'
  <2>1. at' \in [Procs -> Places]
    BY <1>b DEF SegmentTypes, Places
  <2>2. /\ shm' \in [Procs -> used \cup {Segment_!None}]
        /\ shm_id' \in [Procs -> used \cup {Segment_!None}]
    BY <1>b DEF SegmentTypes
  <2>3. is_created' \in [Procs -> BOOLEAN]
    BY <1>b DEF SegmentTypes
  <2>4. attached' \in [Procs -> [Ids -> Nat]]
    BY <1>b DEF SegmentTypes
  <2>. QED BY <2>1, <2>2, <2>3, <2>4, <1>b DEF SegmentTypes
<1>2. /\ at'[p] = "idle" /\ shm'[p] = Segment_!None /\ \A d \in Ids : attached'[p][d] = 0
      /\ \A q \in Procs \ {p} : /\ at'[q] = at[q] /\ shm'[q] = shm[q] /\ shm_id'[q] = shm_id[q]
                                /\ is_created'[q] = is_created[q] /\ attached'[q] = attached[q]
  BY <1>b DEF SegmentTypes
<1>3. Refused' /\ Numbered'
  BY <1>2 DEF Refused, Numbered
<1>4. \A d \in Ids, q \in Procs : Claims(q, d)' => q # p /\ Claims(q, d)
  BY <1>a, <1>2 DEF Claims
<1>5. OneCreator'
  BY <1>4 DEF OneCreator
<1>6. Pointed'
  BY <1>a, <1>2 DEF Pointed
<1>7. AttachedOnce'
  BY <1>a, <1>b, <1>2 DEF AttachedOnce
<1>. QED BY <1>1, <1>3, <1>5, <1>6, <1>7

-----------------------------------------------------------------------------
(***************************************************************************)
(* The mappings: one process's entry changes, or the file does.            *)
(***************************************************************************)
\* At the start nothing is mapped and the file is empty.
LEMMA InitMapping == ASSUME Segment_!SharedAssumption, Segment_!Init PROVE MappingInv
<1>1. MappingTypes
  BY DEF Segment_!Init, MappingTypes
<1>2. Extended
  BY DEF Segment_!Init, Extended, Fits
<1>3. MappedOnce
  BY DEF Segment_!Init, MappedOnce, Tallied
<1>. QED BY <1>1, <1>2, <1>3 DEF MappingInv

\* the step is about p alone
OnlyOf(p) ==
  \A q \in Procs \ {p} :
    /\ at'[q] = at[q] /\ asked'[q] = asked[q] /\ addr'[q] = addr[q]
    /\ length'[q] = length[q] /\ mapped'[q] = mapped[q]
    /\ q \in leaked' <=> q \in leaked
    /\ q \in short' <=> q \in short

\* The file stays: what is to hold of p's new entries is enough.
LEMMA OwnMapping ==
  ASSUME MappingInv, NEW p \in Procs, MappingTypes', OnlyOf(p), content' = content,
         Fits(p)', Tallied(p)'
  PROVE  MappingInv'
<1>. USE DEF MappingInv
<1>1. \A q \in Procs \ {p} : Fits(q)'
  BY DEF Extended, Fits, OnlyOf
<1>2. \A q \in Procs \ {p} : Tallied(q)'
  BY DEF MappedOnce, Tallied, OnlyOf
<1>. QED BY <1>1, <1>2 DEF Extended, MappedOnce

\* Unmaps: the object's mapping goes, or stays what it was.
LEMMA UnmapsMapping ==
  ASSUME MappingInv, NEW p \in Procs, NEW is_owner \in BOOLEAN,
         Segment_!Unmaps(p, is_owner), leaked' = leaked
  PROVE  /\ addr' \in [Procs -> BOOLEAN] /\ length' \in [Procs -> Nat]
         /\ mapped' \in [Procs -> Nat]
         /\ \A q \in Procs \ {p} : /\ addr'[q] = addr[q] /\ length'[q] = length[q]
                                   /\ mapped'[q] = mapped[q]
         /\ addr'[p] => addr[p] /\ length'[p] = length[p]
         /\ Tallied(p)'
<1>. USE DEF MappingInv
<1>1. /\ addr[p] \in BOOLEAN /\ mapped[p] \in Nat /\ length[p] \in Nat
      /\ addr[p] => mapped[p] >= 1
      /\ p \notin leaked => mapped[p] = IF addr[p] THEN 1 ELSE 0
  BY DEF MappingTypes, MappedOnce, Tallied
<1>2. CASE addr[p] /\ is_owner
  <2>1. /\ addr' = [addr EXCEPT ![p] = FALSE] /\ length' = [length EXCEPT ![p] = 0]
        /\ mapped' = [mapped EXCEPT ![p] = mapped[p] - 1]
    BY <1>2 DEF Segment_!Unmaps
  <2>2. /\ mapped[p] - 1 \in Nat
        /\ p \notin leaked => mapped[p] - 1 = 0
    BY <1>1, <1>2
  <2>3. /\ addr'[p] = FALSE /\ mapped'[p] = mapped[p] - 1
        /\ \A q \in Procs \ {p} : /\ addr'[q] = addr[q] /\ length'[q] = length[q]
                                  /\ mapped'[q] = mapped[q]
    BY <2>1 DEF MappingTypes
  <2>4. Tallied(p)'
    BY <2>2, <2>3 DEF Tallied
  <2>5. /\ addr' \in [Procs -> BOOLEAN] /\ length' \in [Procs -> Nat]
        /\ mapped' \in [Procs -> Nat]
    BY <2>1, <2>2 DEF MappingTypes
  <2>. QED BY <2>3, <2>4, <2>5
<1>3. CASE ~(addr[p] /\ is_owner)
  <2>1. /\ addr' = [addr EXCEPT ![p] = addr[p]] /\ length' = [length EXCEPT ![p] = length[p]]
        /\ mapped' = [mapped EXCEPT ![p] = mapped[p]]
    <3>1. (addr[p] /\ ~is_owner) = addr[p]
      BY <1>1, <1>3
    <3>2. addr' = [addr EXCEPT ![p] = addr[p] /\ ~is_owner]
      BY DEF Segment_!Unmaps
    <3>3. addr' = [addr EXCEPT ![p] = addr[p]]
      BY <3>1, <3>2
    <3>. QED BY <1>3, <3>3 DEF Segment_!Unmaps
  <2>2. addr' = addr /\ length' = length /\ mapped' = mapped
    BY <2>1 DEF MappingTypes
  <2>3. Tallied(p)'
    BY <2>2, <1>1 DEF Tallied
  <2>. QED BY <2>2, <2>3 DEF MappingTypes
<1>. QED BY <1>2, <1>3

\* open: unmapped, if the object owns what it has; and the file was opened, or not.
LEMMA OpenMapping ==
  ASSUME Segment_!SharedAssumption, SegmentTypes, MappingInv, NEW p \in Procs, Segment_!open(p)
  PROVE  MappingInv'
<1>1. PICK is_owner \in BOOLEAN : Segment_!Unmaps(p, is_owner)
  BY DEF Segment_!open
<1>2. at[p] = "idle" /\ UNCHANGED <<short, leaked, content>>
  BY DEF Segment_!open
<1>3. /\ addr' \in [Procs -> BOOLEAN] /\ length' \in [Procs -> Nat]
      /\ mapped' \in [Procs -> Nat]
      /\ \A q \in Procs \ {p} : /\ addr'[q] = addr[q] /\ length'[q] = length[q]
                                /\ mapped'[q] = mapped[q]
      /\ addr'[p] => addr[p] /\ length'[p] = length[p]
      /\ Tallied(p)'
  BY <1>1, <1>2, UnmapsMapping
<1>4. /\ asked' \in [Procs -> Nat] /\ at'[p] \in {"idle", "extend"}
      /\ \A q \in Procs \ {p} : at'[q] = at[q] /\ asked'[q] = asked[q]
  <2>1. CASE Segment_!GoTo(p, "extend") /\ \E n \in Lengths : asked' = [asked EXCEPT ![p] = n]
    <3>1. PICK n \in Lengths : asked' = [asked EXCEPT ![p] = n]
      BY <2>1
    <3>2. n \in Nat
      BY DEF Segment_!SharedAssumption
    <3>. QED BY <2>1, <3>1, <3>2 DEF MappingInv, MappingTypes, SegmentTypes, Segment_!GoTo
  <2>2. CASE UNCHANGED <<at, asked>>
    BY <2>2, <1>2 DEF MappingInv, MappingTypes
  <2>. QED BY <2>1, <2>2 DEF Segment_!open
<1>5. MappingTypes'
  BY <1>2, <1>3, <1>4 DEF MappingInv, MappingTypes
<1>6. OnlyOf(p)
  BY <1>2, <1>3, <1>4 DEF OnlyOf
<1>7. Fits(p)'
  BY <1>2, <1>3, <1>4 DEF MappingInv, Extended, Fits
<1>. QED BY <1>2, <1>3, <1>5, <1>6, <1>7, OwnMapping

\* Extends: the file gets longer or stays as long, so every mapping stays inside,
\* and p's is going to be.
LEMMA ExtendsMapping ==
  ASSUME SegmentTypes, MappingInv, NEW p \in Procs, Segment_!Extends(p)
  PROVE  MappingInv'
<1>. USE DEF MappingInv
<1>. DEFINE last == IF asked[p] > Len(content) THEN asked[p] ELSE Len(content)
<1>1. /\ content \in Seq(Values \cup {0}) /\ asked[p] \in Nat /\ Len(content) \in Nat
      /\ last \in Nat /\ asked[p] <= last /\ Len(content) <= last
  BY DEF MappingTypes
<1>2. /\ content' = [n \in 1 .. last |->
                       IF n = asked[p] \/ n > Len(content) THEN 0 ELSE content[n]]
      /\ UNCHANGED <<asked, addr, length, mapped, leaked>> /\ short' = short \ {p}
  BY DEF Segment_!Extends, Segment_!LastByte
<1>3. content' \in Seq(Values \cup {0}) /\ Len(content') = last
  <2>. HIDE DEF last
  <2>1. \A n \in 1 .. last :
          (IF n = asked[p] \/ n > Len(content) THEN 0 ELSE content[n]) \in Values \cup {0}
    BY <1>1
  <2>. QED BY <1>1, <1>2, <2>1
<1>4. at' = [at EXCEPT ![p] = "map"] /\ at[p] = "extend"
  BY DEF Segment_!Extends, Segment_!GoTo
<1>5. at'[p] = "map" /\ \A q \in Procs \ {p} : at'[q] = at[q]
  BY <1>4 DEF SegmentTypes
<1>6. MappingTypes'
  BY <1>2, <1>3 DEF MappingTypes
<1>7. Fits(p)'
  <2>. HIDE DEF last
  <2>. QED BY <1>1, <1>2, <1>3, <1>5 DEF Fits
<1>8. ASSUME NEW q \in Procs \ {p} PROVE Fits(q)'
  <2>1. Fits(q) /\ length[q] \in Nat /\ asked[q] \in Nat
    BY DEF Extended, MappingTypes
  <2>. HIDE DEF last
  <2>. QED BY <2>1, <1>1, <1>2, <1>3, <1>5 DEF Fits
<1>9. Extended'
  BY <1>7, <1>8 DEF Extended
<1>10. MappedOnce'
  BY <1>2 DEF MappedOnce, Tallied
<1>. QED BY <1>6, <1>9, <1>10

\* ExtendFails: nothing is claimed of p's mapping, unless the file is long enough.
LEMMA ExtendFailsMapping ==
  ASSUME SegmentTypes, MappingInv, NEW p \in Procs, Segment_!ExtendFails(p)
  PROVE  MappingInv'
<1>1. /\ UNCHANGED <<asked, addr, length, mapped, leaked, content>>
      /\ short' = IF asked[p] > Len(content) THEN short \cup {p} ELSE short \ {p}
  BY DEF Segment_!ExtendFails
<1>2. at'[p] = "map" /\ \A q \in Procs \ {p} : at'[q] = at[q]
  BY DEF Segment_!ExtendFails, Segment_!GoTo, SegmentTypes
<1>3. MappingTypes'
  BY <1>1 DEF MappingInv, MappingTypes
<1>4. OnlyOf(p)
  BY <1>1, <1>2 DEF OnlyOf
<1>5. asked[p] \in Nat /\ Len(content) \in Nat
  BY DEF MappingInv, MappingTypes
<1>6. Fits(p)'
  BY <1>1, <1>2, <1>5 DEF Fits
<1>7. Tallied(p)'
  BY <1>1 DEF MappingInv, MappedOnce, Tallied
<1>. QED BY <1>1, <1>3, <1>4, <1>6, <1>7, OwnMapping

\* Maps and MapFails: what was asked for is mapped, or nothing.
LEMMA MapsMapping ==
  ASSUME SegmentTypes, MappingInv, NEW p \in Procs,
         Segment_!Maps(p) \/ Segment_!MapFails(p)
  PROVE  MappingInv'
<1>. USE DEF MappingInv
<1>1. /\ at[p] = "map" /\ UNCHANGED <<short, content>>
      /\ asked' = [asked EXCEPT ![p] = 0]
      /\ leaked' = IF addr[p] THEN leaked \cup {p} ELSE leaked
  BY DEF Segment_!Maps, Segment_!MapFails
<1>2. /\ at'[p] = "idle" /\ asked' \in [Procs -> Nat]
      /\ \A q \in Procs \ {p} : at'[q] = at[q] /\ asked'[q] = asked[q]
  <2>1. Segment_!GoTo(p, "idle")
    BY DEF Segment_!Maps, Segment_!MapFails
  <2>. QED BY <2>1, <1>1 DEF Segment_!GoTo, SegmentTypes, MappingTypes
<1>3. /\ mapped[p] \in Nat /\ addr[p] \in BOOLEAN
      /\ p \notin leaked => mapped[p] = IF addr[p] THEN 1 ELSE 0
      /\ p \notin short => asked[p] <= Len(content)
  BY <1>1 DEF MappingTypes, MappedOnce, Tallied, Extended, Fits
<1>4. CASE Segment_!Maps(p)
  <2>1. /\ addr' = [addr EXCEPT ![p] = TRUE] /\ length' = [length EXCEPT ![p] = asked[p]]
        /\ mapped' = [mapped EXCEPT ![p] = mapped[p] + 1]
    BY <1>4 DEF Segment_!Maps
  <2>2. asked[p] \in Nat /\ mapped[p] + 1 \in Nat
    BY <1>3 DEF MappingTypes
  <2>3. MappingTypes'
    BY <2>1, <2>2, <1>1, <1>2 DEF MappingTypes
  <2>4. /\ addr'[p] /\ length'[p] = asked[p] /\ mapped'[p] = mapped[p] + 1
        /\ \A q \in Procs \ {p} : /\ addr'[q] = addr[q] /\ length'[q] = length[q]
                                  /\ mapped'[q] = mapped[q]
    BY <2>1 DEF MappingTypes
  <2>5. OnlyOf(p)
    BY <2>4, <1>1, <1>2 DEF OnlyOf
  <2>6. Fits(p)'
    BY <2>4, <1>1, <1>2, <1>3 DEF Fits
  <2>7. Tallied(p)'
    BY <2>4, <1>1, <1>3 DEF Tallied
  <2>. QED BY <2>3, <2>5, <2>6, <2>7, <1>1, OwnMapping
<1>5. CASE Segment_!MapFails(p)
  <2>1. addr' = [addr EXCEPT ![p] = FALSE] /\ UNCHANGED <<length, mapped>>
    BY <1>5 DEF Segment_!MapFails
  <2>2. MappingTypes'
    BY <2>1, <1>1, <1>2 DEF MappingTypes
  <2>3. ~addr'[p] /\ \A q \in Procs \ {p} : addr'[q] = addr[q]
    BY <2>1 DEF MappingTypes
  <2>4. OnlyOf(p)
    BY <2>1, <2>3, <1>1, <1>2 DEF OnlyOf
  <2>5. Fits(p)'
    BY <2>3, <1>2 DEF Fits
  <2>6. Tallied(p)'
    BY <2>1, <2>3, <1>1, <1>3 DEF Tallied
  <2>. QED BY <2>2, <2>4, <2>5, <2>6, <1>1, OwnMapping
<1>. QED BY <1>4, <1>5

\* openFd: nothing is claimed of p's mapping, unless the file is long enough.
LEMMA OpenFdMapping ==
  ASSUME Segment_!SharedAssumption, SegmentTypes, MappingInv, NEW p \in Procs,
         Segment_!openFd(p)
  PROVE  MappingInv'
<1>. USE DEF MappingInv
<1>1. at[p] = "idle" /\ UNCHANGED <<at, asked, content>>
  BY DEF Segment_!openFd
<1>2. PICK is_owner \in BOOLEAN, n \in Lengths, maps \in BOOLEAN :
        /\ addr' = [addr EXCEPT ![p] = maps]
        /\ length' = [length EXCEPT ![p] =
                        IF maps THEN n ELSE IF addr[p] /\ is_owner THEN 0 ELSE @]
        /\ mapped' = [mapped EXCEPT ![p] =
                        @ + (IF maps THEN 1 ELSE 0) - (IF addr[p] /\ is_owner THEN 1 ELSE 0)]
        /\ leaked' = IF addr[p] /\ ~is_owner THEN leaked \cup {p} ELSE leaked
        /\ short' = IF n > Len(content) THEN short \cup {p} ELSE short \ {p}
  BY DEF Segment_!openFd
<1>. DEFINE k == mapped[p] + (IF maps THEN 1 ELSE 0) - (IF addr[p] /\ is_owner THEN 1 ELSE 0)
            m == IF maps THEN n ELSE IF addr[p] /\ is_owner THEN 0 ELSE length[p]
<1>3. /\ n \in Nat /\ length[p] \in Nat /\ mapped[p] \in Nat /\ Len(content) \in Nat
      /\ addr[p] \in BOOLEAN
      /\ addr[p] => mapped[p] >= 1
      /\ p \notin leaked => mapped[p] = IF addr[p] THEN 1 ELSE 0
  BY DEF Segment_!SharedAssumption, MappingTypes, MappedOnce, Tallied
<1>4. /\ k \in Nat /\ m \in Nat
      /\ maps => m = n
  BY <1>3
<1>5. /\ maps => k >= 1
      /\ p \notin leaked /\ ~(addr[p] /\ ~is_owner) => k = IF maps THEN 1 ELSE 0
  BY <1>3
<1>6. length' = [length EXCEPT ![p] = m] /\ mapped' = [mapped EXCEPT ![p] = k]
  BY <1>2
<1>. HIDE DEF k, m
<1>7. MappingTypes'
  BY <1>1, <1>2, <1>4, <1>6 DEF MappingTypes
<1>8. /\ addr'[p] = maps /\ length'[p] = m /\ mapped'[p] = k
      /\ \A q \in Procs \ {p} : /\ addr'[q] = addr[q] /\ length'[q] = length[q]
                                /\ mapped'[q] = mapped[q]
  BY <1>2, <1>6 DEF MappingTypes
<1>9. OnlyOf(p)
  BY <1>1, <1>2, <1>8 DEF OnlyOf
<1>10. Fits(p)'
  BY <1>1, <1>2, <1>3, <1>4, <1>8 DEF Fits
<1>11. p \notin leaked' => p \notin leaked /\ ~(addr[p] /\ ~is_owner)
  BY <1>2
<1>12. Tallied(p)'
  BY <1>5, <1>8, <1>11 DEF Tallied
<1>. QED BY <1>1, <1>7, <1>9, <1>10, <1>12, OwnMapping

\* close: the mapping goes.
LEMMA CloseMapping ==
  ASSUME SegmentTypes, MappingInv, NEW p \in Procs, Segment_!close(p)
  PROVE  MappingInv'
<1>1. Segment_!Unmaps(p, TRUE) /\ UNCHANGED <<at, asked, short, leaked, content>>
  BY DEF Segment_!close
<1>2. /\ addr' \in [Procs -> BOOLEAN] /\ length' \in [Procs -> Nat]
      /\ mapped' \in [Procs -> Nat]
      /\ \A q \in Procs \ {p} : /\ addr'[q] = addr[q] /\ length'[q] = length[q]
                                /\ mapped'[q] = mapped[q]
      /\ addr'[p] => addr[p] /\ length'[p] = length[p]
      /\ Tallied(p)'
  BY <1>1, UnmapsMapping
<1>3. MappingTypes'
  BY <1>1, <1>2 DEF MappingInv, MappingTypes
<1>4. OnlyOf(p)
  BY <1>1, <1>2 DEF OnlyOf
<1>5. Fits(p)'
  BY <1>1, <1>2 DEF MappingInv, Extended, Fits
<1>. QED BY <1>1, <1>2, <1>3, <1>4, <1>5, OwnMapping

\* Abandons and Exit: the object has nothing any more.
LEMMA GoneMapping ==
  ASSUME SegmentTypes, MappingInv, NEW p \in Procs,
         Segment_!Abandons(p) \/ Segment_!Exit(p)
  PROVE  MappingInv'
<1>. USE DEF MappingInv
<1>1. /\ addr' = [addr EXCEPT ![p] = FALSE] /\ length' = [length EXCEPT ![p] = 0]
      /\ content' = content
  BY DEF Segment_!Abandons, Segment_!Exit
<1>2. /\ at'[p] = "idle" /\ ~addr'[p]
      /\ \A q \in Procs \ {p} : /\ at'[q] = at[q] /\ addr'[q] = addr[q]
                                /\ length'[q] = length[q]
  BY <1>1 DEF Segment_!Abandons, Segment_!Exit, Segment_!GoTo, SegmentTypes, MappingTypes
<1>3. Fits(p)'
  BY <1>2 DEF Fits
<1>4. CASE Segment_!Abandons(p)
  <2>1. leaked' = leaked \cup {p} /\ UNCHANGED <<asked, mapped, short>>
    BY <1>4 DEF Segment_!Abandons
  <2>2. MappingTypes'
    BY <2>1, <1>1 DEF MappingTypes
  <2>3. OnlyOf(p) /\ Tallied(p)'
    BY <2>1, <1>2 DEF OnlyOf, Tallied
  <2>. QED BY <2>2, <2>3, <1>1, <1>3, OwnMapping
<1>5. CASE Segment_!Exit(p)
  <2>1. /\ leaked' = leaked \ {p} /\ short' = short \ {p}
        /\ asked' = [asked EXCEPT ![p] = 0] /\ mapped' = [mapped EXCEPT ![p] = 0]
    BY <1>5 DEF Segment_!Exit
  <2>2. MappingTypes'
    BY <2>1, <1>1 DEF MappingTypes
  <2>3. /\ mapped'[p] = 0
        /\ \A q \in Procs \ {p} : asked'[q] = asked[q] /\ mapped'[q] = mapped[q]
    BY <2>1 DEF MappingTypes
  <2>4. OnlyOf(p) /\ Tallied(p)'
    BY <2>1, <2>3, <1>2 DEF OnlyOf, Tallied
  <2>. QED BY <2>2, <2>4, <1>1, <1>3, OwnMapping
<1>. QED BY <1>4, <1>5

\* Store: the file stays as long as it is.
LEMMA StoreMapping ==
  ASSUME MappingInv, NEW p \in Procs, Segment_!Store(p)
  PROVE  MappingInv'
<1>. USE DEF MappingInv
<1>1. PICK n \in (1 .. length[p]) \cap DOMAIN content, v \in Values :
        content' = [content EXCEPT ![n] = v]
  BY DEF Segment_!Store
<1>2. content' \in Seq(Values \cup {0}) /\ Len(content') = Len(content)
  BY <1>1 DEF MappingTypes
<1>3. UNCHANGED <<at, asked, addr, length, mapped, leaked, short>>
  BY DEF Segment_!Store
<1>4. MappingTypes'
  BY <1>2, <1>3 DEF MappingTypes
<1>5. MappedOnce'
  BY <1>3 DEF MappedOnce, Tallied
<1>6. Extended'
  BY <1>2, <1>3 DEF Extended, Fits
<1>. QED BY <1>4, <1>5, <1>6

-----------------------------------------------------------------------------
\* The invariant holds at the start and every step keeps it.
THEOREM ObjectsInvariant == Segment_!SharedAssumption => (Segment_!Spec => []ObjectsInv)
<1>. SUFFICES ASSUME Segment_!SharedAssumption PROVE Segment_!Spec => []ObjectsInv
  OBVIOUS
<1>1. Segment_!Init => ObjectsInv
  BY InitSegment, InitMapping DEF ObjectsInv
<1>2. ObjectsInv /\ [Segment_!Next]_(Segment_!vars) => ObjectsInv'
  <2>. SUFFICES ASSUME ObjectsInv, [Segment_!Next]_(Segment_!vars) PROVE ObjectsInv'
    OBVIOUS
  <2>. USE DEF ObjectsInv
  <2>a. SegmentTypes
    BY DEF SegmentInv
  <2>1. CASE UNCHANGED Segment_!vars
    <3>1. UNCHANGED <<Segment_!segment, forgot, at>>
      BY <2>1 DEF Segment_!vars, Segment_!segment
    <3>2. SegmentInv'
      BY <3>1 DEF SegmentInv, SegmentTypes, Refused, Numbered, OneCreator, Claims,
                  Pointed, AttachedOnce, Segment_!segment
    <3>3. UNCHANGED <<Segment_!mapping, at>>
      BY <2>1 DEF Segment_!vars, Segment_!mapping
    <3>4. MappingInv'
      BY <3>3 DEF MappingInv, MappingTypes, Extended, Fits, MappedOnce, Tallied,
                  Segment_!mapping
    <3>. QED BY <3>2, <3>4
  <2>2. ASSUME NEW p \in Procs, Segment_!get(p) PROVE ObjectsInv'
    <3>1. at[p] \notin {"extend", "map"}
            /\ \E l \in Places \ {"extend", "map"} : Segment_!GoTo(p, l)
      BY <2>2 DEF Segment_!get, Places
    <3>2. UNCHANGED Segment_!mapping
      BY <2>2 DEF Segment_!get
    <3>. QED BY <2>2, <2>a, <3>1, <3>2, GetSegment, MappingLeft
  <2>3. ASSUME NEW p \in Procs, Segment_!LooksUp(p) PROVE ObjectsInv'
    <3>1. at[p] \notin {"extend", "map"}
            /\ \E l \in Places \ {"extend", "map"} : Segment_!GoTo(p, l)
      BY <2>3 DEF Segment_!LooksUp, Places
    <3>2. UNCHANGED Segment_!mapping
      BY <2>3 DEF Segment_!LooksUp
    <3>. QED BY <2>3, <2>a, <3>1, <3>2, LooksUpSegment, MappingLeft
  <2>4. ASSUME NEW p \in Procs, Segment_!Attaches(p) PROVE ObjectsInv'
    <3>1. at[p] = "attach" /\ Segment_!GoTo(p, "idle") /\ UNCHANGED Segment_!mapping
      BY <2>4 DEF Segment_!Attaches
    <3>. QED BY <2>4, <2>a, <3>1, AttachesSegment, MappingLeft DEF Places
  <2>5. ASSUME NEW p \in Procs,
               Segment_!detach(p) \/ Segment_!destroy(p) \/ Segment_!Renews(p)
        PROVE  ObjectsInv'
    <3>1. at[p] = "idle" /\ UNCHANGED <<at, used, Segment_!mapping>>
      BY <2>5 DEF Segment_!detach, Segment_!destroy, Segment_!Renews
    <3>2. Segment_!GoTo(p, "idle")
      BY <2>a, <3>1, StaysThere
    <3>3. MappingInv'
      BY <2>a, <3>1, <3>2, MappingLeft DEF Places
    <3>4. shm[p] # Segment_!None /\ shm' = [shm EXCEPT ![p] = Segment_!None]
      BY <2>5 DEF Segment_!detach, Segment_!destroy, Segment_!Renews
    <3>5. CASE Segment_!detach(p)
      BY <3>5, <3>1, <3>4, DropsSegment, <3>3 DEF Segment_!detach
    <3>6. CASE Segment_!destroy(p)
      BY <3>6, <3>1, <3>4, DropsSegment, <3>3 DEF Segment_!destroy
    <3>7. CASE Segment_!Renews(p)
      <4>1. \/ attached' = [attached EXCEPT ![p][shm[p]] = @ - 1] /\ forgot' = forgot
            \/ attached' = attached /\ forgot' = forgot \cup {p}
        <5>1. PICK is_owner \in BOOLEAN :
                /\ attached' = [attached EXCEPT ![p][shm[p]] = IF is_owner THEN @ - 1 ELSE @]
                /\ forgot' = IF is_owner THEN forgot ELSE forgot \cup {p}
          BY <3>7 DEF Segment_!Renews
        <5>2. CASE is_owner
          BY <5>1, <5>2
        <5>3. CASE ~is_owner
          BY <5>1, <5>3, <2>a DEF SegmentTypes
        <5>. QED BY <5>2, <5>3
      <4>2. /\ shm_id' = [shm_id EXCEPT ![p] = Segment_!None] /\ keyed' = keyed
            /\ is_created' = [is_created EXCEPT ![p] = TRUE]
        BY <3>7 DEF Segment_!Renews
      <4>3. SegmentInv'
        BY <4>1, <4>2, <3>1, <3>4, DropsSegment
      <4>. QED BY <3>3, <4>3
    <3>. QED BY <2>5, <3>5, <3>6, <3>7
  <2>6. ASSUME NEW p \in Procs, Segment_!open(p) PROVE ObjectsInv'
    <3>1. at[p] = "idle" /\ UNCHANGED <<Segment_!segment, forgot>>
      BY <2>6 DEF Segment_!open
    <3>2. Segment_!GoTo(p, "extend") \/ Segment_!GoTo(p, at[p])
      BY <2>6, <2>a, StaysThere DEF Segment_!open
    <3>. QED BY <2>6, <2>a, <3>1, <3>2, SegmentsLeft, OpenMapping DEF Places
  <2>7. ASSUME NEW p \in Procs, Segment_!Extends(p) \/ Segment_!ExtendFails(p)
        PROVE  ObjectsInv'
    <3>1. /\ at[p] # "attach" /\ Segment_!GoTo(p, "map")
          /\ UNCHANGED <<Segment_!segment, forgot>>
      BY <2>7 DEF Segment_!Extends, Segment_!ExtendFails
    <3>. QED BY <2>7, <2>a, <3>1, SegmentsLeft, ExtendsMapping, ExtendFailsMapping DEF Places
  <2>8. ASSUME NEW p \in Procs, Segment_!Maps(p) \/ Segment_!MapFails(p) PROVE ObjectsInv'
    <3>1. at[p] # "attach" /\ Segment_!GoTo(p, "idle") /\ UNCHANGED <<Segment_!segment, forgot>>
      BY <2>8 DEF Segment_!Maps, Segment_!MapFails
    <3>. QED BY <2>8, <2>a, <3>1, SegmentsLeft, MapsMapping DEF Places
  <2>9. ASSUME NEW p \in Procs, \/ Segment_!openFd(p) \/ Segment_!close(p)
                                \/ Segment_!Abandons(p) \/ Segment_!Store(p)
        PROVE  ObjectsInv'
    <3>1. at[p] = "idle" /\ UNCHANGED <<at, Segment_!segment, forgot>>
      BY <2>9 DEF Segment_!openFd, Segment_!close, Segment_!Abandons, Segment_!Store
    <3>2. Segment_!GoTo(p, at[p])
      BY <2>a, <3>1, StaysThere
    <3>3. SegmentInv'
      BY <2>a, <3>1, <3>2, SegmentsLeft DEF Places
    <3>. QED BY <2>9, <2>a, <3>3, OpenFdMapping, CloseMapping, GoneMapping, StoreMapping
  <2>10. ASSUME NEW p \in Procs, Segment_!Exit(p) PROVE ObjectsInv'
    BY <2>10, <2>a, ExitSegment, GoneMapping
  <2>. QED BY <2>1, <2>2, <2>3, <2>4, <2>5, <2>6, <2>7, <2>8, <2>9, <2>10 DEF Segment_!Next
<1>. QED BY <1>1, <1>2, PTL DEF Segment_!Spec

\* Of the processes that have a segment at most one was told it created it, and
\* what a process has attached is what its object points to, or is forgotten.
LEMMA ToldOnce == Segment_!SharedAssumption => (Segment_!Spec => []Segment_!SegmentsKnown)
<1>. SUFFICES ASSUME Segment_!SharedAssumption PROVE Segment_!Spec => []Segment_!SegmentsKnown
  OBVIOUS
<1>1. ObjectsInv => Segment_!SegmentsKnown
  <2>. SUFFICES ASSUME SegmentInv PROVE Segment_!SegmentsKnown
    BY DEF ObjectsInv
  <2>. USE DEF SegmentInv
  <2>1. ASSUME NEW p \in Procs, NEW q \in Procs,
               at[p] = "idle", is_created[p], shm[p] # Segment_!None,
               at[q] = "idle", is_created[q], shm[q] = shm[p]
        PROVE  p = q
    <3>1. shm[p] \in Ids
      BY <2>1 DEF SegmentTypes
    <3>. QED BY <2>1, <3>1 DEF OneCreator, Claims
  <2>2. ASSUME NEW p \in Procs, NEW d \in Ids
        PROVE  IF shm[p] = d THEN attached[p][d] >= 1 ELSE attached[p][d] > 0 => p \in forgot
    BY DEF Pointed, AttachedOnce
  <2>. QED BY <2>1, <2>2 DEF Segment_!SegmentsKnown
<1>. QED BY <1>1, ObjectsInvariant, PTL

\* A byte inside a mapping is inside the file, but for failed writes and short
\* descriptors; and a process that owns what it maps has no other mapping.
LEMMA BytesBacked == Segment_!SharedAssumption => (Segment_!Spec => []Segment_!MappingsBacked)
<1>. SUFFICES ASSUME Segment_!SharedAssumption PROVE Segment_!Spec => []Segment_!MappingsBacked
  OBVIOUS
<1>1. ObjectsInv => Segment_!MappingsBacked
  BY DEF ObjectsInv, MappingInv, Extended, Fits, MappedOnce, Tallied, Segment_!MappingsBacked
<1>. QED BY <1>1, ObjectsInvariant, PTL

\* The segments' and mappings' variables change by steps of SharedMemory only.
LEMMA SegmentsAlone == ProcessesSpec => Segment_!Spec
<1>1. ProcessesInit => Segment_!Init
  BY DEF ProcessesInit
<1>2. [Filters \/ Segments \/ Daemons \/ Loggers]_<<subject, vars, objects, daemon, loggers>>
        => [Segment_!Next]_(Segment_!vars)
  <2>1. UNCHANGED objects => UNCHANGED Segment_!vars
    BY DEF Segment_!vars, objects
  <2>2. Filters \/ Daemons \/ Loggers => UNCHANGED objects
    BY DEF Filters, Daemons, Loggers
  <2>3. Segments => Segment_!Next
    BY DEF Segments
  <2>. QED BY <2>1, <2>2, <2>3
<1>. QED BY <1>1, <1>2, PTL DEF ProcessesSpec, Segment_!Spec

\* Of the processes that have a segment at most one was told it created it, and
\* what a process has attached is what its object points to, or is forgotten.
THEOREM OneIsTold == ProcessesSpec => []SegmentsKnown
<1>1. Segment_!Spec => []Segment_!SegmentsKnown
  BY ProcessesAssumption, ToldOnce
<1>2. Segment_!SegmentsKnown => SegmentsKnown
  BY DEF SegmentsKnown
<1>. QED BY <1>1, <1>2, SegmentsAlone, PTL

\* A byte inside a mapping is inside the file, but for failed writes and short
\* descriptors; and a process that owns what it maps has no other mapping.
THEOREM InsideTheFile == ProcessesSpec => []MappingsBacked
<1>1. Segment_!Spec => []Segment_!MappingsBacked
  BY ProcessesAssumption, BytesBacked
<1>2. Segment_!MappingsBacked => MappingsBacked
  BY DEF MappingsBacked
<1>. QED BY <1>1, <1>2, SegmentsAlone, PTL

\* The loggers' variables change by steps of Logger only.
LEMMA LoggersAlone == ProcessesSpec => Logger_!Spec
<1>1. ProcessesInit => Logger_!Init
  BY DEF ProcessesInit
<1>2. [Filters \/ Segments \/ Daemons \/ Loggers]_<<subject, vars, objects, daemon, loggers>>
        => [Logger_!Next]_(Logger_!vars)
  <2>1. UNCHANGED loggers => UNCHANGED Logger_!vars
    BY DEF Logger_!vars, loggers
  <2>2. Filters \/ Segments \/ Daemons => UNCHANGED loggers
    BY DEF Filters, Segments, Daemons
  <2>3. Loggers => Logger_!Next
    BY DEF Loggers
  <2>. QED BY <2>1, <2>2, <2>3
<1>. QED BY <1>1, <1>2, PTL DEF ProcessesSpec, Logger_!Spec

\* From the oldest file to the newest the records of each process come in the
\* order they were logged in.
THEOREM FilesInOrder == ProcessesSpec => []OrderKept
<1>1. Logger_!Spec => []Logger_!OrderKept
  BY ProcessesAssumption, Logger_!FilesInOrder
<1>2. Logger_!OrderKept => OrderKept
  BY DEF OrderKept
<1>. QED BY <1>1, <1>2, LoggersAlone, PTL

\* A process alone loses only the oldest of the records that reached a file.
THEOREM OldestGoFirst == ProcessesSpec => []OnlyOldestDropped
<1>1. Logger_!Spec => []Logger_!OnlyOldestDropped
  BY ProcessesAssumption, Logger_!OldestGoFirst
<1>2. Logger_!OnlyOldestDropped => OnlyOldestDropped
  BY DEF OnlyOldestDropped
<1>. QED BY <1>1, <1>2, LoggersAlone, PTL

\* A process alone leaves no file much bigger than log_size_, and log_buf_ is not
\* overrun, but for the batches that overrun it.
THEOREM SizesHold == ProcessesSpec => []SizesBounded
<1>1. Logger_!Spec => [](Logger_!FilesBounded /\ Logger_!BufferFits)
  <2>1. Logger_!Spec => []Logger_!FilesBounded
    BY ProcessesAssumption, Logger_!SizesHold
  <2>2. Logger_!Spec => []Logger_!BufferFits
    BY ProcessesAssumption, Logger_!BufferHolds
  <2>. QED BY <2>1, <2>2, PTL
<1>2. Logger_!FilesBounded /\ Logger_!BufferFits => SizesBounded
  BY DEF SizesBounded
<1>. QED BY <1>1, <1>2, LoggersAlone, PTL
===============================================================================
