----------------------------- MODULE BloomFilter -----------------------------
(***************************************************************************)
(* src/src/bloomfilter.cpp: a filter of each process, in memory of its own *)
(* or in a segment all of them share, dumped to and loaded from one file   *)
(* by the functions of src/src/file_util.cpp.  The processes interleave at *)
(* every access to a byte.                                                 *)
(***************************************************************************)
EXTENDS Integers, Sequences, FiniteSets

CONSTANTS
  Procs,      \* the processes
  Keys,       \* the items
  Hash,       \* [Keys -> Seq(bits)]: what bloomhash stores in hash_pos_
  CHAR_BIT,   \* the bits of a byte (8)
  size,       \* size_, the bytes of a filter
  MaxCalls    \* bound: the calls made

Bits == 0 .. (size * CHAR_BIT - 1)

ASSUME FilterAssumption ==
  /\ CHAR_BIT \in Nat \ {0} /\ size \in Nat \ {0}
  /\ Keys # {} /\ "segment" \notin Procs
  \* calc_param makes num_of_hashfunc_ at least 1
  /\ Hash \in [Keys -> Seq(Bits) \ {<<>>}] /\ MaxCalls \in Nat

VARIABLES
  pc,      \* what each process is at
  shared,  \* use_shm_: is its filter in the segment?
  mem,     \* the bits that are set, in the segment and in each process' memory
  key,     \* the item a process adds
  i,       \* its local i: the position it is at, or the bytes counted, dumped or loaded
  reg,     \* the byte it read to set a bit in it
  count,   \* count_
  saved,   \* the file, a sequence of bytes, each the set of its bits
  sure,    \* the items whose set has returned, in each memory
  copied,  \* the items that were sure when the dump in the file began
  raced,   \* did operations of two processes get into each other's way?
  recount, \* the processes whose count_ a load or a clear has made meaningless
  calls    \* how many calls were made

vars == <<pc, shared, mem, key, i, reg, count, saved, sure, copied, raced, recount, calls>>
item == <<key, reg>>
disk == <<saved, copied>>

Segment  == "segment"
Memories == Procs \cup {Segment}
At(p)    == IF shared[p] THEN Segment ELSE p

ByteOf(n)     == {b \in Bits : b \div CHAR_BIT = n}
Byte(p, n)    == mem[At(p)] \cap ByteOf(n)

\* processes in the middle of an operation on a filter they have
Busy == {p \in Procs : pc[p] \notin {"none", "idle", "count"}}

TypeOK ==
  /\ pc \in [Procs -> {"none", "count", "idle", "test", "load", "store", "dump", "read"}]
  /\ shared \in [Procs -> BOOLEAN]
  /\ mem \in [Memories -> SUBSET Bits]
  /\ key \in [Procs -> Keys]
  /\ i \in [Procs -> Nat] /\ count \in [Procs -> Nat]
  /\ reg \in [Procs -> SUBSET Bits]
  /\ saved \in Seq(SUBSET Bits) /\ Len(saved) <= size
  /\ sure \in [Memories -> SUBSET Keys]
  /\ copied \subseteq Keys /\ raced \in BOOLEAN /\ recount \subseteq Procs
  /\ calls \in 0 .. MaxCalls

Init ==
  /\ pc = [p \in Procs |-> "none"]
  /\ shared = [p \in Procs |-> FALSE]
  /\ mem = [m \in Memories |-> {}]
  /\ key = [p \in Procs |-> CHOOSE k \in Keys : TRUE]
  /\ i = [p \in Procs |-> 0]
  /\ reg = [p \in Procs |-> {}]
  /\ count = [p \in Procs |-> 0]
  /\ saved = <<>>
  /\ sure = [m \in Memories |-> {}]
  /\ copied = {}
  /\ raced = FALSE
  /\ recount = {}
  /\ calls = 0

Called == calls < MaxCalls /\ calls' = calls + 1

GoTo(p, l) == pc' = [pc EXCEPT ![p] = l]

(***************************************************************************)
(* init.  The segment is found or created, all zero.  The bits of a        *)
(* segment are counted by 1 == GET_BIT(i), which only the lowest bit of a  *)
(* byte satisfies: a step of the count is a byte of which that bit is read.*)
(***************************************************************************)
init(p) ==
  /\ pc[p] = "none"
  /\ \E shm \in BOOLEAN :
       /\ shared' = [shared EXCEPT ![p] = shm]
       /\ GoTo(p, IF shm THEN "count" ELSE "idle")
       /\ recount' = IF shm /\ \E q \in Procs : pc[q] = "read" /\ shared[q]
                     THEN recount \cup {p} ELSE recount
  /\ mem' = [mem EXCEPT ![p] = {}]
  /\ sure' = [sure EXCEPT ![p] = {}]
  /\ Called
  /\ UNCHANGED <<item, i, count, disk, raced>>

CountsByte(p) ==
  /\ pc[p] = "count"
  /\ count' = IF i[p] * CHAR_BIT \in mem[At(p)] THEN [count EXCEPT ![p] = @ + 1] ELSE count
  /\ IF i[p] + 1 = size
     THEN i' = [i EXCEPT ![p] = 0] /\ GoTo(p, "idle")
     ELSE i' = [i EXCEPT ![p] = @ + 1] /\ UNCHANGED pc
  /\ UNCHANGED <<shared, mem, item, disk, sure, raced, recount, calls>>

\* the destructor, or a crash at any step: the segment stays as it is
uninit(p) ==
  /\ pc[p] # "none"
  /\ GoTo(p, "none")
  /\ mem' = [mem EXCEPT ![p] = {}]
  /\ sure' = [sure EXCEPT ![p] = {}]
  /\ i' = [i EXCEPT ![p] = 0]
  /\ reg' = [reg EXCEPT ![p] = {}]
  /\ key' = [key EXCEPT ![p] = CHOOSE k \in Keys : TRUE]
  /\ count' = [count EXCEPT ![p] = 0]
  /\ recount' = recount \ {p}
  /\ shared' = [shared EXCEPT ![p] = FALSE]
  /\ UNCHANGED <<disk, raced, calls>>

(***************************************************************************)
(* set: for each position GET_BIT, and where it is 0 SET_BIT, which reads  *)
(* the byte and writes it back.                                            *)
(***************************************************************************)
set(p, k) ==
  /\ pc[p] = "idle"
  /\ key' = [key EXCEPT ![p] = k]
  /\ i' = [i EXCEPT ![p] = 1]
  /\ GoTo(p, "test")
  /\ raced' = (raced \/ \E q \in Busy \ {p} : pc[q] \in {"dump", "read"})
  /\ Called
  /\ UNCHANGED <<shared, mem, reg, count, disk, sure, recount>>

Position(p) == Hash[key[p]][i[p]]

\* on to the next position; behind the last one set returns true
Onwards(p) ==
  IF i[p] < Len(Hash[key[p]])
  THEN i' = [i EXCEPT ![p] = @ + 1] /\ GoTo(p, "test") /\ UNCHANGED sure
  ELSE /\ i' = [i EXCEPT ![p] = 0] /\ GoTo(p, "idle")
       /\ sure' = [sure EXCEPT ![At(p)] = @ \cup {key[p]}]

Tests(p) ==
  /\ pc[p] = "test"
  /\ IF Position(p) \in mem[At(p)]
     THEN Onwards(p)
     ELSE GoTo(p, "load") /\ UNCHANGED <<i, sure>>
  /\ UNCHANGED <<shared, mem, item, count, disk, raced, recount, calls>>

Loads(p) ==
  /\ pc[p] = "load"
  /\ reg' = [reg EXCEPT ![p] = Byte(p, Position(p) \div CHAR_BIT)]
  /\ GoTo(p, "store")
  /\ raced' = (raced \/ \E q \in Procs \ {p} :
                 /\ pc[q] = "store" /\ At(q) = At(p)
                 /\ Position(q) \div CHAR_BIT = Position(p) \div CHAR_BIT)
  /\ UNCHANGED <<shared, mem, key, i, count, disk, sure, recount, calls>>

Stores(p) ==
  /\ pc[p] = "store"
  /\ mem' = [mem EXCEPT ![At(p)] =
               (@ \ ByteOf(Position(p) \div CHAR_BIT)) \cup reg[p] \cup {Position(p)}]
  /\ reg' = [reg EXCEPT ![p] = {}]
  /\ count' = [count EXCEPT ![p] = @ + 1]
  /\ Onwards(p)
  /\ UNCHANGED <<shared, key, disk, raced, recount, calls>>

check(p, k) == \A n \in DOMAIN Hash[k] : Hash[k][n] \in mem[At(p)]

\* Mutant of clear: count_ is left as it was.
clearKeepsCount(p) ==
  /\ pc[p] = "idle"
  /\ mem' = [mem EXCEPT ![At(p)] = {}]
  /\ sure' = [sure EXCEPT ![At(p)] = {}]
  /\ recount' = recount \cup {q \in Procs \ {p} : At(q) = At(p)}
  /\ raced' = (raced \/ Busy # {})
  /\ Called
  /\ UNCHANGED <<pc, shared, item, i, count, disk>>

clear(p) ==
  /\ pc[p] = "idle"
  /\ mem' = [mem EXCEPT ![At(p)] = {}]
  /\ count' = [count EXCEPT ![p] = 0]
  /\ sure' = [sure EXCEPT ![At(p)] = {}]
  /\ recount' = (recount \ {p}) \cup {q \in Procs \ {p} : At(q) = At(p)}
  /\ raced' = (raced \/ Busy # {})
  /\ Called
  /\ UNCHANGED <<pc, shared, item, i, disk>>

(***************************************************************************)
(* dump truncates the file and writes it as write_tofd does, in as many    *)
(* pieces as write makes of it.  Where a write fails behind the first      *)
(* byte, dump returns true all the same.                                   *)
(***************************************************************************)
dump(p) ==
  /\ pc[p] = "idle"
  /\ saved' = <<>>
  /\ copied' = sure[At(p)]
  /\ i' = [i EXCEPT ![p] = 0]
  /\ GoTo(p, "dump")
  /\ raced' = (raced \/ Busy # {})
  /\ Called
  /\ UNCHANGED <<shared, mem, item, count, sure, recount>>

\* Mutant of write_tofd: every piece is written from the start of the buffer.
write_tofdStart(p) ==
  /\ pc[p] = "dump"
  /\ saved' = Append(saved, Byte(p, 0))
  /\ IF i[p] + 1 = size
     THEN i' = [i EXCEPT ![p] = 0] /\ GoTo(p, "idle")
     ELSE i' = [i EXCEPT ![p] = @ + 1] /\ UNCHANGED pc
  /\ UNCHANGED <<shared, mem, item, count, sure, copied, raced, recount, calls>>

write_tofd(p) ==
  /\ pc[p] = "dump"
  /\ saved' = [n \in 1 .. (i[p] + 1) |->
                 IF n = i[p] + 1 THEN Byte(p, i[p]) ELSE IF n <= Len(saved) THEN saved[n] ELSE {}]
  /\ IF i[p] + 1 = size
     THEN i' = [i EXCEPT ![p] = 0] /\ GoTo(p, "idle")
     ELSE i' = [i EXCEPT ![p] = @ + 1] /\ UNCHANGED pc
  /\ UNCHANGED <<shared, mem, item, count, sure, copied, raced, recount, calls>>

WriteFails(p) ==
  /\ pc[p] = "dump"
  /\ i' = [i EXCEPT ![p] = 0] /\ GoTo(p, "idle")
  /\ UNCHANGED <<shared, mem, item, count, disk, sure, raced, recount, calls>>

(***************************************************************************)
(* load reads the file into the filter as read_fromfd does: where the file *)
(* ends early read returns 0, and read_fromfd reads again, for as long as  *)
(* the file stays short.  count_ is left as it was.                        *)
(***************************************************************************)
load(p) ==
  /\ pc[p] = "idle"
  /\ i' = [i EXCEPT ![p] = 0]
  /\ sure' = [sure EXCEPT ![At(p)] = {}]
  /\ recount' = recount \cup {q \in Procs : At(q) = At(p)}
  /\ raced' = (raced \/ Busy # {})
  /\ GoTo(p, "read")
  /\ Called
  /\ UNCHANGED <<shared, mem, item, count, disk>>

read_fromfd(p) ==
  /\ pc[p] = "read"
  /\ LET read == {b \in Bits : b \div CHAR_BIT \in i[p] .. (Len(saved) - 1)}
         file == {b \in read : b \in saved[b \div CHAR_BIT + 1]}
     IN mem' = [mem EXCEPT ![At(p)] = (@ \ read) \cup file]
  /\ IF Len(saved) = size
     THEN /\ i' = [i EXCEPT ![p] = 0] /\ GoTo(p, "idle")
          /\ sure' = [sure EXCEPT ![At(p)] = copied]
     ELSE /\ i' = [i EXCEPT ![p] = IF @ < Len(saved) THEN Len(saved) ELSE @]
          /\ UNCHANGED <<pc, sure>>
  /\ UNCHANGED <<shared, item, count, disk, raced, recount, calls>>

Next ==
  \E p \in Procs :
    \/ init(p) \/ CountsByte(p) \/ uninit(p)
    \/ \E k \in Keys : set(p, k)
    \/ Tests(p) \/ Loads(p) \/ Stores(p) \/ clear(p)
    \/ dump(p) \/ write_tofd(p) \/ WriteFails(p)
    \/ load(p) \/ read_fromfd(p)

Spec == Init /\ [][Next]_vars

-----------------------------------------------------------------------------
(***************************************************************************)
(* The promise of a filter: an item whose set has returned is found, in    *)
(* the memory it was set in and, once a dump of that memory was loaded, in *)
(* the one it was loaded into.  Sets of two processes may interleave as    *)
(* long as they do not read and write back the same byte at once, which    *)
(* loses a bit; a clear, a dump and a load need the filter and the file    *)
(* for themselves.  A process may crash in the middle of any of them.      *)
(***************************************************************************)
NoFalseNegative ==
  ~raced => \A p \in Procs : pc[p] # "none" => \A k \in sure[At(p)] : check(p, k)

(***************************************************************************)
(* usage_rate: count_ is the number of bits set in a filter of one's own   *)
(* and never more than that in a shared one, where every process counts    *)
(* what it set itself; a load, or the clear of another process, leaves a   *)
(* number that says nothing.                                               *)
(***************************************************************************)
CountIsBits ==
  ~raced => \A p \in Procs \ recount :
    /\ count[p] <= Cardinality(mem[At(p)])
    /\ ~shared[p] => count[p] = Cardinality(mem[p])
==============================================================================
