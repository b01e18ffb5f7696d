------------------------------ MODULE HashtableShm -----------------------------
(***************************************************************************)
(* src/src/hashtable_shm.h: a hash table in System V shared memory, used by *)
(* several processes without a lock.  A key has one candidate slot in each  *)
(* of bucket_num rows; row r is meant to hold its r-th prime of slots.       *)
(*                                                                         *)
(* A node is its key: the rest of it is copied with it.  All processes call *)
(* init with the same arguments.                                            *)
(***************************************************************************)
EXTENDS Integers, FiniteSets, Sequences

CONSTANTS
  Procs,
  Keys,        \* keys as their hash: 0 is the empty key
  Primes,      \* primes_table_, largest first
  MaxInits,    \* bound: calls of init of one process
  MaxOps       \* bound: calls of the table's operations

ASSUME HashtableAssumption ==
  /\ Keys \subseteq Nat \ {0}
  /\ Primes \in Seq(Nat \ {0}) /\ Primes # <<>>
  /\ MaxInits \in Nat /\ MaxOps \in Nat

VARIABLES
  size,        \* shm_size of the segment, in tables, or 0 without a segment
  bucket_num,  \* the head's bucket_num
  count,       \* the head's count
  table,       \* [Slots -> Keys, or 0]
  pc,          \* where each process is
  asked,       \* primes_table_sum_ of each process, in tables
  op,          \* the operation each process is in
  \* what the properties look back on
  ops,         \* operations begun
  stored,      \* keys inserted, and neither removed nor cleared since
  missed,      \* a find returned NULL for a key stored all the while
  overlapped,  \* two operations that change the table ran at once
  disturbed    \* one ran while the table was being set up, or clear was called

head    == <<size, bucket_num, count>>
history == <<ops, stored, missed, overlapped, disturbed>>
vars    == <<head, table, pc, asked, op, history>>

Rows  == Len(Primes)

\* the primes summed up: all of them are primes_table_sum_
primes_sum[n \in 0 .. Rows] == IF n = 0 THEN 0 ELSE primes_sum[n - 1] + Primes[n]

Slots == 0 .. (primes_sum[Rows] - 1)

Updates == {"insert", "update", "insert_onlyonce", "remove"}   \* update: force
InOp    == {"finding", "placing", "copying", "counting", "storing"}
SettingUp == {"created", "zeroed", "headed"}

Idle == [name |-> "none", key |-> 0, row |-> 0, slot |-> 0, seen |-> 0, sure |-> FALSE]

Init ==
  /\ size = 0 /\ bucket_num = 0 /\ count = 0
  /\ table = [s \in Slots |-> 0]
  /\ pc = [p \in Procs |-> "out"]
  /\ asked = [p \in Procs |-> 0]
  /\ op = [p \in Procs |-> Idle]
  /\ ops = 0 /\ stored = {} /\ missed = FALSE
  /\ overlapped = FALSE /\ disturbed = FALSE

Goes(p, from, to) == pc[p] = from /\ pc' = [pc EXCEPT ![p] = to]

(***************************************************************************)
(* init.                                                                   *)
(***************************************************************************)
\* The primes are summed up once more on every call; then the first shmget.
Open(p) ==
  /\ asked[p] < MaxInits                  \* bound
  /\ asked' = [asked EXCEPT ![p] = @ + 1]
  /\ \/ size > 0 /\ asked'[p] <= size /\ Goes(p, "out", "ready")
     \/ ~(size > 0 /\ asked'[p] <= size) /\ Goes(p, "out", "absent")
  /\ UNCHANGED <<head, table, op, history>>

\* shmget with IPC_CREAT | IPC_EXCL
Create(p) ==
  /\ size = 0
  /\ Goes(p, "absent", "created")
  /\ size' = asked[p]
  /\ UNCHANGED <<bucket_num, count, table, asked, op, history>>

\* another process was faster, or the segment is smaller than asked for: -2.
\* The process may call init again.
CreateFails(p) ==
  /\ size > 0
  /\ Goes(p, "absent", "out")
  /\ UNCHANGED <<head, table, asked, op, history>>

\* Mutant of Zero: the head was filled in before the segment is cleared.
ZeroLate(p) ==
  \/ /\ Goes(p, "created", "zeroed")
     /\ bucket_num' = Rows
     /\ UNCHANGED <<size, count, table, asked, op, history>>
  \/ /\ Goes(p, "headed", "ready")
     /\ table' = [s \in Slots |-> 0] /\ count' = 0
     /\ UNCHANGED <<size, bucket_num, asked, op, history>>

Zero(p) ==
  /\ Goes(p, "created", "zeroed")
  /\ bucket_num' = 0 /\ count' = 0
  /\ table' = [s \in Slots |-> 0]
  /\ UNCHANGED <<size, asked, op, history>>

\* from here on the other processes' loops have rows
WriteBucketNum(p) ==
  /\ Goes(p, "zeroed", "headed")
  /\ bucket_num' = Rows
  /\ UNCHANGED <<size, count, table, asked, op, history>>

WriteCount(p) ==
  /\ Goes(p, "headed", "ready")
  /\ count' = 0
  /\ UNCHANGED <<size, bucket_num, table, asked, op, history>>

(***************************************************************************)
(* The slots of a key.                                                     *)
(***************************************************************************)
\* find adds primes_table_[i - 1] for i from 0: the word before the table, which
\* is the upper half of the allocator's size and 0, and one row too few.
RowOffset(row) == IF row = 0 THEN 0 ELSE primes_sum[row - 1]

FindSlot(row, key) == RowOffset(row) + (key % Primes[row + 1])

\* the operations that find goes before
Finds == {"find", "insert", "update", "remove"}

Step(p, to, o) ==
  /\ pc' = [pc EXCEPT ![p] = to]
  /\ op' = [op EXCEPT ![p] = o]

Changes(q) == pc[q] \in InOp /\ op[q].name \in Updates

\* removing a key makes finds of it unsure, from the call on
Unsure(key) ==
  [q \in Procs |-> IF op[q].key = key THEN [op[q] EXCEPT !.sure = FALSE] ELSE op[q]]

Begin(p, name, key) ==
  /\ pc[p] = "ready"
  /\ ops < MaxOps                         \* bound
  /\ ops' = ops + 1
  /\ pc' = [pc EXCEPT ![p] = IF name \in Finds THEN "finding" ELSE "placing"]
  /\ op' = [(IF name = "remove" THEN Unsure(key) ELSE op) EXCEPT ![p] =
              [Idle EXCEPT !.name = name, !.key = key, !.sure = key \in stored]]
  /\ stored' = IF name = "remove" THEN stored \ {key} ELSE stored
  /\ overlapped' = (overlapped \/ (name \in Updates /\ \E q \in Procs : Changes(q)))
  /\ disturbed' = 
       (disturbed \/ (name \in Updates /\ \E q \in Procs : pc[q] \in SettingUp))
  /\ UNCHANGED <<head, table, asked, missed>>

NextRow(p) == op' = [op EXCEPT ![p].row = @ + 1]

\* one round of find's loop
FindRow(p) ==
  LET o == op[p]
      s == FindSlot(o.row, o.key)
  IN /\ pc[p] = "finding" /\ o.row < bucket_num
     /\ \/ table[s] # o.key /\ NextRow(p) /\ UNCHANGED pc
        \/ /\ table[s] = o.key
           /\ IF o.name \in {"update", "remove"}
              THEN Step(p, "copying", [o EXCEPT !.slot = s])
              ELSE Step(p, "ready", Idle)     \* the node, or "existed"
     /\ UNCHANGED <<head, table, asked, history>>

\* find returns NULL: to find's caller, to remove's, or to the insert around it,
\* which does the same from here on with force and without
FindEnds(p) ==
  LET o == op[p]
  IN /\ pc[p] = "finding" /\ o.row >= bucket_num
     /\ IF o.name \in {"insert", "update"}
        THEN Step(p, "placing", [o EXCEPT !.name = "insert", !.row = 0])
        ELSE Step(p, "ready", Idle)
     /\ missed' = (missed \/ (o.name = "find" /\ o.sure))
     /\ UNCHANGED <<head, table, asked, ops, stored, overlapped, disturbed>>

\* Mutant of PlaceRow: every row has slots of its own, which find does not know.
PlaceRowApart(p) ==
  LET o == op[p]
      s == primes_sum[o.row] + (o.key % Primes[o.row + 1])
  IN /\ pc[p] = "placing" /\ o.row < bucket_num
     /\ \/ table[s] # 0 /\ NextRow(p) /\ UNCHANGED pc
        \/ table[s] = 0 /\ Step(p, "copying", [o EXCEPT !.slot = s])
     /\ UNCHANGED <<head, table, asked, history>>

\* One round of insert's loop.  From row 1 on its unsigned i - 1 reads
\* primes_table_[0xffffffff], 16 GiB behind the table, and the process dies.
PlaceRow(p) ==
  LET o == op[p]
      s == o.key % Primes[1]
  IN /\ pc[p] = "placing" /\ o.row < bucket_num
     /\ \/ o.row > 0 /\ Step(p, "died", o)
        \/ o.row = 0 /\ table[s] # 0 /\ NextRow(p) /\ UNCHANGED pc
        \/ o.row = 0 /\ table[s] = 0 /\ Step(p, "copying", [o EXCEPT !.slot = s])
     /\ UNCHANGED <<head, table, asked, history>>

\* "no enough space to insert"
PlaceEnds(p) ==
  /\ pc[p] = "placing" /\ op[p].row >= bucket_num
  /\ Step(p, "ready", Idle)
  /\ UNCHANGED <<head, table, asked, history>>

\* the memcpy of a node, or the memset of remove
Copy(p) ==
  LET o == op[p]
  IN /\ pc[p] = "copying"
     /\ table' = [table EXCEPT ![o.slot] = IF o.name = "remove" THEN 0 ELSE o.key]
     /\ stored' = IF o.name = "remove" THEN stored ELSE stored \cup {o.key}
     /\ IF o.name = "update" THEN Step(p, "ready", Idle)
        ELSE pc' = [pc EXCEPT ![p] = "counting"] /\ UNCHANGED op
     /\ UNCHANGED <<head, asked, ops, missed, overlapped, disturbed>>

\* count++ and count-- read ...
ReadCount(p) ==
  /\ Goes(p, "counting", "storing")
  /\ op' = [op EXCEPT ![p].seen = count]
  /\ UNCHANGED <<head, table, asked, history>>

Recount(o) == IF o.name = "remove" THEN o.seen - 1 ELSE o.seen + 1

\* ... and write the head's count
StoreCount(p) ==
  /\ pc[p] = "storing"
  /\ count' = Recount(op[p])
  /\ Step(p, "ready", Idle)
  /\ UNCHANGED <<size, bucket_num, table, asked, history>>

\* clear() wipes the slots and leaves count.  It wipes as many bytes behind the
\* head as the segment has with it; what is past its end is taken to be slack.
clear(p) ==
  /\ pc[p] = "ready" /\ bucket_num > 0
  /\ ops < MaxOps                         \* bound
  /\ ops' = ops + 1
  /\ table' = [s \in Slots |-> 0]
  /\ stored' = {}
  /\ op' = [q \in Procs |-> [op[q] EXCEPT !.sure = FALSE]]
  /\ overlapped' = (overlapped \/ \E q \in Procs : Changes(q))
  /\ disturbed' = TRUE
  /\ UNCHANGED <<head, pc, asked, missed>>

Setup(p) ==
  \/ Open(p) \/ Create(p) \/ CreateFails(p)
  \/ Zero(p) \/ WriteBucketNum(p) \/ WriteCount(p)

Operation(p) ==
  \/ \E name \in Updates \cup {"find"}, key \in Keys : Begin(p, name, key)
  \/ FindRow(p) \/ FindEnds(p) \/ PlaceRow(p) \/ PlaceEnds(p)
  \/ Copy(p) \/ ReadCount(p) \/ StoreCount(p)
  \/ clear(p)

Next == \E p \in Procs : Setup(p) \/ Operation(p)

Spec == Init /\ [][Next]_vars

-------------------------------------------------------------------------------
(***************************************************************************)
(* Properties.                                                             *)
(***************************************************************************)
TypeOK ==
  /\ size \in Nat /\ bucket_num \in {0, Rows} /\ count \in Int
  /\ table \in [Slots -> Keys \cup {0}]
  /\ pc \in [Procs -> {"out", "absent", "ready", "died"} \cup SettingUp \cup InOp]
  /\ asked \in [Procs -> 0 .. MaxInits]
  /\ \A p \in Procs : op[p].row \in 0 .. Rows /\ op[p].slot \in Slots
  /\ ops \in 0 .. MaxOps /\ stored \subseteq Keys
  /\ missed \in BOOLEAN /\ overlapped \in BOOLEAN /\ disturbed \in BOOLEAN

\* Who looks for a key that is in the table all the while finds it, if the processes
\* that change the table take turns, also when they start before the creator has set
\* it up: the loops have no rows before the memset is done (hashtable_shm.h:271-280,
\* 386-416).
LookupSees == ~overlapped => ~missed

\* A key is never in two slots, so that one removed does not come back, whatever the
\* processes' inserts and removals overlap (hashtable_shm.h:304-348).
OneSlotPerKey ==
  \A s, t \in Slots : table[s] = table[t] /\ table[s] # 0 => s = t

Quiet == \A p \in Procs : pc[p] \notin SettingUp /\ ~Changes(p)

\* The head's count is the number of keys in the table whenever nobody changes it,
\* if the changes took turns, none began before the creator was done, and clear was
\* not called (hashtable_shm.h:173, 341, 429).
CountExact ==
  Quiet /\ ~overlapped /\ ~disturbed =>
    count = Cardinality({s \in Slots : table[s] # 0})

\* The table can be counted and emptied: every key once, count as many as there are.
TableSound == TypeOK /\ OneSlotPerKey /\ CountExact

\* insert walks through the rows until it finds a free slot (hashtable_shm.h:302): it
\* returns, and does not take the process down.
InsertReturns == \A p \in Procs : ~(pc[p] = "died" /\ op[p].name = "insert")
===============================================================================
