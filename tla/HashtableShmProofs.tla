--------------------------- MODULE HashtableShmProofs --------------------------
(***************************************************************************)
(* LookupSees and TableSound hold in every behaviour of HashtableShm: for  *)
(* any number of processes, any keys and any primes.                        *)
(*                                                                         *)
(* Neither is inductive.  A key is in one slot only because insert writes   *)
(* to the slot of row 0 alone, so that every key in the table is at home,   *)
(* whatever the operations overlap.  That a find sees a key, and that count *)
(* is right, need what the operation under way has found out and is still   *)
(* to write, as long as the operations take turns; and that nobody has a    *)
(* row to write to until the creator has zeroed the table.                  *)
(***************************************************************************)
EXTENDS HashtableShm, FiniteSetTheorems, WellFoundedInduction, TLAPS

Home(key) == key % Primes[1]

Writing == {"copying", "counting", "storing"}

Ops == [name : Updates \cup {"none", "find"}, key : Keys \cup {0}, row : 0 .. Rows,
        slot : Slots, seen : Int, sure : BOOLEAN]

Pcs == {"out", "absent", "ready", "died"} \cup SettingUp \cup InOp

Types ==
  /\ size \in Nat /\ bucket_num \in {0, Rows} /\ count \in Int
  /\ table \in [Slots -> Keys \cup {0}]
  /\ pc \in [Procs -> Pcs]
  /\ asked \in [Procs -> 0 .. MaxInits]
  /\ op \in [Procs -> Ops]
  /\ ops \in 0 .. MaxOps /\ stored \subseteq Keys
  /\ missed \in BOOLEAN /\ overlapped \in BOOLEAN /\ disturbed \in BOOLEAN

\* which operations get where
Fits(to, o) ==
  /\ to \in InOp => o.key \in Keys
  /\ to = "finding" => o.name \in Finds
  /\ to = "placing" => o.name \in {"insert", "insert_onlyonce"}
  /\ to = "copying" => o.name \in Updates
  /\ to \in {"counting", "storing"} => o.name \in Updates \ {"update"}

Named == \A p \in Procs : Fits(pc[p], op[p])

(***************************************************************************)
(* The segment is created once, and has no rows until it is zeroed.        *)
(***************************************************************************)
Uncreated ==
  size = 0 => bucket_num = 0 /\ \A p \in Procs : pc[p] \in {"out", "absent"}

Asked == \A p \in Procs : pc[p] # "out" => asked[p] >= 1

OneCreator == \A p, q \in Procs : pc[p] \in SettingUp /\ pc[q] \in SettingUp => p = q

Headless == \A p \in Procs : pc[p] \in {"created", "zeroed"} => bucket_num = 0

Rowless == bucket_num = 0 => stored = {} /\ \A p \in Procs : pc[p] \notin Writing

(***************************************************************************)
(* Every key is at home, and is copied there, whatever overlaps.           *)
(***************************************************************************)
AtHome == \A s \in Slots : table[s] # 0 => s = Home(table[s])

Aims == \A p \in Procs : pc[p] = "copying" => op[p].slot = Home(op[p].key)

SureIsStored ==
  \A p \in Procs : op[p].name = "find" /\ op[p].sure => op[p].key \in stored

Always ==
  /\ Types /\ Named /\ Uncreated /\ Asked /\ OneCreator /\ Headless /\ Rowless
  /\ AtHome /\ Aims /\ SureIsStored

(***************************************************************************)
(* As long as the changes take turns.                                      *)
(***************************************************************************)
OneChanges == \A p, q \in Procs : Changes(p) /\ Changes(q) => p = q

StoredIsThere == \A k \in stored : table[Home(k)] = k

\* what the change under way found out still holds
Found(o) == table[o.slot] = IF o.name \in {"update", "remove"} THEN o.key ELSE 0

StillSo == \A p \in Procs : pc[p] = "copying" => Found(op[p])

Removing ==
  \A p \in Procs : pc[p] \in InOp /\ op[p].name = "remove" => op[p].key \notin stored

FirstRow ==
  \A p \in Procs : pc[p] = "finding" /\ op[p].name = "find" /\ op[p].sure => op[p].row = 0

InTurn == OneChanges /\ StoredIsThere /\ StillSo /\ Removing /\ FirstRow /\ ~missed

(***************************************************************************)
(* As long as none of them began before the table was set up.              *)
(***************************************************************************)
Empty == count = 0 /\ \A s \in Slots : table[s] = 0

Unborn == size = 0 => Empty

SettingUpAlone ==
  \A p \in Procs : pc[p] \in SettingUp => Empty /\ \A q \in Procs : ~Changes(q)

Occupied == {s \in Slots : table[s] # 0}

\* count is right once the change under way has counted
Due(p) == IF op[p].name = "remove" THEN count - 1 ELSE count + 1

Recounted ==
  /\ \A p \in Procs : pc[p] \in {"counting", "storing"} => Cardinality(Occupied) = Due(p)
  /\ \A p \in Procs : pc[p] = "storing" => op[p].seen = count
  /\ (\A p \in Procs : pc[p] \notin {"counting", "storing"}) => Cardinality(Occupied) = count

Undisturbed == Unborn /\ SettingUpAlone /\ Recounted

IInv ==
  /\ Always
  /\ ~overlapped => InTurn
  /\ ~overlapped /\ ~disturbed => Undisturbed

-------------------------------------------------------------------------------
(***************************************************************************)
(* The slots.  The library's induction theorems take an operator; that a   *)
(* set of numbers with 0 and every successor is Nat follows from their      *)
(* being well-founded.                                                     *)
(***************************************************************************)
\* Induction, for a set.
LEMMA Induction ==
  ASSUME NEW S, 0 \in S, \A n \in Nat : n \in S => n + 1 \in S
  PROVE  Nat \subseteq S
<1>. DEFINE T == Nat \ S
<1>1. SUFFICES ASSUME T # {} PROVE FALSE
  OBVIOUS
<1>2. PICK m \in T : \A n \in T : ~(<<n, m>> \in OpToRel(<, Nat))
  <2>1. T \subseteq Nat
    OBVIOUS
  <2>. QED BY <1>1, <2>1, NatLessThanWellFounded, WFMin
<1>3. \A n \in T : ~(n < m)
  BY <1>2 DEF OpToRel
<1>4. m \in Nat /\ m # 0 /\ m - 1 \in Nat
  OBVIOUS
<1>5. m - 1 \in S
  BY <1>3, <1>4
<1>6. (m - 1) + 1 \in S
  BY <1>4, <1>5
<1>. QED BY <1>4, <1>6

\* There is a row, and its primes are positive.
LEMMA RowsOf == Rows \in Nat /\ Rows >= 1 /\ \A r \in 1 .. Rows : Primes[r] \in Nat /\ Primes[r] >= 1
<1>1. Primes \in Seq(Nat \ {0}) /\ Primes # <<>>
  BY HashtableAssumption
<1>. QED BY <1>1 DEF Rows

\* The recursion defines a function: the sums up to n exist for every n.
LEMMA SumsExist ==
  \E f : f = [n \in 0 .. Rows |-> IF n = 0 THEN 0 ELSE f[n - 1] + Primes[n]]
<1>. DEFINE Sums(f, m) == f = [n \in 0 .. m |-> IF n = 0 THEN 0 ELSE f[n - 1] + Primes[n]]
            S == {m \in Nat : \E f : Sums(f, m)}
<1>1. 0 \in S
  <2>1. Sums([n \in 0 .. 0 |-> 0], 0)
    OBVIOUS
  <2>. QED BY <2>1
<1>2. ASSUME NEW m \in Nat, m \in S PROVE m + 1 \in S
  <2>1. PICK f : Sums(f, m)
    BY <1>2
  <2>. DEFINE g == [n \in 0 .. (m + 1) |-> IF n <= m THEN f[n] ELSE f[m] + Primes[m + 1]]
  <2>2. ASSUME NEW n \in 0 .. (m + 1)
        PROVE  g[n] = IF n = 0 THEN 0 ELSE g[n - 1] + Primes[n]
    <3>1. CASE n = 0
      BY <2>1, <3>1
    <3>2. CASE n # 0 /\ n <= m
      <4>1. n \in 0 .. m /\ n - 1 \in 0 .. (m + 1) /\ n - 1 <= m
        BY <3>2
      <4>2. g[n] = f[n] /\ g[n - 1] = f[n - 1]
        BY <4>1
      <4>3. f[n] = f[n - 1] + Primes[n]
        BY <2>1, <3>2, <4>1
      <4>. QED BY <3>2, <4>2, <4>3
    <3>3. CASE n = m + 1
      <4>1. n - 1 = m /\ m \in 0 .. (m + 1) /\ ~(n <= m) /\ n # 0
        BY <3>3
      <4>. QED BY <3>3, <4>1
    <3>. QED BY <3>1, <3>2, <3>3
  <2>3. Sums(g, m + 1)
    BY <2>2
  <2>. HIDE DEF Sums, g
  <2>. QED BY <2>3
<1>. HIDE DEF Sums
<1>3. Nat \subseteq S
  BY <1>1, <1>2, Induction
<1>4. \E f : Sums(f, Rows)
  BY <1>3, RowsOf
<1>. QED BY <1>4 DEF Sums

\* What the sums are.
LEMMA SumIs ==
  \A n \in 0 .. Rows : primes_sum[n] = IF n = 0 THEN 0 ELSE primes_sum[n - 1] + Primes[n]
<1>1. primes_sum = [n \in 0 .. Rows |-> IF n = 0 THEN 0 ELSE primes_sum[n - 1] + Primes[n]]
  BY SumsExist DEF primes_sum
<1>. QED BY <1>1

\* The sums are numbers and grow.
LEMMA SumsGrow ==
  \A m \in 0 .. Rows : \A n \in 0 .. m : primes_sum[n] \in Nat /\ primes_sum[n] <= primes_sum[m]
<1>. DEFINE S == {m \in Nat : m <= Rows =>
                    \A n \in 0 .. m : primes_sum[n] \in Nat /\ primes_sum[n] <= primes_sum[m]}
<1>1. 0 \in S
  <2>1. primes_sum[0] = 0
    BY SumIs, RowsOf
  <2>. QED BY <2>1
<1>2. ASSUME NEW m \in Nat, m \in S PROVE m + 1 \in S
  <2>. SUFFICES ASSUME m + 1 <= Rows, NEW n \in 0 .. (m + 1)
                PROVE  primes_sum[n] \in Nat /\ primes_sum[n] <= primes_sum[m + 1]
    OBVIOUS
  <2>1. \A k \in 0 .. m : primes_sum[k] \in Nat /\ primes_sum[k] <= primes_sum[m]
    BY <1>2, RowsOf
  <2>2. primes_sum[m + 1] = primes_sum[m] + Primes[m + 1]
    <3>1. m + 1 \in 0 .. Rows /\ m + 1 # 0 /\ (m + 1) - 1 = m
      BY RowsOf
    <3>. QED BY <3>1, SumIs
  <2>3. Primes[m + 1] \in Nat
    BY RowsOf
  <2>4. primes_sum[m] \in Nat
    BY <2>1
  <2>5. CASE n \in 0 .. m
    BY <2>1, <2>2, <2>3, <2>4, <2>5
  <2>6. CASE n = m + 1
    BY <2>2, <2>3, <2>4, <2>6
  <2>. QED BY <2>5, <2>6
<1>. HIDE DEF S
<1>3. Nat \subseteq S
  BY <1>1, <1>2, Induction
<1>. QED BY <1>3, RowsOf DEF S

\* What is left of a division is smaller than the divisor.
LEMMA Remainder ==
  ASSUME NEW k \in Nat, NEW n \in Nat, n >= 1
  PROVE  k % n \in Nat /\ k % n < n
OBVIOUS

\* The slot find looks at is one, in every row.
LEMMA FindSlotIsSlot ==
  ASSUME NEW row \in 0 .. Rows, row < Rows, NEW k \in Keys
  PROVE  FindSlot(row, k) \in Slots
<1>1. k \in Nat /\ row + 1 \in 1 .. Rows
  BY HashtableAssumption, RowsOf
<1>. DEFINE n == Primes[row + 1]  rest == k % n
<1>2. n \in Nat /\ n >= 1
  BY <1>1, RowsOf
<1>3. rest \in Nat /\ rest < n
  BY <1>1, <1>2, Remainder
<1>4. primes_sum[row + 1] = primes_sum[row] + n
  <2>1. row + 1 \in 0 .. Rows /\ row + 1 # 0 /\ (row + 1) - 1 = row
    BY <1>1, RowsOf
  <2>. QED BY <2>1, SumIs
<1>5. /\ primes_sum[row] \in Nat /\ primes_sum[row + 1] \in Nat
      /\ primes_sum[Rows] \in Nat /\ primes_sum[row + 1] <= primes_sum[Rows]
  <2>1. Rows \in 0 .. Rows /\ row + 1 \in 0 .. Rows /\ row \in 0 .. Rows
    BY <1>1, RowsOf
  <2>. QED BY <2>1, SumsGrow
<1>6. RowOffset(row) \in Nat /\ RowOffset(row) <= primes_sum[row]
  <2>1. CASE row = 0
    BY <2>1, <1>5 DEF RowOffset
  <2>2. CASE row # 0
    <3>1. row - 1 \in 0 .. row
      BY <2>2
    <3>2. primes_sum[row - 1] \in Nat /\ primes_sum[row - 1] <= primes_sum[row]
      BY <3>1, SumsGrow
    <3>. QED BY <2>2, <3>2 DEF RowOffset
  <2>. QED BY <2>1, <2>2
<1>7. FindSlot(row, k) = RowOffset(row) + rest
  BY DEF FindSlot
<1>. DEFINE offset == RowOffset(row)  last == primes_sum[Rows]  below == primes_sum[row]
            above == primes_sum[row + 1]
<1>8. /\ offset \in Nat /\ offset <= below /\ above = below + n /\ above <= last
      /\ below \in Nat /\ above \in Nat /\ last \in Nat
  BY <1>4, <1>5, <1>6
<1>. HIDE DEF n, rest, offset, last, below, above
<1>9. offset + rest \in 0 .. (last - 1)
  BY <1>2, <1>3, <1>8
<1>. QED BY <1>7, <1>9 DEF Slots, offset, last

\* In row 0 it is where insert puts the key.
LEMMA HomeIsSlot ==
  ASSUME NEW k \in Keys
  PROVE  Home(k) \in Slots /\ FindSlot(0, k) = Home(k)
<1>1. k \in Nat /\ Primes[1] \in Nat /\ Primes[1] >= 1
  BY HashtableAssumption, RowsOf
<1>2. Home(k) \in Nat
  BY <1>1, Remainder DEF Home
<1>3. FindSlot(0, k) = Home(k)
  BY <1>2 DEF FindSlot, RowOffset, Home
<1>4. FindSlot(0, k) \in Slots
  BY FindSlotIsSlot, RowsOf
<1>. QED BY <1>3, <1>4

\* There are finitely many slots, and 0 is one.
LEMMA SlotsOf == 0 \in Slots /\ IsFiniteSet(Slots)
<1>1. Rows \in 0 .. Rows /\ 1 \in 0 .. Rows /\ 1 - 1 = 0
  BY RowsOf
<1>2. primes_sum[Rows] \in Nat /\ primes_sum[1] \in Nat /\ primes_sum[1] <= primes_sum[Rows]
  BY <1>1, SumsGrow
<1>3. primes_sum[1] = primes_sum[0] + Primes[1] /\ primes_sum[0] = 0
  BY <1>1, SumIs, RowsOf
<1>4. primes_sum[Rows] >= 1
  BY <1>2, <1>3, RowsOf
<1>5. IsFiniteSet(0 .. (primes_sum[Rows] - 1))
  BY <1>2, FS_Interval
<1>. QED BY <1>2, <1>4, <1>5 DEF Slots

-------------------------------------------------------------------------------
(***************************************************************************)
(* The steps that look around and write nothing.                           *)
(***************************************************************************)
\* A step of p leaves the other processes where they are.
LEMMA Moved ==
  ASSUME Types, NEW p \in Procs, NEW to \in Pcs, NEW o \in Ops, Step(p, to, o)
  PROVE  /\ pc' \in [Procs -> Pcs] /\ op' \in [Procs -> Ops]
         /\ pc'[p] = to /\ op'[p] = o
         /\ \A q \in Procs \ {p} : pc'[q] = pc[q] /\ op'[q] = op[q]
BY DEF Types, Step

\* What keeps Always, when nothing but missed, count and p's own state changes.
LEMMA LooksAlways ==
  ASSUME Always, NEW p \in Procs, NEW to \in InOp \cup {"ready", "died"}, NEW o \in Ops,
         Step(p, to, o),
         UNCHANGED <<size, bucket_num, table, asked, ops, stored, overlapped, disturbed>>,
         count' \in Int, missed' \in BOOLEAN, pc[p] \in InOp,
         Fits(to, o),
         to \in Writing => bucket_num # 0,
         to = "copying" => o.slot = Home(o.key),
         o.name = "find" /\ o.sure => o.key \in stored
  PROVE  Always'
<1>. USE DEF Always
<1>a. to \in Pcs
  BY DEF Pcs
<1>b. /\ pc' \in [Procs -> Pcs] /\ op' \in [Procs -> Ops]
      /\ pc'[p] = to /\ op'[p] = o
      /\ \A q \in Procs \ {p} : pc'[q] = pc[q] /\ op'[q] = op[q]
  BY <1>a, Moved
<1>1. Types'
  BY <1>b DEF Types
<1>2. Named'
  BY <1>b DEF Named
<1>3. Uncreated'
  BY <1>b DEF Uncreated, InOp
<1>4. Asked'
  BY <1>b DEF Asked, InOp
<1>5. OneCreator' /\ Headless'
  BY <1>b DEF OneCreator, Headless, InOp, SettingUp
<1>6. Rowless'
  BY <1>b DEF Rowless
<1>7. AtHome'
  BY DEF AtHome, Home
<1>8. Aims'
  BY <1>b DEF Aims, Home
<1>9. SureIsStored'
  BY <1>b DEF SureIsStored
<1>. QED BY <1>1, <1>2, <1>3, <1>4, <1>5, <1>6, <1>7, <1>8, <1>9

\* What keeps InTurn.
LEMMA LooksInTurn ==
  ASSUME Always, InTurn, NEW p \in Procs, NEW to \in InOp \cup {"ready", "died"}, NEW o \in Ops,
         Step(p, to, o), UNCHANGED <<table, stored>>, pc[p] \in InOp,
         to \in InOp /\ o.name \in Updates => op[p].name \in Updates,
         to \in InOp /\ o.name = "remove" => op[p].name = "remove" /\ o.key = op[p].key,
         to = "copying" => Found(o),
         to = "finding" /\ o.name = "find" /\ o.sure => o.row = 0,
         ~missed'
  PROVE  InTurn'
<1>. USE DEF InTurn
<1>a. to \in Pcs
  BY DEF Pcs
<1>b. /\ pc'[p] = to /\ op'[p] = o
      /\ \A q \in Procs \ {p} : pc'[q] = pc[q] /\ op'[q] = op[q]
  BY <1>a, Moved DEF Always
<1>1. \A q \in Procs : Changes(q)' => Changes(q)
  BY <1>b DEF Changes
<1>2. OneChanges'
  BY <1>1 DEF OneChanges
<1>3. StoredIsThere'
  BY DEF StoredIsThere, Home
<1>4. StillSo'
  BY <1>b DEF StillSo, Found
<1>5. Removing'
  BY <1>b DEF Removing
<1>6. FirstRow'
  BY <1>b DEF FirstRow
<1>. QED BY <1>2, <1>3, <1>4, <1>5, <1>6

\* What keeps Undisturbed.
LEMMA LooksUndisturbed ==
  ASSUME Always, Undisturbed, NEW p \in Procs, NEW to \in InOp \cup {"ready", "died"},
         NEW o \in Ops, Step(p, to, o), UNCHANGED <<size, count, table>>, pc[p] \in InOp,
         to \in InOp /\ o.name \in Updates => op[p].name \in Updates,
         pc[p] \notin {"counting", "storing"}, to \notin {"counting", "storing"}
  PROVE  Undisturbed'
<1>. USE DEF Undisturbed
<1>a. to \in Pcs
  BY DEF Pcs
<1>b. /\ pc'[p] = to /\ op'[p] = o
      /\ \A q \in Procs \ {p} : pc'[q] = pc[q] /\ op'[q] = op[q]
  BY <1>a, Moved DEF Always
<1>1. \A q \in Procs : Changes(q)' => Changes(q)
  BY <1>b DEF Changes
<1>2. \A q \in Procs : pc'[q] \in SettingUp => pc[q] \in SettingUp
  BY <1>b DEF InOp, SettingUp
<1>3. Unborn'
  BY DEF Unborn, Empty
<1>4. SettingUpAlone'
  BY <1>1, <1>2 DEF SettingUpAlone, Empty
<1>5. Occupied' = Occupied
  BY DEF Occupied
<1>6. \A q \in Procs : /\ pc'[q] \in {"counting", "storing"} <=> pc[q] \in {"counting", "storing"}
                       /\ pc'[q] = "storing" <=> pc[q] = "storing"
  BY <1>b
<1>7. \A q \in Procs : pc[q] \in {"counting", "storing"} => op'[q] = op[q]
  BY <1>b
<1>8. Recounted'
  BY <1>5, <1>6, <1>7 DEF Recounted, Due
<1>. QED BY <1>3, <1>4, <1>8

\* All three.
LEMMA Looks ==
  ASSUME IInv, NEW p \in Procs, NEW to \in {"finding", "placing", "copying", "ready", "died"},
         NEW o \in Ops, Step(p, to, o),
         UNCHANGED <<head, table, asked, ops, stored, overlapped, disturbed>>,
         missed' \in BOOLEAN, pc[p] \in {"finding", "placing", "copying"},
         Fits(to, o),
         to = "copying" => bucket_num # 0 /\ o.slot = Home(o.key),
         o.name = "find" /\ o.sure => o.key \in stored,
         to \in InOp /\ o.name \in Updates => op[p].name \in Updates,
         to \in InOp /\ o.name = "remove" => op[p].name = "remove" /\ o.key = op[p].key,
         ~overlapped => /\ to = "copying" => Found(o)
                        /\ to = "finding" /\ o.name = "find" /\ o.sure => o.row = 0
                        /\ ~missed'
  PROVE  IInv'
<1>. USE DEF IInv
<1>1. /\ to \in InOp \cup {"ready", "died"} /\ pc[p] \in InOp
      /\ to \notin {"counting", "storing"} /\ pc[p] \notin {"counting", "storing"}
      /\ to \in Writing => to = "copying"
  BY DEF InOp, Writing
<1>2. Always'
  <2>1. count' \in Int /\ UNCHANGED <<size, bucket_num>>
    BY DEF head, Always, Types
  <2>. QED BY <1>1, <2>1, LooksAlways
<1>3. ~overlapped' => InTurn'
  <2>. SUFFICES ASSUME ~overlapped PROVE InTurn'
    OBVIOUS
  <2>. QED BY <1>1, LooksInTurn
<1>4. ~overlapped' /\ ~disturbed' => Undisturbed'
  <2>. SUFFICES ASSUME ~overlapped, ~disturbed PROVE Undisturbed'
    OBVIOUS
  <2>1. UNCHANGED <<size, count, table>>
    BY DEF head
  <2>. QED BY <1>1, <2>1, LooksUndisturbed
<1>. QED BY <1>2, <1>3, <1>4

\* A process that is done has no operation.
LEMMA IdleIsOp == Idle \in Ops
BY SlotsOf, RowsOf DEF Idle, Ops

\* The parts of an operation.
LEMMA OpIs ==
  ASSUME Types, NEW p \in Procs
  PROVE  /\ op[p] \in Ops
         /\ \A r \in 0 .. Rows :
              /\ [op[p] EXCEPT !.row = r] \in Ops
              /\ [op[p] EXCEPT !.name = "insert", !.row = r] \in Ops
         /\ \A s \in Slots : [op[p] EXCEPT !.slot = s] \in Ops
         /\ \A c \in Int : [op[p] EXCEPT !.seen = c] \in Ops
         /\ op[p].row \in 0 .. Rows /\ op[p].slot \in Slots /\ op[p].seen \in Int
<1>1. op[p] \in Ops
  BY DEF Types
<1>. QED BY <1>1 DEF Ops, Updates

\* What is said of an operation that is over.
LEMMA Over ==
  ASSUME IInv, NEW p \in Procs, Step(p, "ready", Idle),
         UNCHANGED <<head, table, asked, history>>,
         pc[p] \in {"finding", "placing"}
  PROVE  IInv'
<1>1. /\ Fits("ready", Idle) /\ "ready" \notin InOp
      /\ ~Idle.sure
  BY DEF Fits, Idle, InOp
<1>2. ~overlapped => ~missed
  BY DEF IInv, InTurn
<1>3. missed \in BOOLEAN
  BY DEF IInv, Always, Types
<1>4. /\ UNCHANGED <<head, table, asked, ops, stored, overlapped, disturbed>>
      /\ missed' = missed
  BY DEF history
<1>. QED BY <1>1, <1>2, <1>3, <1>4, IdleIsOp, Looks

\* FindRow: the loop of find.
LEMMA FindRowStep ==
  ASSUME IInv, NEW p \in Procs, FindRow(p)
  PROVE  IInv'
<1>. DEFINE o == op[p]  s == FindSlot(o.row, o.key)
<1>a. /\ pc[p] = "finding" /\ o.row < bucket_num
      /\ UNCHANGED <<head, table, asked, history>>
  BY DEF FindRow
<1>b. Always /\ Types /\ Named
  BY DEF IInv, Always
<1>c. o.key \in Keys /\ o.name \in Finds
  BY <1>a, <1>b DEF Named, Fits, InOp
<1>d. bucket_num # 0 /\ o.row \in 0 .. Rows /\ o.row < Rows
  <2>1. o.row \in 0 .. Rows /\ bucket_num \in {0, Rows}
    BY <1>b, OpIs DEF Types
  <2>. QED BY <2>1, <1>a
<1>e. s \in Slots
  BY <1>c, <1>d, FindSlotIsSlot
<1>f. o.key # 0
  BY <1>c, HashtableAssumption
<1>g. o.name = "find" /\ o.sure => o.key \in stored
  BY DEF IInv, Always, SureIsStored
<1>h. ~overlapped => ~missed
  BY DEF IInv, InTurn
<1>i. missed \in BOOLEAN
  BY <1>b DEF Types
<1>j. /\ UNCHANGED <<head, table, asked, ops, stored, overlapped, disturbed>>
      /\ missed' = missed
  BY <1>a DEF history
<1>1. CASE table[s] # o.key /\ NextRow(p) /\ UNCHANGED pc
  <2>. DEFINE n == [o EXCEPT !.row = o.row + 1]
  <2>1. n \in Ops
    <3>1. o.row + 1 \in 0 .. Rows
      BY <1>d, RowsOf
    <3>. QED BY <3>1, <1>b, OpIs
  <2>2. Step(p, "finding", n)
    BY <1>1, <1>a, <1>b DEF NextRow, Step, Types
  <2>3. n.name = o.name /\ n.key = o.key /\ n.sure = o.sure
    BY <1>b, OpIs DEF Ops
  <2>4. Fits("finding", n)
    BY <2>3, <1>c DEF Fits
  <2>5. ~overlapped => ~(o.name = "find" /\ o.sure)
    <3>1. SUFFICES ASSUME ~overlapped, o.name = "find", o.sure PROVE FALSE
      OBVIOUS
    <3>2. o.row = 0 /\ table[Home(o.key)] = o.key
      BY <3>1, <1>a, <1>g DEF IInv, InTurn, FirstRow, StoredIsThere
    <3>3. s = Home(o.key)
      BY <3>2, <1>c, HomeIsSlot
    <3>. QED BY <3>2, <3>3, <1>1
  <2>. HIDE DEF n
  <2>. QED BY <1>a, <1>g, <1>h, <1>i, <1>j, <2>1, <2>2, <2>3, <2>4, <2>5, Looks
<1>2. CASE table[s] = o.key /\ o.name \in {"update", "remove"}
           /\ Step(p, "copying", [o EXCEPT !.slot = s])
  <2>. DEFINE n == [o EXCEPT !.slot = s]
  <2>1. n \in Ops
    BY <1>b, <1>e, OpIs
  <2>2. n.name = o.name /\ n.key = o.key /\ n.sure = o.sure /\ n.slot = s
    BY <1>b, OpIs DEF Ops
  <2>3. Fits("copying", n)
    BY <2>2, <1>2, <1>c DEF Fits, Updates
  <2>4. n.slot = Home(n.key)
    BY <2>2, <1>2, <1>e, <1>f DEF IInv, Always, AtHome
  <2>5. Found(n)
    BY <2>2, <1>2 DEF Found
  <2>. HIDE DEF n
  <2>6. Step(p, "copying", n)
    BY <1>2 DEF n
  <2>7. n.name # "find"
    BY <2>2, <1>2
  <2>. QED BY <1>a, <1>d, <1>h, <1>i, <1>j, <2>1, <2>2, <2>3, <2>4, <2>5, <2>6, <2>7, Looks
<1>3. CASE table[s] = o.key /\ o.name \notin {"update", "remove"} /\ Step(p, "ready", Idle)
  BY <1>3, <1>a, Over
<1>. QED BY <1>1, <1>2, <1>3 DEF FindRow

\* FindEnds: a find of which the key is in the table does not get there.
LEMMA FindEndsStep ==
  ASSUME IInv, NEW p \in Procs, FindEnds(p)
  PROVE  IInv'
<1>. DEFINE o == op[p]
<1>a. /\ pc[p] = "finding" /\ o.row >= bucket_num
      /\ missed' = (missed \/ (o.name = "find" /\ o.sure))
      /\ UNCHANGED <<head, table, asked, ops, stored, overlapped, disturbed>>
  BY DEF FindEnds
<1>b. Always /\ Types /\ Named
  BY DEF IInv, Always
<1>c. o.key \in Keys /\ o.name \in Finds
  BY <1>a, <1>b DEF Named, Fits, InOp
<1>g. o.name = "find" /\ o.sure => o.key \in stored
  BY DEF IInv, Always, SureIsStored
<1>h. ~overlapped => ~missed /\ ~(o.name = "find" /\ o.sure)
  <2>. SUFFICES ASSUME ~overlapped PROVE ~missed /\ ~(o.name = "find" /\ o.sure)
    OBVIOUS
  <2>1. ~missed
    BY DEF IInv, InTurn
  <2>2. SUFFICES ASSUME o.name = "find", o.sure PROVE FALSE
    BY <2>1
  <2>3. o.row = 0
    BY <2>2, <1>a DEF IInv, InTurn, FirstRow
  <2>4. bucket_num # 0
    BY <2>2, <1>g DEF IInv, Always, Rowless
  <2>5. bucket_num = Rows /\ Rows >= 1 /\ Rows \in Nat
    BY <2>4, <1>b, RowsOf DEF Types
  <2>. QED BY <2>3, <2>5, <1>a
<1>i. missed' \in BOOLEAN
  BY <1>a
<1>j. ~overlapped => ~missed'
  BY <1>a, <1>h
<1>1. CASE o.name \in {"insert", "update"}
           /\ Step(p, "placing", [o EXCEPT !.name = "insert", !.row = 0])
  <2>. DEFINE n == [o EXCEPT !.name = "insert", !.row = 0]
  <2>1. n \in Ops
    <3>1. 0 \in 0 .. Rows
      BY RowsOf
    <3>. QED BY <3>1, <1>b, OpIs
  <2>2. n.name = "insert" /\ n.key = o.key
    BY <1>b, OpIs DEF Ops
  <2>3. Fits("placing", n)
    BY <2>2, <1>c DEF Fits
  <2>4. o.name \in Updates
    BY <1>1 DEF Updates
  <2>. HIDE DEF n
  <2>5. Step(p, "placing", n)
    BY <1>1 DEF n
  <2>. QED BY <1>a, <1>i, <1>j, <2>1, <2>2, <2>3, <2>4, <2>5, Looks
<1>2. CASE Step(p, "ready", Idle)
  <2>1. Fits("ready", Idle) /\ "ready" \notin InOp /\ ~Idle.sure
    BY DEF Fits, Idle, InOp
  <2>. QED BY <1>2, <2>1, <1>a, <1>i, <1>j, IdleIsOp, Looks
<1>. QED BY <1>1, <1>2 DEF FindEnds

\* PlaceRow: the slot it takes is free, and the key's home.
LEMMA PlaceRowStep ==
  ASSUME IInv, NEW p \in Procs, PlaceRow(p)
  PROVE  IInv'
<1>. DEFINE o == op[p]  s == o.key % Primes[1]
<1>a. /\ pc[p] = "placing" /\ o.row < bucket_num
      /\ UNCHANGED <<head, table, asked, history>>
  BY DEF PlaceRow
<1>b. Always /\ Types /\ Named
  BY DEF IInv, Always
<1>c. o.key \in Keys /\ o.name \in {"insert", "insert_onlyonce"} /\ o.name \in Updates
  BY <1>a, <1>b DEF Named, Fits, InOp, Updates
<1>d. bucket_num # 0 /\ o.row \in 0 .. Rows /\ o.row < Rows
  <2>1. o.row \in 0 .. Rows /\ bucket_num \in {0, Rows}
    BY <1>b, OpIs DEF Types
  <2>. QED BY <2>1, <1>a
<1>e. s = Home(o.key) /\ s \in Slots
  BY <1>c, HomeIsSlot DEF Home
<1>h. ~overlapped => ~missed
  BY DEF IInv, InTurn
<1>i. missed \in BOOLEAN
  BY <1>b DEF Types
<1>j. /\ UNCHANGED <<head, table, asked, ops, stored, overlapped, disturbed>>
      /\ missed' = missed
  BY <1>a DEF history
<1>k. o.name # "find" /\ o.name # "remove" /\ o.name # "update"
  BY <1>c
<1>1. CASE Step(p, "died", o)
  <2>1. Fits("died", o) /\ "died" \notin InOp
    BY DEF Fits, InOp
  <2>2. o \in Ops
    BY <1>b, OpIs
  <2>. QED BY <1>1, <2>1, <2>2, <1>a, <1>h, <1>i, <1>j, <1>k, Looks
<1>2. CASE NextRow(p) /\ UNCHANGED pc
  <2>. DEFINE n == [o EXCEPT !.row = o.row + 1]
  <2>1. n \in Ops
    <3>1. o.row + 1 \in 0 .. Rows
      BY <1>d, RowsOf
    <3>. QED BY <3>1, <1>b, OpIs
  <2>2. Step(p, "placing", n)
    BY <1>2, <1>a, <1>b DEF NextRow, Step, Types
  <2>3. n.name = o.name /\ n.key = o.key
    BY <1>b, OpIs DEF Ops
  <2>4. Fits("placing", n)
    BY <2>3, <1>c DEF Fits
  <2>. HIDE DEF n
  <2>. QED BY <1>a, <1>c, <1>h, <1>i, <1>j, <1>k, <2>1, <2>2, <2>3, <2>4, Looks
<1>3. CASE table[s] = 0 /\ Step(p, "copying", [o EXCEPT !.slot = s])
  <2>. DEFINE n == [o EXCEPT !.slot = s]
  <2>1. n \in Ops
    BY <1>b, <1>e, OpIs
  <2>2. n.name = o.name /\ n.key = o.key /\ n.slot = s
    BY <1>b, OpIs DEF Ops
  <2>3. Fits("copying", n)
    BY <2>2, <1>c DEF Fits
  <2>4. n.slot = Home(n.key)
    BY <2>2, <1>e
  <2>5. Found(n)
    BY <2>2, <1>3, <1>k DEF Found
  <2>. HIDE DEF n
  <2>6. Step(p, "copying", n)
    BY <1>3 DEF n
  <2>. QED BY <1>a, <1>c, <1>d, <1>h, <1>i, <1>j, <1>k, <2>1, <2>2, <2>3, <2>4, <2>5, <2>6, Looks
<1>. QED BY <1>1, <1>2, <1>3 DEF PlaceRow

\* PlaceEnds: no room.
LEMMA PlaceEndsStep ==
  ASSUME IInv, NEW p \in Procs, PlaceEnds(p)
  PROVE  IInv'
BY Over DEF PlaceEnds

-------------------------------------------------------------------------------
(***************************************************************************)
(* The steps that write the table or its count.                            *)
(***************************************************************************)
\* Whoever writes changes the table.
LEMMA WritingChanges ==
  ASSUME Types, Named, NEW p \in Procs, pc[p] \in Writing
  PROVE  Changes(p)
BY DEF Named, Fits, Writing, Changes, InOp

\* Taking turns: while p writes no other process changes anything.
LEMMA NobodyElse ==
  ASSUME Types, Named, OneChanges, NEW p \in Procs, pc[p] \in Writing
  PROVE  \A q \in Procs \ {p} : ~Changes(q) /\ pc[q] \notin Writing
<1>1. Changes(p)
  BY WritingChanges
<1>2. \A q \in Procs \ {p} : ~Changes(q)
  BY <1>1 DEF OneChanges
<1>. QED BY <1>2, WritingChanges

\* Copy: to the key's home, which is free or holds the key.
LEMMA CopyStep ==
  ASSUME IInv, NEW p \in Procs, Copy(p)
  PROVE  IInv'
<1>. DEFINE o == op[p]  s == o.slot  v == IF o.name = "remove" THEN 0 ELSE o.key
<1>a. /\ pc[p] = "copying"
      /\ table' = [table EXCEPT ![s] = v]
      /\ stored' = IF o.name = "remove" THEN stored ELSE stored \cup {o.key}
      /\ UNCHANGED <<head, asked, ops, missed, overlapped, disturbed>>
  BY DEF Copy
<1>b. Always /\ Types /\ Named
  BY DEF IInv, Always
<1>c. /\ o.key \in Keys /\ o.key # 0 /\ o.name \in Updates /\ o.name # "find"
      /\ s = Home(o.key) /\ s \in Slots
  <2>1. o.key \in Keys /\ o.name \in Updates
    BY <1>a, <1>b DEF Named, Fits, InOp
  <2>2. s = Home(o.key) /\ s \in Slots
    BY <1>a, <1>b, OpIs DEF Always, Aims
  <2>. QED BY <2>1, <2>2, HashtableAssumption DEF Updates
<1>d. PICK to \in {"ready", "counting"}, n \in Ops :
        /\ Step(p, to, n)
        /\ to = "ready" => n = Idle /\ o.name = "update"
        /\ to = "counting" => n = o /\ o.name # "update"
  <2>1. CASE o.name = "update"
    BY <2>1, IdleIsOp DEF Copy
  <2>2. CASE o.name # "update"
    <3>1. Step(p, "counting", o)
      BY <2>2, <1>b DEF Copy, Step, Types
    <3>. QED BY <2>2, <3>1, <1>b, OpIs
  <2>. QED BY <2>1, <2>2
<1>e. /\ pc' \in [Procs -> Pcs] /\ op' \in [Procs -> Ops]
      /\ pc'[p] = to /\ op'[p] = n
      /\ \A q \in Procs \ {p} : pc'[q] = pc[q] /\ op'[q] = op[q]
  <2>1. to \in Pcs
    BY DEF Pcs, InOp
  <2>. QED BY <1>b, <1>d, <2>1, Moved
<1>f. /\ table' \in [Slots -> Keys \cup {0}] /\ table'[s] = v
      /\ \A t \in Slots \ {s} : table'[t] = table[t]
  BY <1>a, <1>b, <1>c DEF Types
<1>g. UNCHANGED <<size, bucket_num, count, asked, ops, missed, overlapped, disturbed>>
  BY <1>a DEF head
<1>h. pc[p] \in Writing /\ Changes(p)
  BY <1>a, <1>b, WritingChanges DEF Writing
<1>i. ~Idle.sure /\ Idle.name = "none"
  BY DEF Idle
<1>1. Always'
  <2>1. stored' \subseteq Keys /\ stored \subseteq stored'
    BY <1>a, <1>b, <1>c DEF Types
  <2>2. Types'
    BY <2>1, <1>b, <1>e, <1>f, <1>g DEF Types
  <2>3. Fits(to, n)
    BY <1>c, <1>d DEF Fits, InOp, Updates
  <2>4. Named'
    BY <2>3, <1>b, <1>e DEF Named
  <2>5. Uncreated'
    BY <1>a, <1>b, <1>e, <1>g DEF Always, Uncreated
  <2>6. Asked'
    BY <1>a, <1>b, <1>e, <1>g DEF Always, Asked
  <2>7. OneCreator' /\ Headless'
    BY <1>b, <1>e, <1>g DEF Always, OneCreator, Headless, SettingUp
  <2>8. bucket_num # 0
    BY <1>b, <1>h DEF Always, Rowless
  <2>9. Rowless'
    BY <2>8, <1>g DEF Rowless
  <2>10. AtHome'
    BY <1>b, <1>c, <1>f DEF Always, AtHome, Home
  <2>11. Aims'
    BY <1>b, <1>e DEF Always, Aims, Home
  <2>12. SureIsStored'
    BY <2>1, <1>b, <1>c, <1>d, <1>e, <1>i DEF Always, SureIsStored
  <2>. QED BY <2>2, <2>4, <2>5, <2>6, <2>7, <2>9, <2>10, <2>11, <2>12 DEF Always
<1>2. ~overlapped => InTurn'
  <2>. SUFFICES ASSUME ~overlapped PROVE InTurn'
    OBVIOUS
  <2>a. InTurn
    BY DEF IInv
  <2>b. \A q \in Procs \ {p} : ~Changes(q) /\ pc[q] \notin Writing
    BY <2>a, <1>b, <1>h, NobodyElse DEF InTurn
  <2>c. Found(o)
    BY <2>a, <1>a DEF InTurn, StillSo
  <2>1. \A q \in Procs : Changes(q)' => q = p
    BY <2>b, <1>e DEF Changes
  <2>2. OneChanges'
    BY <2>1 DEF OneChanges
  <2>3. StoredIsThere'
    <3>. SUFFICES ASSUME NEW k \in stored' PROVE table'[Home(k)] = k
      BY DEF StoredIsThere, Home
    <3>1. k \in Keys /\ Home(k) \in Slots /\ k # 0
      BY <1>a, <1>b, <1>c, HomeIsSlot, HashtableAssumption DEF Types
    <3>2. CASE k = o.key
      <4>1. o.name # "remove"
        BY <3>2, <2>a, <1>a DEF InTurn, Removing, InOp
      <4>. QED BY <3>2, <4>1, <1>c, <1>f
    <3>3. CASE k # o.key
      <4>1. k \in stored /\ table[Home(k)] = k
        BY <3>3, <2>a, <1>a DEF InTurn, StoredIsThere
      <4>2. Home(k) # s
        BY <4>1, <3>1, <3>3, <2>c DEF Found
      <4>. QED BY <4>1, <4>2, <3>1, <1>f
    <3>. QED BY <3>2, <3>3
  <2>4. StillSo'
    BY <2>b, <1>e DEF StillSo, Writing
  <2>5. Removing'
    <3>1. ASSUME NEW q \in Procs, pc'[q] \in InOp, op'[q].name = "remove"
          PROVE  op'[q].key \notin stored'
      <4>1. q = p
        BY <3>1, <2>1 DEF Changes, Updates
      <4>2. n = o /\ o.name = "remove"
        BY <3>1, <4>1, <1>d, <1>e, <1>i
      <4>3. o.key \notin stored
        BY <4>2, <2>a, <1>a DEF InTurn, Removing, InOp
      <4>. QED BY <4>1, <4>2, <4>3, <1>a, <1>e
    <3>. QED BY <3>1 DEF Removing
  <2>6. FirstRow'
    BY <2>a, <1>e DEF InTurn, FirstRow
  <2>7. ~missed'
    BY <2>a, <1>g DEF InTurn
  <2>. QED BY <2>2, <2>3, <2>4, <2>5, <2>6, <2>7 DEF InTurn
<1>3. ~overlapped /\ ~disturbed => Undisturbed'
  <2>. SUFFICES ASSUME ~overlapped, ~disturbed PROVE Undisturbed'
    OBVIOUS
  <2>a. InTurn /\ Undisturbed
    BY DEF IInv
  <2>b. \A q \in Procs \ {p} : ~Changes(q) /\ pc[q] \notin Writing
    BY <2>a, <1>b, <1>h, NobodyElse DEF InTurn
  <2>c. Found(o)
    BY <2>a, <1>a DEF InTurn, StillSo
  <2>1. Unborn'
    BY <1>a, <1>b, <1>g DEF Always, Uncreated, Unborn
  <2>2. \A q \in Procs : pc'[q] \notin SettingUp
    <3>1. \A q \in Procs : pc[q] \notin SettingUp
      BY <2>a, <1>h DEF Undisturbed, SettingUpAlone
    <3>. QED BY <3>1, <1>e DEF SettingUp
  <2>3. SettingUpAlone'
    BY <2>2 DEF SettingUpAlone
  <2>4. \A q \in Procs : pc[q] \notin {"counting", "storing"}
    BY <2>b, <1>a DEF Writing
  <2>5. Cardinality(Occupied) = count /\ count \in Int
    BY <2>a, <2>4, <1>b DEF Undisturbed, Recounted, Types
  <2>6. \A q \in Procs : pc'[q] # "storing" /\ (pc'[q] \in {"counting", "storing"} => q = p)
    BY <2>4, <1>e
  <2>7. IsFiniteSet(Occupied)
    <3>1. Occupied \subseteq Slots
      BY DEF Occupied
    <3>. QED BY <3>1, SlotsOf, FS_Subset
  <2>8. CASE o.name = "update"
    <3>1. \A t \in Slots : table'[t] = table[t]
      BY <2>8, <2>c, <1>c, <1>f DEF Found
    <3>2. Occupied' = Occupied
      BY <3>1 DEF Occupied
    <3>3. \A q \in Procs : pc'[q] \notin {"counting", "storing"}
      BY <2>8, <2>6, <1>d, <1>e
    <3>4. Recounted'
      BY <3>2, <3>3, <2>5, <1>g DEF Recounted
    <3>. QED BY <2>1, <2>3, <3>4 DEF Undisturbed
  <2>9. CASE o.name = "remove"
    <3>1. pc'[p] = "counting" /\ op'[p] = o
      BY <2>9, <1>d, <1>e
    <3>2. s \in Occupied /\ Occupied' = Occupied \ {s}
      BY <2>9, <2>c, <1>c, <1>f DEF Found, Occupied
    <3>3. Cardinality(Occupied') = Cardinality(Occupied) - 1
      BY <3>2, <2>7, FS_RemoveElement
    <3>4. Due(p)' = count - 1
      BY <2>9, <3>1, <1>g DEF Due
    <3>5. Recounted'
      BY <3>1, <3>3, <3>4, <2>5, <2>6 DEF Recounted
    <3>. QED BY <2>1, <2>3, <3>5 DEF Undisturbed
  <2>10. CASE o.name \notin {"update", "remove"}
    <3>1. pc'[p] = "counting" /\ op'[p] = o
      BY <2>10, <1>d, <1>e
    <3>2. s \notin Occupied /\ Occupied' = Occupied \cup {s}
      BY <2>10, <2>c, <1>c, <1>f DEF Found, Occupied
    <3>3. Cardinality(Occupied') = Cardinality(Occupied) + 1
      BY <3>2, <2>7, FS_AddElement
    <3>4. Due(p)' = count + 1
      BY <2>10, <3>1, <1>g DEF Due
    <3>5. Recounted'
      BY <3>1, <3>3, <3>4, <2>5, <2>6 DEF Recounted
    <3>. QED BY <2>1, <2>3, <3>5 DEF Undisturbed
  <2>. QED BY <2>8, <2>9, <2>10
<1>4. overlapped' = overlapped /\ disturbed' = disturbed
  BY <1>g
<1>. QED BY <1>1, <1>2, <1>3, <1>4 DEF IInv

\* ReadCount: what is read stays so until it is written back.
LEMMA ReadCountStep ==
  ASSUME IInv, NEW p \in Procs, ReadCount(p)
  PROVE  IInv'
<1>. DEFINE o == op[p]  n == [o EXCEPT !.seen = count]
<1>a. /\ pc[p] = "counting" /\ pc[p] \in InOp /\ pc[p] \in Writing
      /\ UNCHANGED <<size, bucket_num, count, table, asked, history>>
  BY DEF ReadCount, Goes, InOp, Writing, head
<1>b. Always /\ Types /\ Named
  BY DEF IInv, Always
<1>c. o.key \in Keys /\ o.name \in Updates \ {"update"} /\ o.name # "find"
  BY <1>a, <1>b DEF Named, Fits, Updates
<1>d. n \in Ops /\ n.name = o.name /\ n.key = o.key /\ n.seen = count
  <2>1. count \in Int
    BY <1>b DEF Types
  <2>. QED BY <2>1, <1>b, OpIs DEF Ops
<1>e. Step(p, "storing", n)
  BY <1>b DEF ReadCount, Goes, Step, Types
<1>f. /\ UNCHANGED <<ops, stored, overlapped, disturbed>> /\ missed' = missed
      /\ missed \in BOOLEAN /\ count' \in Int
  BY <1>a, <1>b DEF history, Types
<1>g. "storing" \in InOp /\ "storing" \in Pcs
  BY DEF Pcs, InOp
<1>h. Fits("storing", n)
  BY <1>c, <1>d DEF Fits
<1>i. bucket_num # 0
  BY <1>a, <1>b DEF Always, Rowless
<1>. HIDE DEF n
<1>1. Always'
  BY <1>a, <1>b, <1>c, <1>d, <1>e, <1>f, <1>g, <1>h, <1>i, LooksAlways
<1>2. ~overlapped => InTurn'
  <2>. SUFFICES ASSUME ~overlapped PROVE InTurn'
    OBVIOUS
  <2>1. InTurn /\ ~missed
    BY DEF IInv, InTurn
  <2>. QED BY <2>1, <1>a, <1>b, <1>c, <1>d, <1>e, <1>f, <1>g, LooksInTurn
<1>3. ~overlapped /\ ~disturbed => Undisturbed'
  <2>. SUFFICES ASSUME ~overlapped, ~disturbed PROVE Undisturbed'
    OBVIOUS
  <2>a. InTurn /\ Undisturbed
    BY DEF IInv
  <2>b. \A q \in Procs \ {p} : ~Changes(q) /\ pc[q] \notin Writing
    BY <2>a, <1>a, <1>b, NobodyElse DEF InTurn
  <2>c. /\ pc'[p] = "storing" /\ op'[p] = n
        /\ \A q \in Procs \ {p} : pc'[q] = pc[q] /\ op'[q] = op[q]
    BY <1>b, <1>d, <1>e, <1>g, Moved
  <2>1. Unborn'
    BY <2>a, <1>a DEF Undisturbed, Unborn, Empty
  <2>2. \A q \in Procs : pc'[q] \notin SettingUp
    <3>1. Changes(p)
      BY <1>a, <1>b, WritingChanges
    <3>2. \A q \in Procs : pc[q] \notin SettingUp
      BY <2>a, <3>1 DEF Undisturbed, SettingUpAlone
    <3>. QED BY <3>2, <2>c DEF SettingUp
  <2>3. SettingUpAlone'
    BY <2>2 DEF SettingUpAlone
  <2>4. Occupied' = Occupied /\ Cardinality(Occupied) = Due(p)
    BY <2>a, <1>a DEF Undisturbed, Recounted, Occupied
  <2>5. \A q \in Procs : pc'[q] \in {"counting", "storing"} => q = p
    BY <2>b, <2>c DEF Writing
  <2>6. Due(p)' = Due(p)
    BY <2>c, <1>a, <1>d DEF Due
  <2>7. Recounted'
    BY <2>4, <2>5, <2>6, <2>c, <1>a, <1>d DEF Recounted
  <2>. QED BY <2>1, <2>3, <2>7 DEF Undisturbed
<1>. QED BY <1>1, <1>2, <1>3, <1>f DEF IInv

\* StoreCount: and then count is right again.
LEMMA StoreCountStep ==
  ASSUME IInv, NEW p \in Procs, StoreCount(p)
  PROVE  IInv'
<1>. DEFINE o == op[p]
<1>a. /\ pc[p] = "storing" /\ pc[p] \in InOp /\ pc[p] \in Writing
      /\ count' = Recount(o) /\ Step(p, "ready", Idle)
      /\ UNCHANGED <<size, bucket_num, table, asked, history>>
  BY DEF StoreCount, InOp, Writing
<1>b. Always /\ Types /\ Named
  BY DEF IInv, Always
<1>c. /\ UNCHANGED <<ops, stored, overlapped, disturbed>> /\ missed' = missed
      /\ missed \in BOOLEAN
  BY <1>a, <1>b DEF history, Types
<1>d. count' \in Int
  <2>1. o.seen \in Int
    BY <1>b, OpIs
  <2>2. count' = IF o.name = "remove" THEN o.seen - 1 ELSE o.seen + 1
    BY <1>a DEF Recount
  <2>. HIDE DEF o
  <2>. QED BY <2>1, <2>2
<1>e. Fits("ready", Idle) /\ "ready" \notin InOp /\ "ready" \notin Writing /\ ~Idle.sure
  BY DEF Fits, Idle, InOp, Writing
<1>1. Always'
  BY <1>a, <1>b, <1>c, <1>d, <1>e, IdleIsOp, LooksAlways
<1>2. ~overlapped => InTurn'
  <2>. SUFFICES ASSUME ~overlapped PROVE InTurn'
    OBVIOUS
  <2>1. InTurn /\ ~missed
    BY DEF IInv, InTurn
  <2>. QED BY <2>1, <1>a, <1>b, <1>c, <1>e, IdleIsOp, LooksInTurn
<1>3. ~overlapped /\ ~disturbed => Undisturbed'
  <2>. SUFFICES ASSUME ~overlapped, ~disturbed PROVE Undisturbed'
    OBVIOUS
  <2>a. InTurn /\ Undisturbed
    BY DEF IInv
  <2>b. \A q \in Procs \ {p} : ~Changes(q) /\ pc[q] \notin Writing
    BY <2>a, <1>a, <1>b, NobodyElse DEF InTurn
  <2>c. /\ pc'[p] = "ready"
        /\ \A q \in Procs \ {p} : pc'[q] = pc[q] /\ op'[q] = op[q]
    BY <1>a, <1>b, IdleIsOp, Moved DEF Pcs
  <2>1. Unborn'
    BY <1>a, <1>b DEF Always, Uncreated, Unborn
  <2>2. \A q \in Procs : pc'[q] \notin SettingUp
    <3>1. Changes(p)
      BY <1>a, <1>b, WritingChanges
    <3>2. \A q \in Procs : pc[q] \notin SettingUp
      BY <2>a, <3>1 DEF Undisturbed, SettingUpAlone
    <3>. QED BY <3>2, <2>c DEF SettingUp
  <2>3. SettingUpAlone'
    BY <2>2 DEF SettingUpAlone
  <2>4. Occupied' = Occupied /\ Cardinality(Occupied) = Due(p) /\ o.seen = count
    BY <2>a, <1>a DEF Undisturbed, Recounted, Occupied
  <2>5. count' = Due(p)
    BY <2>4, <1>a DEF Due, Recount
  <2>6. \A q \in Procs : pc'[q] \notin {"counting", "storing"}
    BY <2>b, <2>c DEF Writing
  <2>7. Recounted'
    BY <2>4, <2>5, <2>6 DEF Recounted
  <2>. QED BY <2>1, <2>3, <2>7 DEF Undisturbed
<1>. QED BY <1>1, <1>2, <1>3, <1>c DEF IInv

-------------------------------------------------------------------------------
(***************************************************************************)
(* The steps that begin an operation, and clear.                           *)
(***************************************************************************)
\* What an operation under way is about stays; it may become unsure.
LEMMA BeginsOf ==
  ASSUME Types, NEW p \in Procs, NEW name \in Updates \cup {"find"}, NEW key \in Keys,
         Begin(p, name, key)
  PROVE  LET n == [Idle EXCEPT !.name = name, !.key = key, !.sure = key \in stored]
         IN /\ op' \in [Procs -> Ops] /\ op'[p] = n
            /\ n.name = name /\ n.key = key /\ n.sure = (key \in stored) /\ n.row = 0
            /\ \A q \in Procs \ {p} :
                 /\ op'[q].name = op[q].name /\ op'[q].key = op[q].key
                 /\ op'[q].slot = op[q].slot /\ op'[q].row = op[q].row
                 /\ op'[q].seen = op[q].seen
                 /\ op'[q].sure => op[q].sure /\ (name = "remove" => op[q].key # key)
<1>. DEFINE n == [Idle EXCEPT !.name = name, !.key = key, !.sure = key \in stored]
<1>1. n \in Ops /\ n.name = name /\ n.key = key /\ n.sure = (key \in stored) /\ n.row = 0
  <2>. DEFINE sure == key \in stored
  <2>1. sure \in BOOLEAN
    OBVIOUS
  <2>. HIDE DEF sure
  <2>2. Idle \in Ops /\ Idle.row = 0
    BY IdleIsOp DEF Idle
  <2>3. n = [Idle EXCEPT !.name = name, !.key = key, !.sure = sure]
    BY DEF sure
  <2>. HIDE DEF n
  <2>5. n.name = name /\ n.key = key /\ n.row = 0
    BY <2>2, <2>3 DEF Ops
  <2>6. n.sure = sure
    BY <2>2, <2>3 DEF Ops
  <2>7. n \in Ops
    BY <2>1, <2>2, <2>3 DEF Ops
  <2>. QED BY <2>5, <2>6, <2>7 DEF sure
<1>. HIDE DEF n
<1>2. op' = [(IF name = "remove" THEN Unsure(key) ELSE op) EXCEPT ![p] = n]
  BY DEF Begin, n
<1>3. \A q \in Procs : op[q] \in Ops
  BY DEF Types
<1>4. CASE name = "remove"
  <2>1. /\ Unsure(key) \in [Procs -> Ops]
        /\ \A q \in Procs : /\ Unsure(key)[q].name = op[q].name /\ Unsure(key)[q].key = op[q].key
                            /\ Unsure(key)[q].slot = op[q].slot
                            /\ Unsure(key)[q].row = op[q].row /\ Unsure(key)[q].seen = op[q].seen
                            /\ Unsure(key)[q].sure => op[q].sure /\ op[q].key # key
    <3>1. ASSUME NEW q \in Procs
          PROVE  /\ [op[q] EXCEPT !.sure = FALSE] \in Ops
                 /\ [op[q] EXCEPT !.sure = FALSE].name = op[q].name
                 /\ [op[q] EXCEPT !.sure = FALSE].key = op[q].key
                 /\ [op[q] EXCEPT !.sure = FALSE].slot = op[q].slot
                 /\ [op[q] EXCEPT !.sure = FALSE].row = op[q].row
                 /\ [op[q] EXCEPT !.sure = FALSE].seen = op[q].seen
                 /\ ~[op[q] EXCEPT !.sure = FALSE].sure
      BY <1>3 DEF Ops
    <3>. QED BY <1>3, <3>1 DEF Unsure
  <2>2. op' = [Unsure(key) EXCEPT ![p] = n]
    BY <1>2, <1>4
  <2>. HIDE DEF Unsure
  <2>3. /\ op' \in [Procs -> Ops] /\ op'[p] = n
        /\ \A q \in Procs \ {p} : op'[q] = Unsure(key)[q]
    BY <1>1, <2>1, <2>2
  <2>. QED BY <1>1, <1>4, <2>1, <2>3 DEF n
<1>5. CASE name # "remove"
  <2>1. op' = [op EXCEPT ![p] = n]
    BY <1>2, <1>5
  <2>2. /\ op' \in [Procs -> Ops] /\ op'[p] = n
        /\ \A q \in Procs \ {p} : op'[q] = op[q]
    BY <1>1, <2>1 DEF Types
  <2>. QED BY <1>1, <1>5, <2>2 DEF n
<1>. QED BY <1>4, <1>5

\* Begin: a second change ends the turns, one while the table is set up disturbs.
LEMMA BeginStep ==
  ASSUME IInv, NEW p \in Procs, NEW name \in Updates \cup {"find"}, NEW key \in Keys,
         Begin(p, name, key)
  PROVE  IInv'
<1>. DEFINE n == [Idle EXCEPT !.name = name, !.key = key, !.sure = key \in stored]
            to == IF name \in Finds THEN "finding" ELSE "placing"
<1>b. Always /\ Types /\ Named
  BY DEF IInv, Always
<1>a. /\ pc[p] = "ready" /\ pc' = [pc EXCEPT ![p] = to]
      /\ stored' = IF name = "remove" THEN stored \ {key} ELSE stored
      /\ UNCHANGED <<size, bucket_num, count, table, asked, missed>>
  BY DEF Begin, head
<1>c. /\ op' \in [Procs -> Ops] /\ op'[p] = n
      /\ n.name = name /\ n.key = key /\ n.sure = (key \in stored) /\ n.row = 0
      /\ \A q \in Procs \ {p} :
           /\ op'[q].name = op[q].name /\ op'[q].key = op[q].key
           /\ op'[q].slot = op[q].slot /\ op'[q].row = op[q].row
           /\ op'[q].seen = op[q].seen
           /\ op'[q].sure => op[q].sure /\ (name = "remove" => op[q].key # key)
  BY <1>b, BeginsOf
<1>. HIDE DEF n
<1>d. /\ pc' \in [Procs -> Pcs] /\ pc'[p] = to
      /\ \A q \in Procs \ {p} : pc'[q] = pc[q]
  <2>1. to \in Pcs
    BY DEF Pcs, InOp
  <2>. QED BY <2>1, <1>a, <1>b DEF Types
<1>e. stored' \subseteq stored
  BY <1>a
<1>f. to \notin SettingUp /\ to \notin Writing /\ to \notin {"counting", "storing"}
        /\ to # "out" /\ to # "copying"
  BY DEF SettingUp, Writing
<1>g. overlapped' = (overlapped \/ (name \in Updates /\ \E q \in Procs : Changes(q)))
  BY DEF Begin
<1>h. disturbed' = (disturbed \/ (name \in Updates /\ \E q \in Procs : pc[q] \in SettingUp))
  BY DEF Begin
<1>i. \A q \in Procs \ {p} : Changes(q)' <=> Changes(q)
  BY <1>c, <1>d DEF Changes
<1>j. Changes(p)' => name \in Updates
  BY <1>c DEF Changes
<1>1. Always'
  <2>1. Types'
    <3>1. ops' \in 0 .. MaxOps
      <4>1. ops < MaxOps /\ ops' = ops + 1
        BY DEF Begin
      <4>2. ops \in 0 .. MaxOps /\ MaxOps \in Nat
        BY <1>b, HashtableAssumption DEF Types
      <4>. QED BY <4>1, <4>2
    <3>2. overlapped' \in BOOLEAN /\ disturbed' \in BOOLEAN
      BY <1>g, <1>h
    <3>. QED BY <3>1, <3>2, <1>a, <1>b, <1>c, <1>d, <1>e DEF Types
  <2>2. Named'
    <3>1. Fits(to, op'[p])
      BY <1>c DEF Fits, Finds, Updates
    <3>. QED BY <3>1, <1>b, <1>c, <1>d DEF Named, Fits
  <2>3. Uncreated'
    BY <1>a, <1>b, <1>d DEF Always, Uncreated
  <2>4. Asked'
    BY <1>a, <1>b, <1>d DEF Always, Asked
  <2>5. OneCreator' /\ Headless'
    BY <1>a, <1>b, <1>d, <1>f DEF Always, OneCreator, Headless, SettingUp
  <2>6. Rowless'
    BY <1>a, <1>b, <1>d, <1>e, <1>f DEF Always, Rowless
  <2>7. AtHome'
    BY <1>a, <1>b DEF Always, AtHome, Home
  <2>8. Aims'
    BY <1>b, <1>c, <1>d, <1>f DEF Always, Aims, Home
  <2>9. SureIsStored'
    <3>1. ASSUME NEW q \in Procs, op'[q].name = "find", op'[q].sure
          PROVE  op'[q].key \in stored'
      <4>1. CASE q = p
        BY <3>1, <4>1, <1>a, <1>c
      <4>2. CASE q # p
        BY <3>1, <4>2, <1>a, <1>b, <1>c DEF Always, SureIsStored
      <4>. QED BY <4>1, <4>2
    <3>. QED BY <3>1 DEF SureIsStored
  <2>. QED BY <2>1, <2>2, <2>3, <2>4, <2>5, <2>6, <2>7, <2>8, <2>9 DEF Always
<1>2. ~overlapped' => InTurn'
  <2>. SUFFICES ASSUME ~overlapped' PROVE InTurn'
    OBVIOUS
  <2>a. ~overlapped /\ (name \in Updates => \A q \in Procs : ~Changes(q))
    BY <1>g
  <2>b. InTurn
    BY <2>a DEF IInv
  <2>1. OneChanges'
    <3>1. CASE name \in Updates
      <4>1. \A q \in Procs : Changes(q)' => q = p
        BY <3>1, <2>a, <1>i
      <4>. QED BY <4>1 DEF OneChanges
    <3>2. CASE name \notin Updates
      <4>1. \A q \in Procs : Changes(q)' => Changes(q)
        BY <3>2, <1>i, <1>j
      <4>. QED BY <4>1, <2>b DEF InTurn, OneChanges
    <3>. QED BY <3>1, <3>2
  <2>2. StoredIsThere'
    BY <2>b, <1>a, <1>e DEF InTurn, StoredIsThere, Home
  <2>3. StillSo'
    BY <2>b, <1>a, <1>c, <1>d, <1>f DEF InTurn, StillSo, Found
  <2>4. Removing'
    BY <2>b, <1>a, <1>c, <1>d, <1>e DEF InTurn, Removing
  <2>5. FirstRow'
    BY <2>b, <1>c, <1>d DEF InTurn, FirstRow
  <2>6. ~missed'
    BY <2>b, <1>a DEF InTurn
  <2>. QED BY <2>1, <2>2, <2>3, <2>4, <2>5, <2>6 DEF InTurn
<1>3. ~overlapped' /\ ~disturbed' => Undisturbed'
  <2>. SUFFICES ASSUME ~overlapped', ~disturbed' PROVE Undisturbed'
    OBVIOUS
  <2>a. /\ ~overlapped /\ ~disturbed
        /\ name \in Updates => \A q \in Procs : pc[q] \notin SettingUp
    BY <1>g, <1>h
  <2>b. Undisturbed
    BY <2>a DEF IInv
  <2>1. Unborn'
    BY <2>b, <1>a DEF Undisturbed, Unborn, Empty
  <2>2. SettingUpAlone'
    <3>1. ASSUME NEW q \in Procs, pc'[q] \in SettingUp, NEW r \in Procs
          PROVE  Empty' /\ ~Changes(r)'
      <4>1. q # p /\ pc[q] \in SettingUp
        BY <3>1, <1>d, <1>f
      <4>2. Empty /\ ~Changes(r)
        BY <4>1, <2>b DEF Undisturbed, SettingUpAlone
      <4>3. name \notin Updates
        BY <4>1, <2>a
      <4>4. ~Changes(r)'
        BY <4>2, <4>3, <1>i, <1>j
      <4>. QED BY <4>2, <4>4, <1>a DEF Empty
    <3>. QED BY <3>1 DEF SettingUpAlone
  <2>3. Occupied' = Occupied
    BY <1>a DEF Occupied
  <2>4. \A q \in Procs : /\ pc'[q] \in {"counting", "storing"} <=> pc[q] \in {"counting", "storing"}
                         /\ pc'[q] = "storing" <=> pc[q] = "storing"
    BY <1>a, <1>d, <1>f
  <2>5. \A q \in Procs : pc[q] \in {"counting", "storing"} =>
          op'[q].name = op[q].name /\ op'[q].seen = op[q].seen
    BY <1>a, <1>c
  <2>6. Recounted'
    BY <2>b, <2>3, <2>4, <2>5, <1>a DEF Undisturbed, Recounted, Due
  <2>. QED BY <2>1, <2>2, <2>6 DEF Undisturbed
<1>. QED BY <1>1, <1>2, <1>3 DEF IInv

\* clear: nothing is in the table, and nothing was stored.
LEMMA ClearStep ==
  ASSUME IInv, NEW p \in Procs, clear(p)
  PROVE  IInv'
<1>b. Always /\ Types /\ Named
  BY DEF IInv, Always
<1>a. /\ table' = [s \in Slots |-> 0] /\ stored' = {} /\ disturbed' = TRUE
      /\ UNCHANGED <<size, bucket_num, count, pc, asked, missed>>
      /\ overlapped' = (overlapped \/ \E q \in Procs : Changes(q))
  BY DEF clear, head
<1>c. /\ op' \in [Procs -> Ops]
      /\ \A q \in Procs : /\ op'[q].name = op[q].name /\ op'[q].key = op[q].key
                          /\ op'[q].slot = op[q].slot /\ ~op'[q].sure
  <2>1. op' = [q \in Procs |-> [op[q] EXCEPT !.sure = FALSE]]
    BY DEF clear
  <2>2. ASSUME NEW q \in Procs
        PROVE  /\ [op[q] EXCEPT !.sure = FALSE] \in Ops
               /\ [op[q] EXCEPT !.sure = FALSE].name = op[q].name
               /\ [op[q] EXCEPT !.sure = FALSE].key = op[q].key
               /\ [op[q] EXCEPT !.sure = FALSE].slot = op[q].slot
               /\ ~[op[q] EXCEPT !.sure = FALSE].sure
    <3>1. op[q] \in Ops
      BY <1>b DEF Types
    <3>. QED BY <3>1 DEF Ops
  <2>. QED BY <2>1, <2>2
<1>1. Always'
  <2>1. Types'
    <3>1. ops' \in 0 .. MaxOps
      <4>1. ops < MaxOps /\ ops' = ops + 1
        BY DEF clear
      <4>2. ops \in 0 .. MaxOps /\ MaxOps \in Nat
        BY <1>b, HashtableAssumption DEF Types
      <4>. QED BY <4>1, <4>2
    <3>2. overlapped' \in BOOLEAN /\ disturbed' \in BOOLEAN
      BY <1>a
    <3>3. table' \in [Slots -> Keys \cup {0}]
      BY <1>a
    <3>. QED BY <3>1, <3>2, <3>3, <1>a, <1>b, <1>c DEF Types
  <2>2. Named'
    BY <1>a, <1>b, <1>c DEF Named, Fits
  <2>3. Uncreated' /\ Asked' /\ OneCreator' /\ Headless'
    BY <1>a, <1>b DEF Always, Uncreated, Asked, OneCreator, Headless
  <2>4. Rowless'
    BY <1>a, <1>b DEF Always, Rowless
  <2>5. AtHome'
    BY <1>a DEF AtHome
  <2>6. Aims'
    BY <1>a, <1>b, <1>c DEF Always, Aims, Home
  <2>7. SureIsStored'
    BY <1>c DEF SureIsStored
  <2>. QED BY <2>1, <2>2, <2>3, <2>4, <2>5, <2>6, <2>7 DEF Always
<1>2. ~overlapped' => InTurn'
  <2>. SUFFICES ASSUME ~overlapped' PROVE InTurn'
    OBVIOUS
  <2>a. ~overlapped /\ \A q \in Procs : ~Changes(q)
    BY <1>a
  <2>b. InTurn
    BY <2>a DEF IInv
  <2>1. \A q \in Procs : ~Changes(q)'
    BY <2>a, <1>a, <1>c DEF Changes
  <2>2. OneChanges'
    BY <2>1 DEF OneChanges
  <2>3. StoredIsThere' /\ Removing'
    BY <1>a DEF StoredIsThere, Removing
  <2>4. StillSo'
    <3>1. \A q \in Procs : pc'[q] # "copying"
      BY <2>a, <1>a, <1>b, WritingChanges DEF Writing
    <3>. QED BY <3>1 DEF StillSo
  <2>5. FirstRow'
    BY <1>c DEF FirstRow
  <2>6. ~missed'
    BY <2>b, <1>a DEF InTurn
  <2>. QED BY <2>2, <2>3, <2>4, <2>5, <2>6 DEF InTurn
<1>. QED BY <1>1, <1>2, <1>a DEF IInv

-------------------------------------------------------------------------------
(***************************************************************************)
(* The steps of init.                                                      *)
(***************************************************************************)
\* What keeps the invariant when p is in none of the operations.
LEMMA Sets ==
  ASSUME IInv, NEW p \in Procs, NEW to \in Pcs \ InOp, pc[p] \notin InOp,
         pc' = [pc EXCEPT ![p] = to], UNCHANGED <<op, history>>,
         size' \in Nat, bucket_num' \in {0, Rows}, count' \in Int,
         asked' \in [Procs -> 0 .. MaxInits],
         table' = table \/ (bucket_num = 0 /\ table' = [s \in Slots |-> 0]),
         bucket_num' = 0 => bucket_num = 0,
         Uncreated', Asked', OneCreator', Headless',
         Undisturbed => Unborn' /\ SettingUpAlone' /\ Recounted'
  PROVE  IInv'
<1>a. Always /\ Types /\ Named
  BY DEF IInv, Always
<1>b. /\ pc' \in [Procs -> Pcs] /\ pc'[p] = to /\ to \notin InOp
      /\ \A q \in Procs \ {p} : pc'[q] = pc[q]
  BY <1>a DEF Types
<1>c. UNCHANGED <<op, ops, stored, missed, overlapped, disturbed>>
  BY DEF history
<1>d. table' \in [Slots -> Keys \cup {0}]
  BY <1>a DEF Types
<1>e. to \notin Writing /\ to # "copying" /\ to # "finding"
  BY DEF InOp, Writing
<1>1. Always'
  <2>1. Types'
    BY <1>a, <1>b, <1>c, <1>d DEF Types
  <2>2. Named'
    <3>1. Fits(to, op[p])
      BY <1>b DEF Fits, InOp
    <3>. QED BY <3>1, <1>a, <1>b DEF Named, Fits
  <2>3. Rowless'
    BY <1>a, <1>b, <1>c, <1>e DEF Always, Rowless
  <2>4. AtHome'
    <3>1. ASSUME NEW s \in Slots, table'[s] # 0 PROVE s = Home(table'[s])
      BY <3>1, <1>a DEF Always, AtHome
    <3>. QED BY <3>1 DEF AtHome, Home
  <2>5. Aims'
    BY <1>a, <1>b, <1>e DEF Always, Aims, Home
  <2>6. SureIsStored'
    BY <1>a, <1>c DEF Always, SureIsStored
  <2>. QED BY <2>1, <2>2, <2>3, <2>4, <2>5, <2>6 DEF Always
<1>2. \A q \in Procs : Changes(q)' => Changes(q)
  BY <1>b DEF Changes
<1>3. ~overlapped => InTurn'
  <2>. SUFFICES ASSUME ~overlapped PROVE InTurn'
    OBVIOUS
  <2>a. InTurn
    BY DEF IInv
  <2>1. OneChanges'
    BY <2>a, <1>2 DEF InTurn, OneChanges
  <2>2. StoredIsThere'
    <3>1. CASE table' = table
      BY <3>1, <2>a, <1>c DEF InTurn, StoredIsThere, Home
    <3>2. CASE bucket_num = 0
      BY <3>2, <1>a, <1>c DEF Always, Rowless, StoredIsThere
    <3>. QED BY <3>1, <3>2
  <2>3. StillSo'
    <3>1. CASE table' = table
      BY <3>1, <2>a, <1>b, <1>e DEF InTurn, StillSo, Found
    <3>2. CASE bucket_num = 0
      <4>1. \A q \in Procs : pc'[q] # "copying"
        BY <3>2, <1>a, <1>b, <1>e DEF Always, Rowless, Writing
      <4>. QED BY <4>1 DEF StillSo
    <3>. QED BY <3>1, <3>2
  <2>4. Removing'
    BY <2>a, <1>b, <1>c DEF InTurn, Removing
  <2>5. FirstRow'
    BY <2>a, <1>b, <1>e DEF InTurn, FirstRow
  <2>6. ~missed'
    BY <2>a, <1>c DEF InTurn
  <2>. QED BY <2>1, <2>2, <2>3, <2>4, <2>5, <2>6 DEF InTurn
<1>4. ~overlapped /\ ~disturbed => Undisturbed'
  <2>. SUFFICES ASSUME ~overlapped, ~disturbed PROVE Undisturbed'
    OBVIOUS
  <2>1. Undisturbed
    BY DEF IInv
  <2>. QED BY <2>1 DEF Undisturbed
<1>. QED BY <1>1, <1>3, <1>4, <1>c DEF IInv

\* Without an operation under way that has counted, count is what it was to be.
LEMMA Uncounted ==
  ASSUME Always, Undisturbed, NEW p \in Procs, pc' = [pc EXCEPT ![p] = pc'[p]],
         pc[p] \notin InOp, pc'[p] \notin InOp, UNCHANGED op,
         count' = count, \A s \in Slots : table'[s] = table[s]
  PROVE  Recounted'
<1>1. \A q \in Procs \ {p} : pc'[q] = pc[q]
  BY DEF Always, Types
<1>2. Occupied' = Occupied
  BY DEF Occupied
<1>3. \A q \in Procs : /\ pc'[q] \in {"counting", "storing"} <=> pc[q] \in {"counting", "storing"}
                       /\ pc'[q] = "storing" <=> pc[q] = "storing"
  BY <1>1 DEF InOp
<1>. QED BY <1>2, <1>3 DEF Undisturbed, Recounted, Due

\* Open: only who finds the segment, or does not find it, is asked.
LEMMA OpenStep ==
  ASSUME IInv, NEW p \in Procs, Open(p)
  PROVE  IInv'
<1>a. Always /\ Types
  BY DEF IInv, Always
<1>b. PICK to \in {"ready", "absent"} :
        Goes(p, "out", to) /\ (to = "ready" => size > 0)
  BY DEF Open
<1>c. /\ pc[p] = "out" /\ pc' = [pc EXCEPT ![p] = to] /\ pc[p] \notin InOp
      /\ to \in Pcs \ InOp /\ to \notin SettingUp
      /\ UNCHANGED <<size, bucket_num, count, table, op, history>>
  BY <1>b DEF Goes, Open, head, Pcs, InOp, SettingUp
<1>d. /\ pc'[p] = to /\ \A q \in Procs \ {p} : pc'[q] = pc[q]
  BY <1>a, <1>c DEF Types
<1>e. /\ asked' \in [Procs -> 0 .. MaxInits] /\ asked'[p] >= 1
      /\ \A q \in Procs \ {p} : asked'[q] = asked[q]
  <2>1. asked' = [asked EXCEPT ![p] = asked[p] + 1] /\ asked[p] < MaxInits
    BY DEF Open
  <2>2. asked[p] \in 0 .. MaxInits /\ MaxInits \in Nat
    BY <1>a, HashtableAssumption DEF Types
  <2>3. asked[p] + 1 \in 0 .. MaxInits /\ asked[p] + 1 >= 1
    BY <2>1, <2>2
  <2>. QED BY <2>1, <2>3, <1>a DEF Types
<1>1. size \in Nat /\ bucket_num \in {0, Rows} /\ count \in Int
  BY <1>a DEF Types
<1>2. Uncreated'
  <2>1. size = 0 => to = "absent"
    BY <1>b, <1>1
  <2>. QED BY <2>1, <1>a, <1>c, <1>d DEF Always, Uncreated
<1>3. Asked'
  BY <1>a, <1>d, <1>e DEF Always, Asked
<1>4. OneCreator' /\ Headless'
  BY <1>a, <1>c, <1>d DEF Always, OneCreator, Headless, SettingUp
<1>5. ASSUME Undisturbed PROVE Unborn' /\ SettingUpAlone' /\ Recounted'
  <2>1. Unborn'
    BY <1>5, <1>c DEF Undisturbed, Unborn, Empty
  <2>2. \A q \in Procs : Changes(q)' => Changes(q)
    BY <1>c, <1>d DEF Changes
  <2>3. SettingUpAlone'
    BY <2>2, <1>5, <1>c, <1>d DEF Undisturbed, SettingUpAlone, Empty
  <2>4. Recounted'
    BY <1>5, <1>a, <1>c, <1>d, Uncounted
  <2>. QED BY <2>1, <2>3, <2>4
<1>. QED BY <1>1, <1>2, <1>3, <1>4, <1>5, <1>c, <1>e, Sets

\* Create: there was no segment, so nobody is setting one up.
LEMMA CreateStep ==
  ASSUME IInv, NEW p \in Procs, Create(p)
  PROVE  IInv'
<1>a. Always /\ Types
  BY DEF IInv, Always
<1>b. /\ pc[p] = "absent" /\ pc' = [pc EXCEPT ![p] = "created"]
      /\ pc[p] \notin InOp /\ "created" \in Pcs \ InOp
      /\ size = 0 /\ size' = asked[p]
      /\ UNCHANGED <<bucket_num, count, table, asked, op, history>>
  BY DEF Create, Goes, Pcs, InOp, SettingUp
<1>c. /\ pc'[p] = "created" /\ \A q \in Procs \ {p} : pc'[q] = pc[q]
  BY <1>a, <1>b DEF Types
<1>d. bucket_num = 0 /\ \A q \in Procs : pc[q] \in {"out", "absent"}
  BY <1>a, <1>b DEF Always, Uncreated
<1>e. size' \in Nat /\ size' >= 1
  BY <1>a, <1>b DEF Always, Asked, Types
<1>1. count \in Int /\ bucket_num \in {0, Rows} /\ asked \in [Procs -> 0 .. MaxInits]
  BY <1>a DEF Types
<1>2. Uncreated'
  BY <1>e DEF Uncreated
<1>3. Asked'
  BY <1>a, <1>b, <1>c DEF Always, Asked
<1>4. OneCreator' /\ Headless'
  BY <1>b, <1>c, <1>d DEF OneCreator, Headless, SettingUp
<1>5. ASSUME Undisturbed PROVE Unborn' /\ SettingUpAlone' /\ Recounted'
  <2>1. Unborn'
    BY <1>e DEF Unborn
  <2>2. Empty
    BY <1>5, <1>b DEF Undisturbed, Unborn
  <2>3. \A q \in Procs : ~Changes(q)'
    BY <1>c, <1>d DEF Changes, InOp
  <2>4. SettingUpAlone'
    BY <2>2, <2>3, <1>b DEF SettingUpAlone, Empty
  <2>5. pc'[p] \notin InOp
    BY <1>c DEF InOp
  <2>6. Recounted'
    BY <2>5, <1>5, <1>a, <1>b, <1>c, Uncounted
  <2>. QED BY <2>1, <2>4, <2>6
<1>. QED BY <1>1, <1>2, <1>3, <1>4, <1>5, <1>b, <1>e, Sets

\* CreateFails: back to where the process was.
LEMMA CreateFailsStep ==
  ASSUME IInv, NEW p \in Procs, CreateFails(p)
  PROVE  IInv'
<1>a. Always /\ Types
  BY DEF IInv, Always
<1>b. /\ pc[p] = "absent" /\ pc' = [pc EXCEPT ![p] = "out"]
      /\ pc[p] \notin InOp /\ "out" \in Pcs \ InOp
      /\ UNCHANGED <<size, bucket_num, count, table, asked, op, history>>
  BY DEF CreateFails, Goes, Pcs, InOp, head
<1>c. /\ pc'[p] = "out" /\ \A q \in Procs \ {p} : pc'[q] = pc[q]
  BY <1>a, <1>b DEF Types
<1>1. size \in Nat /\ count \in Int /\ bucket_num \in {0, Rows} /\ asked \in [Procs -> 0 .. MaxInits]
  BY <1>a DEF Types
<1>2. Uncreated' /\ Asked'
  BY <1>a, <1>b, <1>c DEF Always, Uncreated, Asked
<1>3. OneCreator' /\ Headless'
  BY <1>a, <1>b, <1>c DEF Always, OneCreator, Headless, SettingUp
<1>4. ASSUME Undisturbed PROVE Unborn' /\ SettingUpAlone' /\ Recounted'
  <2>1. Unborn'
    BY <1>4, <1>b DEF Undisturbed, Unborn, Empty
  <2>2. \A q \in Procs : Changes(q)' => Changes(q)
    BY <1>b, <1>c DEF Changes, InOp
  <2>3. SettingUpAlone'
    BY <2>2, <1>4, <1>b, <1>c DEF Undisturbed, SettingUpAlone, Empty, SettingUp
  <2>4. pc'[p] \notin InOp
    BY <1>c DEF InOp
  <2>5. Recounted'
    BY <2>4, <1>4, <1>a, <1>b, <1>c, Uncounted
  <2>. QED BY <2>1, <2>3, <2>5
<1>. QED BY <1>1, <1>2, <1>3, <1>4, <1>b, Sets

\* Zero: nobody had a row to store anything in.
LEMMA ZeroStep ==
  ASSUME IInv, NEW p \in Procs, Zero(p)
  PROVE  IInv'
<1>a. Always /\ Types
  BY DEF IInv, Always
<1>b. /\ pc[p] = "created" /\ pc' = [pc EXCEPT ![p] = "zeroed"]
      /\ pc[p] \notin InOp /\ "zeroed" \in Pcs \ InOp /\ pc[p] \in SettingUp
      /\ bucket_num' = 0 /\ count' = 0 /\ table' = [s \in Slots |-> 0]
      /\ UNCHANGED <<size, asked, op, history>>
  BY DEF Zero, Goes, Pcs, InOp, SettingUp
<1>c. /\ pc'[p] = "zeroed" /\ \A q \in Procs \ {p} : pc'[q] = pc[q]
  BY <1>a, <1>b DEF Types
<1>d. bucket_num = 0
  BY <1>a, <1>b DEF Always, Headless
<1>1. size \in Nat /\ asked \in [Procs -> 0 .. MaxInits]
  BY <1>a DEF Types
<1>2. Uncreated' /\ Asked'
  BY <1>a, <1>b, <1>c DEF Always, Uncreated, Asked
<1>3. OneCreator' /\ Headless'
  BY <1>a, <1>b, <1>c, <1>d DEF Always, OneCreator, Headless, SettingUp
<1>4. ASSUME Undisturbed PROVE Unborn' /\ SettingUpAlone' /\ Recounted'
  <2>1. Empty' /\ \A s \in Slots : table'[s] = 0
    BY <1>b DEF Empty
  <2>2. Unborn'
    BY <2>1 DEF Unborn
  <2>3. Empty /\ \A q \in Procs : ~Changes(q)
    BY <1>4, <1>b DEF Undisturbed, SettingUpAlone
  <2>4. \A q \in Procs : ~Changes(q)'
    BY <2>3, <1>b, <1>c DEF Changes, InOp
  <2>5. SettingUpAlone'
    BY <2>1, <2>4 DEF SettingUpAlone
  <2>6. pc'[p] \notin InOp
    BY <1>c DEF InOp
  <2>7. count' = count /\ \A s \in Slots : table'[s] = table[s]
    BY <2>1, <2>3, <1>b DEF Empty
  <2>8. Recounted'
    BY <2>6, <2>7, <1>4, <1>a, <1>b, <1>c, Uncounted
  <2>. QED BY <2>2, <2>5, <2>8
<1>5. count' \in Int /\ bucket_num' \in {0, Rows}
  BY <1>b
<1>. QED BY <1>1, <1>2, <1>3, <1>4, <1>5, <1>b, <1>d, Sets

\* WriteBucketNum and WriteCount: the table is empty, and 0 is its count.
LEMMA WriteHeadStep ==
  ASSUME IInv, NEW p \in Procs, WriteBucketNum(p) \/ WriteCount(p)
  PROVE  IInv'
<1>a. Always /\ Types
  BY DEF IInv, Always
<1>b. PICK to \in {"headed", "ready"} :
        /\ pc' = [pc EXCEPT ![p] = to] /\ pc[p] \notin InOp /\ to \in Pcs \ InOp
        /\ pc[p] \in SettingUp
        /\ bucket_num' = Rows \/ bucket_num' = bucket_num
        /\ count' = count \/ count' = 0
        /\ UNCHANGED <<size, table, asked, op, history>>
  <2>1. CASE WriteBucketNum(p)
    BY <2>1 DEF WriteBucketNum, Goes, Pcs, InOp, SettingUp
  <2>2. CASE WriteCount(p)
    BY <2>2 DEF WriteCount, Goes, Pcs, InOp, SettingUp
  <2>. QED BY <2>1, <2>2
<1>c. /\ pc'[p] = to /\ \A q \in Procs \ {p} : pc'[q] = pc[q]
  BY <1>a, <1>b DEF Types
<1>d. size # 0
  BY <1>a, <1>b DEF Always, Uncreated, SettingUp
<1>e. \A q \in Procs \ {p} : pc[q] \notin SettingUp
  BY <1>a, <1>b DEF Always, OneCreator
<1>1. /\ size \in Nat /\ bucket_num' \in {0, Rows} /\ count' \in Int
      /\ asked \in [Procs -> 0 .. MaxInits]
  BY <1>a, <1>b DEF Types
<1>2. Uncreated'
  BY <1>b, <1>d DEF Uncreated
<1>3. Asked'
  BY <1>a, <1>b, <1>c DEF Always, Asked, SettingUp
<1>4. OneCreator' /\ Headless'
  BY <1>b, <1>c, <1>e DEF OneCreator, Headless, SettingUp
<1>5. bucket_num' = 0 => bucket_num = 0
  BY <1>b, RowsOf
<1>6. ASSUME Undisturbed PROVE Unborn' /\ SettingUpAlone' /\ Recounted'
  <2>1. Unborn'
    BY <1>b, <1>d DEF Unborn
  <2>2. Empty /\ \A q \in Procs : ~Changes(q)
    BY <1>6, <1>b DEF Undisturbed, SettingUpAlone
  <2>3. \A q \in Procs : ~Changes(q)'
    BY <2>2, <1>b, <1>c DEF Changes
  <2>4. count' = count /\ Empty'
    BY <2>2, <1>b DEF Empty
  <2>5. SettingUpAlone'
    BY <2>3, <2>4 DEF SettingUpAlone
  <2>6. Recounted'
    BY <2>4, <1>6, <1>a, <1>b, <1>c, Uncounted
  <2>. QED BY <2>1, <2>5, <2>6
<1>. QED BY <1>1, <1>2, <1>3, <1>4, <1>5, <1>6, <1>b, Sets

-------------------------------------------------------------------------------
\* At the start there is no segment and nobody in an operation.
LEMMA InitInv == Init => IInv
<1>. SUFFICES ASSUME Init PROVE IInv
  OBVIOUS
<1>1. Types
  <2>1. MaxInits \in Nat /\ MaxOps \in Nat
    BY HashtableAssumption
  <2>2. pc \in [Procs -> Pcs] /\ op \in [Procs -> Ops]
    BY IdleIsOp DEF Init, Pcs
  <2>3. asked \in [Procs -> 0 .. MaxInits] /\ ops \in 0 .. MaxOps
    BY <2>1 DEF Init
  <2>4. table \in [Slots -> Keys \cup {0}]
    BY DEF Init
  <2>5. size \in Nat /\ bucket_num \in {0, Rows} /\ count \in Int
    BY DEF Init
  <2>6. /\ stored \subseteq Keys /\ missed \in BOOLEAN
        /\ overlapped \in BOOLEAN /\ disturbed \in BOOLEAN
    BY DEF Init
  <2>. QED BY <2>2, <2>3, <2>4, <2>5, <2>6 DEF Types
<1>2. Named
  BY DEF Init, Named, Fits, InOp
<1>3. Uncreated /\ Asked
  BY DEF Init, Uncreated, Asked
<1>4. OneCreator /\ Headless /\ Rowless
  BY DEF Init, OneCreator, Headless, Rowless, SettingUp, Writing
<1>5. AtHome /\ Aims
  BY DEF Init, AtHome, Aims
<1>6. SureIsStored
  BY DEF Init, SureIsStored, Idle
<1>7. InTurn
  BY DEF Init, InTurn, OneChanges, Changes, StoredIsThere, StillSo, Removing, FirstRow, InOp
<1>8. Unborn
  BY DEF Init, Unborn, Empty
<1>9. SettingUpAlone
  BY DEF Init, SettingUpAlone, SettingUp
<1>10. Recounted
  <2>1. Occupied = {}
    BY DEF Init, Occupied
  <2>2. Cardinality(Occupied) = 0
    BY <2>1, FS_EmptySet
  <2>. QED BY <2>2 DEF Init, Recounted
<1>. QED BY <1>1, <1>2, <1>3, <1>4, <1>5, <1>6, <1>7, <1>8, <1>9, <1>10
     DEF IInv, Always, Undisturbed

\* A step that changes nothing keeps the invariant.
LEMMA StutterInv == IInv /\ UNCHANGED vars => IInv'
<1>. SUFFICES ASSUME IInv, UNCHANGED vars PROVE IInv'
  OBVIOUS
<1>1. /\ UNCHANGED <<size, bucket_num, count, table, pc, asked, op, ops, stored>>
      /\ UNCHANGED <<missed, overlapped, disturbed>>
  BY DEF vars, head, history
<1>2. Always'
  <2>1. Types' /\ Named'
    BY <1>1 DEF IInv, Always, Types, Named, Fits
  <2>2. Uncreated' /\ Asked' /\ OneCreator' /\ Headless' /\ Rowless'
    BY <1>1 DEF IInv, Always, Uncreated, Asked, OneCreator, Headless, Rowless
  <2>3. AtHome' /\ Aims' /\ SureIsStored'
    BY <1>1 DEF IInv, Always, AtHome, Aims, SureIsStored, Home
  <2>. QED BY <2>1, <2>2, <2>3 DEF Always
<1>3. InTurn => InTurn'
  BY <1>1 DEF InTurn, OneChanges, Changes, StoredIsThere, Home, StillSo, Found, Removing, FirstRow
<1>4. Undisturbed => Undisturbed'
  BY <1>1 DEF Undisturbed, Unborn, Empty, SettingUpAlone, Changes, Recounted, Occupied, Due
<1>. QED BY <1>1, <1>2, <1>3, <1>4 DEF IInv

\* The invariant holds at the start and every step keeps it.
THEOREM Invariant == Spec => []IInv
<1>1. IInv /\ [Next]_vars => IInv'
  <2>. SUFFICES ASSUME IInv, Next PROVE IInv'
    BY StutterInv
  <2>1. PICK p \in Procs : Setup(p) \/ Operation(p)
    BY DEF Next
  <2>2. CASE Setup(p)
    BY <2>2, OpenStep, CreateStep, CreateFailsStep, ZeroStep, WriteHeadStep DEF Setup
  <2>3. CASE \E name \in Updates \cup {"find"}, key \in Keys : Begin(p, name, key)
    BY <2>3, BeginStep
  <2>4. CASE FindRow(p) \/ FindEnds(p) \/ PlaceRow(p) \/ PlaceEnds(p)
    BY <2>4, FindRowStep, FindEndsStep, PlaceRowStep, PlaceEndsStep
  <2>5. CASE Copy(p) \/ ReadCount(p) \/ StoreCount(p) \/ clear(p)
    BY <2>5, CopyStep, ReadCountStep, StoreCountStep, ClearStep
  <2>. QED BY <2>1, <2>2, <2>3, <2>4, <2>5 DEF Operation
<1>. QED BY <1>1, InitInv, PTL DEF Spec

\* Who looks for a key that is in the table all the while finds it, if the changes
\* take turns, also when they start before the creator has set the table up.
THEOREM StoredIsSeen == Spec => []LookupSees
<1>1. IInv => LookupSees
  BY DEF IInv, InTurn, LookupSees
<1>. QED BY <1>1, Invariant, PTL

\* A key is in one slot at most, whatever overlaps, and the head's count is right
\* when nobody changes the table, if the changes took turns after it was set up.
THEOREM CountedAndOnce == Spec => []TableSound
<1>1. IInv => TableSound
  <2>. SUFFICES ASSUME IInv PROVE TableSound
    OBVIOUS
  <2>a. Always /\ Types /\ Named
    BY DEF IInv, Always
  <2>1. TypeOK
    <3>1. \A p \in Procs : op[p].row \in 0 .. Rows /\ op[p].slot \in Slots
      BY <2>a, OpIs
    <3>. QED BY <3>1, <2>a DEF TypeOK, Types, Pcs
  <2>2. OneSlotPerKey
    BY <2>a DEF Always, AtHome, OneSlotPerKey
  <2>3. CountExact
    <3>. SUFFICES ASSUME Quiet, ~overlapped, ~disturbed PROVE count = Cardinality(Occupied)
      BY DEF CountExact, Occupied
    <3>1. \A p \in Procs : pc[p] \notin {"counting", "storing"}
      BY <2>a, WritingChanges DEF Quiet, Writing
    <3>. QED BY <3>1 DEF IInv, Undisturbed, Recounted
  <2>. QED BY <2>1, <2>2, <2>3 DEF TableSound
<1>. QED BY <1>1, Invariant, PTL
===============================================================================
