----------------------------- MODULE LoggerProofs -----------------------------
(***************************************************************************)
(* OrderKept, OnlyOldestDropped, FilesBounded and BufferFits hold in every *)
(* behaviour of Logger, of any number of processes, names, records, sizes  *)
(* and batches.                                                            *)
(*                                                                         *)
(* None is inductive.  That the records stay in order needs to know that   *)
(* nobody writes to a file while a newer one has records of its own; what  *)
(* a process alone loses needs to know which part of what was written each *)
(* file holds, and where the loop of the shift stands; how big a file gets *)
(* needs to know how much each write still to come before the next look at *)
(* the size may add.                                                       *)
(***************************************************************************)
EXTENDS Logger, FiniteSetTheorems, SequenceTheorems, WellFoundedInduction, TLAPS

-----------------------------------------------------------------------------
(***************************************************************************)
(* What holds whatever the processes do: the names, and the order of the   *)
(* records.                                                                *)
(***************************************************************************)
Shifting == {"access", "unlink", "rename"}

\* the names a loop of the shift goes through are there
InRange == \A p \in Procs : pc[p] \in Shifting => i[p] + 2 <= LogNo

\* a file has one name, and the last name is not used
OneName == \A a, b \in Names : name[a] = name[b] /\ name[a] # None => a = b
LastUnused == LogNo >= 2 => name[LogNo] = None

\* who never opened the log is closed
Unopened == \A p \in Procs : opens[p] = 0 => pc[p] = "closed"
Closed   == \A p \in Procs : pc[p] = "closed" => fd[p] = None

Shape == TypeOK /\ InRange /\ OneName /\ LastUnused /\ Unopened /\ Closed

\* of a sequence of records, or two
OnlyBy(p, s)  == \A m \in DOMAIN s : s[m].by = p
NoneBy(p, s)  == \A m \in DOMAIN s : s[m].by # p
UpTo(n, s)    == \A m \in DOMAIN s : s[m].no <= n
InOrder(s)    == \A m, n \in DOMAIN s : m < n /\ s[m].by = s[n].by => s[m].no < s[n].no
Precede(s, t) == \A m \in DOMAIN s, n \in DOMAIN t : s[m].by = t[n].by => s[m].no < t[n].no

\* what is in the buffers is a process's own, and later than what is in the files
Buffers ==
  \A p \in Procs :
    /\ OnlyBy(p, buf[p]) /\ UpTo(logged, buf[p]) /\ InOrder(buf[p])
    /\ \A f \in Files : Precede(data[f], buf[p])

Contents == \A f \in Files : UpTo(logged, data[f]) /\ InOrder(data[f])

\* a file with an older name has the older records
Across ==
  \A a, b \in Names : name[a] # None /\ name[b] # None /\ b < a => Precede(data[name[a]], data[name[b]])

\* a file newer than the one a process writes to has no records of its own
Behind ==
  \A p \in Procs : \A a, b \in Names :
    fd[p] # None /\ fd[p] = name[a] /\ name[b] # None /\ b < a => NoneBy(p, data[name[b]])

Sequence == Buffers /\ Contents /\ Across /\ Behind

(***************************************************************************)
(* The buffer: what is counted is in it, and what is not written at once   *)
(* has room.                                                               *)
(***************************************************************************)
Never(m) == m.batch = "count" /\ 0 < m.arg

Counted(p) ==
  /\ len[p] = Bytes(buf[p])
  /\ IF pc[p] = "write" THEN ~Never(mode[p]) /\ len[p] <= MaxWrite(p)
     ELSE \/ len[p] = 0 \/ Never(mode[p])
          \/ mode[p].batch = "size" /\ len[p] < mode[p].arg

Counts == \A p \in Procs : Counted(p)

(***************************************************************************)
(* A process alone writes to the newest file, and in the loop of a shift   *)
(* the names it has passed are free.                                       *)
(***************************************************************************)
AtNewest(p) ==
  pc[p] # "closed" =>
    /\ opens[p] >= 1
    /\ fd[p] # None => \E a \in Names : name[a] = fd[p] /\ \A b \in Names : b < a => name[b] = None
    /\ pc[p] = "reopen" => name[0] = None

InLoop(p) ==
  pc[p] \in Shifting =>
    /\ name[0] # None
    /\ \E s \in LogSizes : Bytes(data[name[0]]) >= s
    /\ i[p] + 2 < LogNo \/ pc[p] = "rename" => name[i[p] + 1] = None
    /\ pc[p] # "access" => name[i[p]] # None

\* every file holds a piece of what was written, the next newer the next piece;
\* name n holds the records behind from[n + 1] up to from[n]
Pieces(from) ==
  /\ from \in [0 .. (LogNo + 1) -> Nat]
  /\ from[0] = Len(written)
  /\ \A m, n \in 0 .. (LogNo + 1) : m <= n => from[n] <= from[m]
  /\ \A n \in Names :
       IF name[n] = None THEN from[n + 1] = from[n]
       ELSE data[name[n]] = SubSeq(written, from[n + 1] + 1, from[n])

Enough(first) ==
  first = 0 \/ LogNo < 2 \/ \E s \in LogSizes : Bytes(SubSeq(written, first + 1, Len(written))) >= s

Suffix == \E from : Pieces(from) /\ Enough(from[LogNo + 1])

\* k writes on top of a size
Below(b, k, w) == \E s \in LogSizes : b < s + k * w
Under(p, n, k) == Below(Bytes(data[name[n]]), k, MaxWrite(p))

Small(p) ==
  /\ \A n \in Names : name[n] # None => Under(p, n, opens[p] + 1)
  /\ name[0] # None => Under(p, 0, opens[p])
  /\ pc[p] \in {"idle", "write"} =>
       \A n \in Names : name[n] # None /\ fd[p] = name[n] =>
         Under(p, n, IF n = 0 THEN opens[p] - 1 ELSE opens[p])

Single(p) ==
  /\ AtNewest(p) /\ InLoop(p)
  /\ Suffix
  /\ LogNo >= 2 => Small(p)

ByOne == \A p \in Procs : Alone(p) => Single(p)

IInv == Shape /\ Sequence /\ Counts /\ ByOne

-----------------------------------------------------------------------------
(***************************************************************************)
(* Numbers and bytes.                                                      *)
(***************************************************************************)
\* Induction, for a set: the numbers are well-founded.
LEMMA Induction ==
  ASSUME NEW S, 0 \in S, \A n \in Nat : n \in S => n + 1 \in S
  PROVE  Nat \subseteq S
<1>. DEFINE T == Nat \ S
<1>1. SUFFICES ASSUME T # {} PROVE FALSE
  OBVIOUS
<1>2. PICK m \in T : \A n \in T : ~(<<n, m>> \in OpToRel(<, Nat))
  <2>1. T \subseteq Nat
    OBVIOUS
  <2>. QED BY <1>1, <2>1, NatLessThanWellFounded, WFMin
<1>3. \A n \in T : ~(n < m)
  BY <1>2 DEF OpToRel
<1>4. m \in Nat /\ m # 0 /\ m - 1 \in Nat
  OBVIOUS
<1>5. (m - 1) + 1 \in S
  BY <1>3, <1>4
<1>. QED BY <1>4, <1>5

\* A finite set of numbers has a greatest.
LEMMA MaxIs ==
  ASSUME NEW S \in SUBSET Nat, S # {}, IsFiniteSet(S)
  PROVE  Max(S) \in S /\ \A x \in S : x <= Max(S)
<1>1. PICK f \in Bijection(1 .. Cardinality(S), S) : TRUE
  BY FS_CardinalityType DEF ExistsBijection
<1>2. PICK n \in Nat : n = Cardinality(S)
  BY FS_CardinalityType
<1>3. /\ \A k \in 1 .. n : f[k] \in S /\ f[k] \in Nat
      /\ \A x \in S : \E k \in 1 .. n : f[k] = x
  BY <1>1, <1>2 DEF Bijection, Injection, Surjection
<1>. DEFINE G == {m \in Nat : m + 1 <= n =>
                    \E k \in 1 .. (m + 1) : \A j \in 1 .. (m + 1) : f[j] <= f[k]}
<1>4. 0 \in G
  <2>1. 1 <= n => f[1] \in Nat
    BY <1>3
  <2>2. 1 <= n => \A j \in 1 .. 1 : f[j] <= f[1]
    BY <2>1
  <2>. QED BY <2>2
<1>5. ASSUME NEW m \in Nat, m \in G PROVE m + 1 \in G
  <2>. SUFFICES ASSUME m + 2 <= n
                PROVE  \E k \in 1 .. (m + 2) : \A j \in 1 .. (m + 2) : f[j] <= f[k]
    OBVIOUS
  <2>1. PICK k \in 1 .. (m + 1) : \A j \in 1 .. (m + 1) : f[j] <= f[k]
    BY <1>5
  <2>2. \A j \in 1 .. (m + 2) : f[j] \in Nat
    BY <1>3
  <2>3. CASE f[m + 2] <= f[k]
    <3>1. \A j \in 1 .. (m + 2) : f[j] <= f[k]
      BY <2>1, <2>3
    <3>. QED BY <3>1
  <2>4. CASE ~(f[m + 2] <= f[k])
    <3>1. f[m + 2] \in Nat /\ f[k] \in Nat /\ f[k] <= f[m + 2]
      BY <2>2, <2>4
    <3>2. \A j \in 1 .. (m + 2) : f[j] <= f[m + 2]
      BY <2>1, <2>2, <3>1
    <3>. QED BY <3>2
  <2>. QED BY <2>3, <2>4
<1>6. n # 0
  <2>1. PICK x \in S : TRUE
    OBVIOUS
  <2>2. \E k \in 1 .. n : f[k] = x
    BY <1>3
  <2>. QED BY <2>2
<1>7. n - 1 \in G
  <2>. HIDE DEF G
  <2>1. Nat \subseteq G
    BY <1>4, <1>5, Induction
  <2>. QED BY <1>6, <2>1
<1>8. PICK k \in 1 .. n : \A j \in 1 .. n : f[j] <= f[k]
  BY <1>6, <1>7
<1>9. \E x \in S : \A y \in S : x >= y
  <2>1. f[k] \in S /\ \A y \in S : f[k] >= y
    BY <1>3, <1>8
  <2>. QED BY <2>1
<1>. QED BY <1>9 DEF Max

\* There is a longest record.
LEMMA LensMax ==
  ASSUME LoggerAssumption
  PROVE  Max(Lens) \in Nat /\ \A l \in Lens : l <= Max(Lens)
<1>1. Lens \in SUBSET Nat /\ Lens # {} /\ IsFiniteSet(Lens)
  BY DEF LoggerAssumption
<1>. QED BY <1>1, MaxIs

\* What sum is in Bytes(s).
Sums(f, s) == f = [n \in 0 .. Len(s) |-> IF n = 0 THEN 0 ELSE f[n - 1] + s[n].len]

\* The recursion defines a function.
LEMMA SumsExist == ASSUME NEW s, Len(s) \in Nat PROVE \E f : Sums(f, s)
<1>. DEFINE Is(f, m) == f = [n \in 0 .. m |-> IF n = 0 THEN 0 ELSE f[n - 1] + s[n].len]
            T == {m \in Nat : \E f : Is(f, m)}
<1>1. 0 \in T
  <2>1. Is([n \in 0 .. 0 |-> 0], 0)
    OBVIOUS
  <2>. QED BY <2>1
<1>2. ASSUME NEW m \in Nat, m \in T PROVE m + 1 \in T
  <2>1. PICK f : Is(f, m)
    BY <1>2
  <2>. DEFINE g == [n \in 0 .. (m + 1) |-> IF n <= m THEN f[n] ELSE f[m] + s[m + 1].len]
  <2>2. ASSUME NEW n \in 0 .. (m + 1)
        PROVE  g[n] = IF n = 0 THEN 0 ELSE g[n - 1] + s[n].len
    <3>1. CASE n = 0
      BY <2>1, <3>1
    <3>2. CASE n # 0 /\ n <= m
      <4>1. n \in 0 .. m /\ n - 1 \in 0 .. (m + 1) /\ n - 1 <= m
        BY <3>2
      <4>2. g[n] = f[n] /\ g[n - 1] = f[n - 1]
        BY <4>1
      <4>3. f[n] = f[n - 1] + s[n].len
        BY <2>1, <3>2, <4>1
      <4>. QED BY <3>2, <4>2, <4>3
    <3>3. CASE n = m + 1
      <4>1. n - 1 = m /\ m \in 0 .. (m + 1) /\ ~(n <= m) /\ n # 0
        BY <3>3
      <4>. QED BY <3>3, <4>1
    <3>. QED BY <3>1, <3>2, <3>3
  <2>3. Is(g, m + 1)
    BY <2>2
  <2>. HIDE DEF Is, g
  <2>. QED BY <2>3
<1>. HIDE DEF Is
<1>3. Nat \subseteq T
  BY <1>1, <1>2, Induction
<1>4. \E f : Is(f, Len(s))
  BY <1>3
<1>. QED BY <1>4 DEF Is, Sums

\* The lengths of records are numbers.
LEMMA LenOf ==
  ASSUME LoggerAssumption, NEW s \in Seq(Records), NEW n \in 1 .. Len(s)
  PROVE  s[n].len \in Nat
<1>1. s[n] \in Records
  OBVIOUS
<1>. QED BY <1>1 DEF Records, LoggerAssumption

\* The sums are numbers.
LEMMA SumsAre ==
  ASSUME LoggerAssumption, NEW s \in Seq(Records), NEW f, Sums(f, s)
  PROVE  /\ \A n \in 0 .. Len(s) : f[n] \in Nat
         /\ f[0] = 0 /\ \A n \in 1 .. Len(s) : f[n] = f[n - 1] + s[n].len
<1>1. f[0] = 0 /\ \A n \in 1 .. Len(s) : f[n] = f[n - 1] + s[n].len
  BY DEF Sums
<1>. DEFINE T == {m \in Nat : m <= Len(s) => f[m] \in Nat}
<1>2. 0 \in T
  BY <1>1
<1>3. ASSUME NEW m \in Nat, m \in T PROVE m + 1 \in T
  <2>. SUFFICES ASSUME m + 1 <= Len(s) PROVE f[m + 1] \in Nat
    OBVIOUS
  <2>1. m + 1 \in 1 .. Len(s) /\ (m + 1) - 1 = m /\ f[m] \in Nat
    BY <1>3
  <2>2. f[m + 1] = f[m] + s[m + 1].len
    BY <1>1, <2>1
  <2>. QED BY <2>1, <2>2, LenOf
<1>. HIDE DEF T
<1>4. Nat \subseteq T
  BY <1>2, <1>3, Induction
<1>. QED BY <1>1, <1>4 DEF T

\* The bytes of records are a number, and the last of their sums.
LEMMA BytesIs ==
  ASSUME LoggerAssumption, NEW s \in Seq(Records)
  PROVE  \E f : Sums(f, s) /\ Bytes(s) = f[Len(s)] /\ Bytes(s) \in Nat
<1>. DEFINE f == CHOOSE f : f = [n \in 0 .. Len(s) |-> IF n = 0 THEN 0 ELSE f[n - 1] + s[n].len]
<1>1. Sums(f, s)
  <2>1. Len(s) \in Nat
    OBVIOUS
  <2>2. \E g : g = [n \in 0 .. Len(s) |-> IF n = 0 THEN 0 ELSE g[n - 1] + s[n].len]
    BY <2>1, SumsExist DEF Sums
  <2>3. f = [n \in 0 .. Len(s) |-> IF n = 0 THEN 0 ELSE f[n - 1] + s[n].len]
    BY <2>2
  <2>. HIDE DEF f
  <2>. QED BY <2>3 DEF Sums
<1>2. Bytes(s) = f[Len(s)]
  BY DEF Bytes
<1>. HIDE DEF f
<1>3. f[Len(s)] \in Nat
  BY <1>1, SumsAre
<1>. QED BY <1>1, <1>2, <1>3

\* The bytes of two sequences are those of both.
LEMMA BytesConcat ==
  ASSUME LoggerAssumption, NEW s \in Seq(Records), NEW t \in Seq(Records)
  PROVE  Bytes(s \o t) = Bytes(s) + Bytes(t)
<1>1. PICK u \in Seq(Records) : u = s \o t
  BY ConcatProperties
<1>2. PICK f : Sums(f, s) /\ Bytes(s) = f[Len(s)]
  BY BytesIs
<1>3. PICK g : Sums(g, t) /\ Bytes(t) = g[Len(t)]
  BY BytesIs
<1>4. PICK h : Sums(h, u) /\ Bytes(u) = h[Len(u)]
  BY BytesIs
<1>5. PICK a \in Nat : a = Len(s)
  OBVIOUS
<1>6. PICK b \in Nat : b = Len(t)
  OBVIOUS
<1>7. Len(u) = a + b
  BY <1>1, <1>5, <1>6
<1>8. /\ \A n \in 1 .. a : u[n] = s[n]
      /\ \A n \in 1 .. b : u[a + n] = t[n]
  BY <1>1, <1>5, <1>6
<1>9. /\ f[0] = 0 /\ \A n \in 1 .. a : f[n] = f[n - 1] + s[n].len
      /\ \A n \in 0 .. a : f[n] \in Nat
  BY <1>2, <1>5, SumsAre
<1>10. /\ g[0] = 0 /\ \A n \in 1 .. b : g[n] = g[n - 1] + t[n].len
       /\ \A n \in 0 .. b : g[n] \in Nat
  BY <1>3, <1>6, SumsAre
<1>11. h[0] = 0 /\ \A n \in 1 .. (a + b) : h[n] = h[n - 1] + u[n].len
  BY <1>4, <1>7, SumsAre
<1>. DEFINE S == {m \in Nat : m <= a => h[m] = f[m]}
            T == {m \in Nat : m <= b => h[a + m] = f[a] + g[m]}
<1>12. 0 \in S
  BY <1>9, <1>11
<1>13. ASSUME NEW m \in Nat, m \in S PROVE m + 1 \in S
  <2>. SUFFICES ASSUME m + 1 <= a PROVE h[m + 1] = f[m + 1]
    OBVIOUS
  <2>1. m + 1 \in 1 .. a /\ m + 1 \in 1 .. (a + b) /\ (m + 1) - 1 = m /\ h[m] = f[m]
    BY <1>13
  <2>2. h[m + 1] = h[m] + u[m + 1].len /\ f[m + 1] = f[m] + s[m + 1].len
    BY <1>9, <1>11, <2>1
  <2>. QED BY <1>8, <2>1, <2>2
<1>14. a \in S
  <2>. HIDE DEF S
  <2>. QED BY <1>12, <1>13, Induction
<1>15. h[a] = f[a]
  BY <1>14
<1>16. 0 \in T
  <2>1. g[0] = 0 /\ f[a] \in Nat
    BY <1>9, <1>10
  <2>2. h[a + 0] = f[a] + g[0]
    BY <1>15, <2>1
  <2>. QED BY <2>2
<1>17. ASSUME NEW m \in Nat, m \in T PROVE m + 1 \in T
  <2>. SUFFICES ASSUME m + 1 <= b PROVE h[a + (m + 1)] = f[a] + g[m + 1]
    OBVIOUS
  <2>1. /\ m + 1 \in 1 .. b /\ a + (m + 1) \in 1 .. (a + b) /\ (m + 1) - 1 = m
        /\ (a + (m + 1)) - 1 = a + m /\ h[a + m] = f[a] + g[m]
    BY <1>17
  <2>2. h[a + (m + 1)] = h[a + m] + u[a + (m + 1)].len /\ g[m + 1] = g[m] + t[m + 1].len
    BY <1>10, <1>11, <2>1
  <2>3. t[m + 1].len \in Nat /\ f[a] \in Nat /\ g[m] \in Nat
    <3>1. m + 1 \in 1 .. Len(t)
      BY <1>6, <2>1
    <3>2. t[m + 1].len \in Nat
      BY <3>1, LenOf
    <3>3. f[a] \in Nat /\ g[m] \in Nat
      BY <1>9, <1>10, <2>1
    <3>. QED BY <3>2, <3>3
  <2>4. u[a + (m + 1)] = t[m + 1]
    BY <1>8, <2>1
  <2>5. h[a + (m + 1)] = (f[a] + g[m]) + t[m + 1].len
    BY <2>1, <2>2, <2>4
  <2>. QED BY <2>2, <2>3, <2>5
<1>18. b \in T
  <2>. HIDE DEF T
  <2>. QED BY <1>16, <1>17, Induction
<1>. QED BY <1>1, <1>2, <1>3, <1>4, <1>5, <1>6, <1>7, <1>18

\* The bytes of nothing, and of one record.
LEMMA BytesOfNone == LoggerAssumption => Bytes(<<>>) = 0
<1>. SUFFICES ASSUME LoggerAssumption PROVE Bytes(<<>>) = 0
  OBVIOUS
<1>1. <<>> \in Seq(Records) /\ Len(<<>>) = 0
  OBVIOUS
<1>2. PICK f : Sums(f, <<>>) /\ Bytes(<<>>) = f[Len(<<>>)]
  BY <1>1, BytesIs
<1>. QED BY <1>1, <1>2, SumsAre

\* One record has the bytes of its length.
LEMMA BytesOfOne ==
  ASSUME LoggerAssumption, NEW r \in Records
  PROVE  Bytes(<<r>>) = r.len
<1>1. PICK s \in Seq(Records) : s = <<r>>
  <2>1. <<r>> \in Seq(Records)
    OBVIOUS
  <2>. QED BY <2>1
<1>2. Len(s) = 1 /\ s[1] = r /\ r.len \in Nat
  BY <1>1 DEF Records, LoggerAssumption
<1>3. PICK f : Sums(f, s) /\ Bytes(s) = f[Len(s)]
  BY BytesIs
<1>4. f[0] = 0 /\ f[1] = f[0] + s[1].len
  <2>1. 1 \in 1 .. Len(s) /\ 1 - 1 = 0
    BY <1>2
  <2>. QED BY <1>3, <2>1, SumsAre
<1>. QED BY <1>1, <1>2, <1>3, <1>4

\* A record more has its length more.
LEMMA BytesAppend ==
  ASSUME LoggerAssumption, NEW s \in Seq(Records), NEW r \in Records
  PROVE  Bytes(Append(s, r)) = Bytes(s) + r.len /\ Append(s, r) \in Seq(Records)
<1>1. Append(s, r) = s \o <<r>> /\ Append(s, r) \in Seq(Records)
  BY AppendIsConcat, AppendProperties
<1>2. <<r>> \in Seq(Records)
  OBVIOUS
<1>3. Bytes(s \o <<r>>) = Bytes(s) + Bytes(<<r>>)
  BY <1>2, BytesConcat
<1>4. Bytes(<<r>>) = r.len
  BY BytesOfOne
<1>. QED BY <1>1, <1>3, <1>4

-----------------------------------------------------------------------------
(***************************************************************************)
(* Files and records.                                                      *)
(***************************************************************************)
\* Where path is missing there is a file for it.
LEMMA NewFile ==
  ASSUME LoggerAssumption, TypeOK, name[0] = None
  PROVE  \E g \in Files : ~InUse(g)
<1>. DEFINE Given  == {f \in Files : \E n \in 1 .. LogNo : name[n] = f}
            Opened == {f \in Files : \E p \in Procs : fd[p] = f}
            g == [f \in Given |-> CHOOSE n \in 1 .. LogNo : name[n] = f]
            h == [f \in Opened |-> CHOOSE p \in Procs : fd[p] = f]
<1>1. /\ IsFiniteSet(Files) /\ IsFiniteSet(Procs) /\ LogNo \in Nat
      /\ Cardinality(Files) > LogNo + Cardinality(Procs) /\ None \notin Files
  BY DEF LoggerAssumption, None
<1>2. Cardinality(Given) <= LogNo
  <2>1. \A f \in Given : g[f] \in 1 .. LogNo /\ name[g[f]] = f
    OBVIOUS
  <2>2. g \in Injection(Given, 1 .. LogNo)
    BY <2>1 DEF Injection, IsInjective
  <2>3. IsFiniteSet(1 .. LogNo) /\ Cardinality(1 .. LogNo) = LogNo
    BY <1>1, FS_Interval
  <2>. QED BY <2>2, <2>3, FS_Injection
<1>3. Cardinality(Opened) <= Cardinality(Procs)
  <2>1. \A f \in Opened : h[f] \in Procs /\ fd[h[f]] = f
    OBVIOUS
  <2>2. h \in Injection(Opened, Procs)
    BY <2>1 DEF Injection, IsInjective
  <2>. QED BY <1>1, <2>2, FS_Injection
<1>4. Cardinality(Given \cup Opened) <= LogNo + Cardinality(Procs)
  <2>1. IsFiniteSet(Given) /\ IsFiniteSet(Opened) /\ IsFiniteSet(Given \cap Opened)
    BY <1>1, FS_Subset
  <2>. HIDE DEF Given, Opened
  <2>2. /\ Cardinality(Given) \in Nat /\ Cardinality(Opened) \in Nat
        /\ Cardinality(Given \cap Opened) \in Nat /\ Cardinality(Procs) \in Nat
    BY <1>1, <2>1, FS_CardinalityType
  <2>3. Cardinality(Given \cup Opened)
          = Cardinality(Given) + Cardinality(Opened) - Cardinality(Given \cap Opened)
    BY <2>1, FS_Union
  <2>. QED BY <1>1, <1>2, <1>3, <2>2, <2>3
<1>5. SUFFICES ASSUME \A f \in Files : InUse(f) PROVE FALSE
  OBVIOUS
<1>6. Given \cup Opened = Files
  <2>1. ASSUME NEW f \in Files PROVE f \in Given \cup Opened
    <3>1. CASE \E n \in Names : name[n] = f
      <4>1. PICK n \in Names : name[n] = f
        BY <3>1
      <4>2. n # 0
        BY <1>1, <4>1
      <4>. QED BY <1>1, <4>1, <4>2 DEF Names
    <3>2. CASE \E p \in Procs : fd[p] = f
      BY <3>2
    <3>. QED BY <1>5, <3>1, <3>2 DEF InUse
  <2>. QED BY <2>1
<1>. HIDE DEF Given, Opened
<1>7. Cardinality(Files) \in Nat /\ Cardinality(Procs) \in Nat
  BY <1>1, FS_CardinalityType
<1>. QED BY <1>1, <1>4, <1>6, <1>7

\* What open(2) does to path: the file it has, or a new and empty one.
LEMMA OpenPathIs ==
  ASSUME LoggerAssumption, TypeOK, NEW p \in Procs, OpenPath(p)
  PROVE  \E f \in Files :
           /\ fd' = [fd EXCEPT ![p] = f] /\ name' = [name EXCEPT ![0] = f]
           /\ IF name[0] = None THEN ~InUse(f) /\ data' = [data EXCEPT ![f] = <<>>]
              ELSE f = name[0] /\ name' = name /\ data' = data
<1>1. LogNo \in Nat /\ 0 \in Names /\ None \notin Files
  BY DEF LoggerAssumption, Names, None
<1>2. CASE name[0] = None
  <2>. DEFINE f == CHOOSE g \in Files : ~InUse(g)
  <2>1. f \in Files /\ ~InUse(f)
    BY <1>2, NewFile
  <2>2. /\ name' = [name EXCEPT ![0] = f] /\ fd' = [fd EXCEPT ![p] = f]
        /\ data' = [data EXCEPT ![f] = <<>>]
    BY <1>2 DEF OpenPath
  <2>. HIDE DEF f
  <2>. QED BY <1>2, <2>1, <2>2
<1>3. CASE name[0] # None
  <2>1. /\ name' = [name EXCEPT ![0] = name[0]] /\ fd' = [fd EXCEPT ![p] = name[0]]
        /\ data' = [data EXCEPT ![name[0]] = data[name[0]]]
    BY <1>3 DEF OpenPath
  <2>2. name[0] \in Files /\ name' = name /\ data' = data
    BY <1>1, <1>3, <2>1 DEF TypeOK
  <2>. QED BY <1>3, <2>1, <2>2
<1>. QED BY <1>2, <1>3

\* The orders of two sequences together.
LEMMA OrderConcat ==
  ASSUME NEW s \in Seq(Records), NEW t \in Seq(Records)
  PROVE  /\ \A n \in Nat : UpTo(n, s) /\ UpTo(n, t) => UpTo(n, s \o t)
         /\ \A p : NoneBy(p, s) /\ NoneBy(p, t) => NoneBy(p, s \o t)
         /\ InOrder(s) /\ InOrder(t) /\ Precede(s, t) => InOrder(s \o t)
         /\ \A u \in Seq(Records) :
              /\ Precede(s, u) /\ Precede(t, u) => Precede(s \o t, u)
              /\ Precede(u, s) /\ Precede(u, t) => Precede(u, s \o t)
<1>1. PICK w \in Seq(Records) : w = s \o t
  BY ConcatProperties
<1>2. PICK a \in Nat : a = Len(s)
  OBVIOUS
<1>3. PICK b \in Nat : b = Len(t)
  OBVIOUS
<1>4. DOMAIN s = 1 .. a /\ DOMAIN t = 1 .. b /\ DOMAIN w = 1 .. (a + b)
  BY <1>1, <1>2, <1>3, ConcatProperties, LenProperties
<1>5. \A n \in 1 .. (a + b) : w[n] = IF n <= a THEN s[n] ELSE t[n - a]
  BY <1>1, <1>2, <1>3, ConcatProperties
<1>6. \A n \in DOMAIN w : \/ n \in DOMAIN s /\ w[n] = s[n]
                          \/ n - a \in DOMAIN t /\ w[n] = t[n - a] /\ n > a
  BY <1>4, <1>5
<1>7. \A n \in Nat : UpTo(n, s) /\ UpTo(n, t) => UpTo(n, w)
  BY <1>6 DEF UpTo
<1>8. \A p : NoneBy(p, s) /\ NoneBy(p, t) => NoneBy(p, w)
  BY <1>6 DEF NoneBy
<1>9. ASSUME InOrder(s), InOrder(t), Precede(s, t) PROVE InOrder(w)
  <2>. SUFFICES ASSUME NEW m \in DOMAIN w, NEW n \in DOMAIN w, m < n, w[m].by = w[n].by
                PROVE  w[m].no < w[n].no
    BY DEF InOrder
  <2>1. CASE n <= a
    <3>1. m \in DOMAIN s /\ n \in DOMAIN s /\ w[m] = s[m] /\ w[n] = s[n]
      BY <1>4, <1>5, <2>1
    <3>. QED BY <1>9, <3>1 DEF InOrder
  <2>2. CASE m <= a /\ ~(n <= a)
    <3>1. m \in DOMAIN s /\ n - a \in DOMAIN t /\ w[m] = s[m] /\ w[n] = t[n - a]
      BY <1>4, <1>5, <2>2
    <3>. QED BY <1>9, <3>1 DEF Precede
  <2>3. CASE ~(m <= a) /\ ~(n <= a)
    <3>1. /\ m - a \in DOMAIN t /\ n - a \in DOMAIN t /\ m - a < n - a
          /\ w[m] = t[m - a] /\ w[n] = t[n - a]
      BY <1>4, <1>5, <2>3
    <3>. QED BY <1>9, <3>1 DEF InOrder
  <2>4. m \in Nat /\ n \in Nat
    BY <1>4
  <2>. QED BY <2>1, <2>2, <2>3, <2>4
<1>10. \A u \in Seq(Records) : Precede(s, u) /\ Precede(t, u) => Precede(w, u)
  BY <1>6 DEF Precede
<1>11. \A u \in Seq(Records) : Precede(u, s) /\ Precede(u, t) => Precede(u, w)
  BY <1>6 DEF Precede
<1>. QED BY <1>1, <1>7, <1>8, <1>9, <1>10, <1>11

\* Nothing is in any order.
LEMMA OrderEmpty ==
  /\ \A n, p : UpTo(n, <<>>) /\ NoneBy(p, <<>>) /\ OnlyBy(p, <<>>)
  /\ InOrder(<<>>) /\ \A s : Precede(s, <<>>) /\ Precede(<<>>, s)
BY DEF UpTo, NoneBy, OnlyBy, InOrder, Precede

\* Records of one process and of others are in any order.
LEMMA OrderApart ==
  ASSUME NEW s, NEW t, NEW p, NoneBy(p, s), OnlyBy(p, t)
  PROVE  Precede(s, t) /\ Precede(t, s)
BY DEF NoneBy, OnlyBy, Precede

\* A record logged is behind all there are.
LEMMA OrderAppend ==
  ASSUME LoggerAssumption, NEW s \in Seq(Records), NEW r \in Records,
         NEW n \in Nat, r.no = n + 1, UpTo(n, s)
  PROVE  /\ UpTo(n + 1, Append(s, r))
         /\ OnlyBy(r.by, s) => OnlyBy(r.by, Append(s, r))
         /\ InOrder(s) => InOrder(Append(s, r))
         /\ \A d \in Seq(Records) : UpTo(n, d) /\ Precede(d, s) => Precede(d, Append(s, r))
<1>1. PICK w \in Seq(Records) : w = Append(s, r)
  BY AppendProperties
<1>2. PICK a \in Nat : a = Len(s)
  OBVIOUS
<1>3. DOMAIN s = 1 .. a /\ DOMAIN w = 1 .. (a + 1)
  BY <1>1, <1>2, AppendProperties, LenProperties
<1>4. /\ \A m \in 1 .. a : w[m] = s[m]
      /\ w[a + 1] = r
  BY <1>1, <1>2, AppendProperties
<1>5. \A m \in DOMAIN w : (m \in DOMAIN s /\ w[m] = s[m]) \/ (m = a + 1 /\ w[m] = r)
  BY <1>3, <1>4
<1>6. \A d \in Seq(Records) : \A m \in DOMAIN d : d[m].no \in Nat
  <2>1. \A d \in Seq(Records) : \A m \in DOMAIN d : d[m] \in Records
    BY LenProperties, ElementOfSeq
  <2>2. \A x \in Records : x.no \in Nat
    BY DEF Records, LoggerAssumption
  <2>. QED BY <2>1, <2>2
<1>7. UpTo(n + 1, w)
  BY <1>5, <1>6 DEF UpTo
<1>8. OnlyBy(r.by, s) => OnlyBy(r.by, w)
  BY <1>5 DEF OnlyBy
<1>9. ASSUME InOrder(s) PROVE InOrder(w)
  <2>. SUFFICES ASSUME NEW k \in DOMAIN w, NEW m \in DOMAIN w, k < m, w[k].by = w[m].by
                PROVE  w[k].no < w[m].no
    BY DEF InOrder
  <2>1. k \in DOMAIN s /\ w[k] = s[k]
    BY <1>3, <1>5
  <2>2. CASE m \in DOMAIN s /\ w[m] = s[m]
    BY <1>9, <2>1, <2>2 DEF InOrder
  <2>3. CASE w[m] = r
    BY <1>6, <2>1, <2>3 DEF UpTo
  <2>. QED BY <1>5, <2>2, <2>3
<1>10. ASSUME NEW d \in Seq(Records), UpTo(n, d), Precede(d, s) PROVE Precede(d, w)
  <2>. SUFFICES ASSUME NEW k \in DOMAIN d, NEW m \in DOMAIN w, d[k].by = w[m].by
                PROVE  d[k].no < w[m].no
    BY DEF Precede
  <2>1. CASE m \in DOMAIN s /\ w[m] = s[m]
    BY <1>10, <2>1 DEF Precede
  <2>2. CASE w[m] = r
    BY <1>6, <1>10, <2>2 DEF UpTo
  <2>. QED BY <1>5, <2>1, <2>2
<1>. QED BY <1>1, <1>7, <1>8, <1>9, <1>10

-----------------------------------------------------------------------------
(***************************************************************************)
(* Pieces of what was written.                                             *)
(***************************************************************************)
LEMMA PieceIs ==
  ASSUME NEW s \in Seq(Records), NEW a \in Nat, NEW b \in Nat, a <= b, b <= Len(s)
  PROVE  SubSeq(s, a + 1, b) \in Seq(Records) /\ SubSeq(s, a + 1, a) = <<>>
<1>1. \A n \in (a + 1) .. b : n \in 1 .. Len(s)
  OBVIOUS
<1>2. \A n \in (a + 1) .. b : s[n] \in Records
  BY <1>1, ElementOfSeq
<1>3. a + 1 \in Int /\ b \in Int /\ a < a + 1
  OBVIOUS
<1>4. SubSeq(s, a + 1, b) \in Seq(Records)
  BY <1>2, <1>3, SubSeqProperties
<1>5. SubSeq(s, a + 1, a) = <<>>
  BY <1>3, SubSeqEmpty
<1>. QED BY <1>4, <1>5

\* Two pieces side by side are one.
LEMMA PiecesJoin ==
  ASSUME NEW s \in Seq(Records), NEW a \in Nat, NEW b \in Nat, NEW c \in Nat,
         a <= b, b <= c, c <= Len(s)
  PROVE  SubSeq(s, a + 1, b) \o SubSeq(s, b + 1, c) = SubSeq(s, a + 1, c)
<1>1. Len(s) \in Nat
  OBVIOUS
<1>2. a + 1 \in 1 .. Len(s) + 1 /\ b \in (a + 1) - 1 .. Len(s) /\ c \in b .. Len(s)
  BY <1>1
<1>. QED BY <1>2, ConcatAdjacentSubSeq

\* What is written later leaves the pieces there are, and goes on with the last.
LEMMA PieceStays ==
  ASSUME NEW s \in Seq(Records), NEW t \in Seq(Records),
         NEW a \in Nat, NEW b \in Nat, a <= b, b <= Len(s)
  PROVE  SubSeq(s \o t, a + 1, b) = SubSeq(s, a + 1, b)
<1>1. CASE a = b
  <2>1. SubSeq(s, a + 1, b) = <<>> /\ SubSeq(s \o t, a + 1, b) = <<>>
    BY <1>1, SubSeqEmpty
  <2>. QED BY <2>1
<1>2. CASE a # b
  <2>1. a + 1 \in 1 .. Len(s) /\ b \in 1 .. Len(s)
    BY <1>2
  <2>. QED BY <2>1, SubSeqOfConcat1
<1>. QED BY <1>1, <1>2

\* The last piece goes on with what is written.
LEMMA PieceGrows ==
  ASSUME NEW s \in Seq(Records), NEW t \in Seq(Records), NEW a \in Nat, a <= Len(s)
  PROVE  /\ s \o t \in Seq(Records) /\ Len(s \o t) = Len(s) + Len(t)
         /\ SubSeq(s \o t, a + 1, Len(s \o t)) = SubSeq(s, a + 1, Len(s)) \o t
<1>1. PICK u \in Seq(Records) : u = s \o t
  BY ConcatProperties
<1>2. PICK n \in Nat : n = Len(s)
  OBVIOUS
<1>3. PICK m \in Nat : m = Len(t)
  OBVIOUS
<1>4. Len(u) = n + m
  BY <1>1, <1>2, <1>3
<1>5. SubSeq(u, a + 1, n) \o SubSeq(u, n + 1, n + m) = SubSeq(u, a + 1, n + m)
  <2>1. n + m \in Nat /\ a <= n /\ n <= n + m /\ n + m <= Len(u)
    BY <1>2, <1>4
  <2>. QED BY <2>1, PiecesJoin
<1>6. SubSeq(u, a + 1, n) = SubSeq(s, a + 1, n)
  BY <1>1, <1>2, PieceStays
<1>7. SubSeq(u, n + 1, n + m) = t
  <2>1. CASE m = 0
    <3>1. SubSeq(u, n + 1, n + m) = <<>>
      BY <2>1, SubSeqEmpty
    <3>2. t = <<>>
      BY <1>3, <2>1, EmptySeq
    <3>. QED BY <3>1, <3>2
  <2>2. CASE m # 0
    <3>1. n + 1 \in Len(s) + 1 .. Len(s) + Len(t) /\ n + m \in Len(s) + 1 .. Len(s) + Len(t)
      BY <1>2, <1>3, <2>2
    <3>2. SubSeq(s \o t, n + 1, n + m) = SubSeq(t, (n + 1) - Len(s), (n + m) - Len(s))
      BY <3>1, SubSeqOfConcat2
    <3>3. (n + 1) - Len(s) = 1 /\ (n + m) - Len(s) = Len(t)
      BY <1>2, <1>3
    <3>4. SubSeq(t, 1, Len(t)) = t
      BY SubSeqFull
    <3>. QED BY <1>1, <3>2, <3>3, <3>4
  <2>. QED BY <2>1, <2>2
<1>. QED BY <1>1, <1>2, <1>3, <1>4, <1>5, <1>6, <1>7

-----------------------------------------------------------------------------
(***************************************************************************)
(* What a write hands to a file: the buffer, or the front part of it.      *)
(***************************************************************************)
PartOf(out, records) ==
  /\ DOMAIN out \subseteq DOMAIN records
  /\ \A m \in DOMAIN out : out[m].by = records[m].by /\ out[m].no = records[m].no
  /\ Bytes(out) <= Bytes(records)

\* The whole is a part of itself.
LEMMA WholeIs ==
  ASSUME LoggerAssumption, NEW s \in Seq(Records)
  PROVE  PartOf(s, s)
<1>1. Bytes(s) \in Nat
  BY BytesIs
<1>. QED BY <1>1 DEF PartOf

\* A record cut short is a record.
LEMMA CutIs ==
  ASSUME LoggerAssumption, NEW s \in Seq(Records), NEW k \in 0 .. (Len(s) - 1),
         NEW n \in 0 .. (s[k + 1].len - 1)
  PROVE  /\ s[k + 1] \in Records /\ n \in Nat /\ n <= s[k + 1].len
         /\ [s[k + 1] EXCEPT !.len = n] \in Records
         /\ [s[k + 1] EXCEPT !.len = n].by = s[k + 1].by
         /\ [s[k + 1] EXCEPT !.len = n].no = s[k + 1].no
         /\ [s[k + 1] EXCEPT !.len = n].len = n
<1>1. k + 1 \in 1 .. Len(s)
  OBVIOUS
<1>2. PICK r \in Records : r = s[k + 1]
  BY <1>1, ElementOfSeq
<1>3. r.len \in Nat /\ n \in Nat /\ n <= r.len
  <2>1. r.len \in Nat
    BY DEF Records
  <2>. QED BY <1>2, <2>1
<1>4. /\ [r EXCEPT !.len = n] \in Records
      /\ [r EXCEPT !.len = n].by = r.by /\ [r EXCEPT !.len = n].no = r.no
      /\ [r EXCEPT !.len = n].len = n
  BY <1>3 DEF Records
<1>. QED BY <1>2, <1>3, <1>4

\* What a short write leaves in a file.
LEMMA PartIs ==
  ASSUME LoggerAssumption, NEW s \in Seq(Records), NEW k \in 0 .. (Len(s) - 1),
         NEW n \in 0 .. (s[k + 1].len - 1)
  PROVE  Part(s, k, n) \in Seq(Records) /\ PartOf(Part(s, k, n), s)
<1>17. PICK r \in Records : r = [s[k + 1] EXCEPT !.len = n] /\ r.len = n
  <2>1. /\ [s[k + 1] EXCEPT !.len = n] \in Records
        /\ [s[k + 1] EXCEPT !.len = n].len = n
    BY CutIs
  <2>. QED BY <2>1
<1>18. n \in Nat /\ n <= s[k + 1].len /\ s[k + 1] \in Records
  BY CutIs
<1>1. PICK a \in Nat : a = Len(s)
  OBVIOUS
<1>2. k \in Nat /\ k + 1 \in Nat /\ k + 1 <= a /\ k <= a
  BY <1>1
<1>3. PICK front \in Seq(Records) : front = SubSeq(s, 1, k)
  <2>1. SubSeq(s, 0 + 1, k) \in Seq(Records)
    BY <1>1, <1>2, PieceIs
  <2>2. 0 + 1 = 1
    OBVIOUS
  <2>3. SubSeq(s, 1, k) \in Seq(Records)
    BY <2>1, <2>2
  <2>. QED BY <2>3
<1>4. Len(front) = k /\ \A m \in 1 .. k : front[m] = s[m]
  <2>1. \A m \in 1 .. k : s[m] \in Records
    BY <1>1, <1>2, ElementOfSeq
  <2>2. Len(SubSeq(s, 1, k)) = IF 1 <= k THEN k - 1 + 1 ELSE 0
    BY <1>2, <2>1, SubSeqProperties
  <2>3. \A m \in 1 .. (k - 1 + 1) : SubSeq(s, 1, k)[m] = s[1 + m - 1]
    BY <1>2, <2>1, SubSeqProperties
  <2>4. k - 1 + 1 = k /\ \A m \in 1 .. k : 1 + m - 1 = m
    BY <1>2
  <2>. QED BY <1>2, <1>3, <2>2, <2>3, <2>4
<1>5. PICK one \in Seq(Records) : one = SubSeq(s, k + 1, k + 1)
  <2>1. SubSeq(s, k + 1, k + 1) \in Seq(Records)
    BY <1>1, <1>2, PieceIs
  <2>. QED BY <2>1
<1>6. PICK rest \in Seq(Records) : rest = SubSeq(s, k + 2, a)
  <2>1. SubSeq(s, (k + 1) + 1, a) \in Seq(Records)
    BY <1>1, <1>2, PieceIs
  <2>2. (k + 1) + 1 = k + 2
    BY <1>2
  <2>. QED BY <2>1, <2>2
<1>7. (front \o one) \o rest = s
  <2>1. SubSeq(s, 0 + 1, k) \o SubSeq(s, k + 1, k + 1) = SubSeq(s, 0 + 1, k + 1)
    <3>1. 0 \in Nat /\ 0 <= k /\ k <= k + 1 /\ k + 1 <= Len(s)
      BY <1>1, <1>2
    <3>. QED BY <1>2, <3>1, PiecesJoin
  <2>2. SubSeq(s, 0 + 1, k + 1) \o SubSeq(s, (k + 1) + 1, a) = SubSeq(s, 0 + 1, a)
    <3>1. 0 \in Nat /\ 0 <= k + 1 /\ k + 1 <= a /\ a <= Len(s)
      BY <1>1, <1>2
    <3>. QED BY <1>2, <3>1, PiecesJoin
  <2>3. SubSeq(s, 1, a) = s
    BY <1>1, SubSeqFull
  <2>4. 0 + 1 = 1 /\ (k + 1) + 1 = k + 2
    BY <1>2
  <2>. QED BY <1>3, <1>5, <1>6, <2>1, <2>2, <2>3, <2>4
<1>8. Bytes(s) = Bytes(front) + Bytes(one) + Bytes(rest)
  <2>1. PICK both \in Seq(Records) : both = front \o one
    BY ConcatProperties
  <2>2. Bytes(both) = Bytes(front) + Bytes(one)
    BY <2>1, BytesConcat
  <2>3. Bytes(both \o rest) = Bytes(both) + Bytes(rest)
    BY BytesConcat
  <2>. QED BY <1>7, <2>1, <2>2, <2>3
<1>9. Bytes(one) = s[k + 1].len
  <2>1. one = <<s[k + 1]>>
    <3>1. k + 1 \in 1 .. Len(s)
      BY <1>1, <1>2
    <3>2. \A m \in (k + 1) .. (k + 1) : s[m] \in Records
      BY <3>1, ElementOfSeq
    <3>3. Len(SubSeq(s, k + 1, k + 1)) = IF k + 1 <= k + 1 THEN (k + 1) - (k + 1) + 1 ELSE 0
      BY <1>2, <3>2, SubSeqProperties
    <3>4. \A m \in 1 .. ((k + 1) - (k + 1) + 1) : SubSeq(s, k + 1, k + 1)[m] = s[(k + 1) + m - 1]
      BY <1>2, <3>2, SubSeqProperties
    <3>5. (k + 1) - (k + 1) + 1 = 1 /\ (k + 1) + 1 - 1 = k + 1 /\ 1 \in 1 .. 1
      BY <1>2
    <3>6. Len(one) = 1 /\ one[1] = s[k + 1]
      BY <1>2, <1>5, <3>3, <3>4, <3>5
    <3>. QED BY <3>6
  <2>. QED BY <2>1, CutIs, BytesOfOne
<1>10. PICK cut \in Seq(Records) :
         cut = IF n = 0 THEN <<>> ELSE <<[s[k + 1] EXCEPT !.len = n]>>
  <2>1. <<>> \in Seq(Records)
    BY EmptySeq
  <2>2. <<[s[k + 1] EXCEPT !.len = n]>> \in Seq(Records)
    BY CutIs
  <2>. QED BY <2>1, <2>2
<1>11. Part(s, k, n) = front \o cut
  BY <1>3, <1>10 DEF Part
<1>12. Bytes(cut) <= Bytes(one) /\ Bytes(cut) \in Nat
  <2>1. CASE n = 0
    <3>1. Bytes(cut) = 0
      BY <1>10, <2>1, BytesOfNone
    <3>2. Bytes(one) \in Nat
      BY BytesIs
    <3>. QED BY <3>1, <3>2
  <2>2. CASE n # 0
    <3>2. cut = <<r>>
      BY <1>17, <1>10, <2>2
    <3>3. Bytes(cut) = n
      BY <1>17, <3>2, BytesOfOne
    <3>4. n \in Nat /\ n <= Bytes(one)
      BY <1>18, <1>9
    <3>. QED BY <3>3, <3>4
  <2>. QED BY <2>1, <2>2
<1>13. PICK out \in Seq(Records) : out = front \o cut
  BY ConcatProperties
<1>14. Bytes(out) <= Bytes(s)
  <2>1. Bytes(front) \in Nat /\ Bytes(one) \in Nat /\ Bytes(rest) \in Nat
    BY BytesIs
  <2>2. Bytes(out) = Bytes(front) + Bytes(cut)
    BY <1>13, BytesConcat
  <2>. QED BY <1>8, <1>12, <2>1, <2>2
<1>15. Len(cut) = IF n = 0 THEN 0 ELSE 1
  BY <1>10
<1>16. /\ DOMAIN out \subseteq DOMAIN s
       /\ \A m \in DOMAIN out : out[m].by = s[m].by /\ out[m].no = s[m].no
  <2>1. DOMAIN s = 1 .. a /\ DOMAIN out = 1 .. (k + Len(cut))
    BY <1>1, <1>4, <1>13, ConcatProperties, LenProperties
  <2>2. \A m \in 1 .. (k + Len(cut)) : out[m] = IF m <= k THEN front[m] ELSE cut[m - k]
    BY <1>4, <1>13, ConcatProperties
  <2>. SUFFICES ASSUME NEW m \in DOMAIN out
                PROVE  m \in 1 .. a /\ out[m].by = s[m].by /\ out[m].no = s[m].no
    BY <2>1
  <2>3. m \in Nat /\ 1 <= m /\ m <= k + Len(cut)
    BY <2>1
  <2>4. CASE m <= k
    BY <1>2, <1>4, <2>1, <2>2, <2>3, <2>4
  <2>5. CASE ~(m <= k)
    <3>1. n # 0 /\ m = k + 1 /\ m - k = 1
      <4>1. PICK l \in Nat : l = Len(cut)
        OBVIOUS
      <4>2. l = IF n = 0 THEN 0 ELSE 1
        BY <1>15, <4>1
      <4>3. k < m /\ m <= k + l
        BY <1>2, <2>3, <2>5, <4>1
      <4>. HIDE DEF Part
      <4>. QED BY <1>2, <2>3, <4>2, <4>3
    <3>2. out[m] = cut[1] /\ cut[1] = [s[k + 1] EXCEPT !.len = n]
      BY <1>10, <2>1, <2>2, <2>5, <3>1
    <3>. QED BY <1>2, <3>1, <3>2, CutIs
  <2>. QED BY <2>4, <2>5
<1>. QED BY <1>11, <1>13, <1>14, <1>16 DEF PartOf

\* A write is a write of a part of the buffer.
LEMMA WritesIs ==
  ASSUME LoggerAssumption, TypeOK, NEW p \in Procs, Writes(p) \/ WritesShort(p)
  PROVE  \E out \in Seq(Records) : PartOf(out, buf[p]) /\ Reaches(p, out)
<1>1. buf[p] \in Seq(Records)
  BY DEF TypeOK
<1>2. CASE Writes(p)
  BY <1>1, <1>2, WholeIs DEF Writes
<1>3. CASE WritesShort(p)
  <2>1. PICK k \in 0 .. (Len(buf[p]) - 1) :
          \E n \in 0 .. (buf[p][k + 1].len - 1) : Reaches(p, Part(buf[p], k, n))
    BY <1>3 DEF WritesShort
  <2>2. PICK n \in 0 .. (buf[p][k + 1].len - 1) : Reaches(p, Part(buf[p], k, n))
    BY <2>1
  <2>3. Part(buf[p], k, n) \in Seq(Records) /\ PartOf(Part(buf[p], k, n), buf[p])
    BY <1>1, PartIs
  <2>. QED BY <2>2, <2>3
<1>. QED BY <1>2, <1>3

\* A part keeps the order of the whole.
LEMMA PartOrder ==
  ASSUME NEW s \in Seq(Records), NEW out \in Seq(Records), PartOf(out, s)
  PROVE  /\ \A p : OnlyBy(p, s) => OnlyBy(p, out)
         /\ \A n : UpTo(n, s) => UpTo(n, out)
         /\ InOrder(s) => InOrder(out)
         /\ \A d : Precede(d, s) => Precede(d, out)
BY DEF PartOf, OnlyBy, UpTo, InOrder, Precede

-----------------------------------------------------------------------------
(***************************************************************************)
(* Types, names and places.                                                *)
(***************************************************************************)
LEMMA Constants ==
  ASSUME LoggerAssumption
  PROVE  /\ LogNo \in Nat /\ LogSizes \subseteq Nat \ {0} /\ MaxRecords \in Nat
         /\ None \notin Files /\ 0 \in Names /\ Names = 0 .. LogNo
         /\ \A m \in Modes : m.arg \in Int
BY DEF LoggerAssumption, Names, None

\* No file has a name and nobody is in the log at the start.
LEMMA InitShape == LoggerAssumption /\ Init => Shape
<1>. SUFFICES ASSUME LoggerAssumption, Init PROVE Shape
  OBVIOUS
<1>1. <<>> \in Seq(Records)
  BY EmptySeq
<1>2. TypeOK
  <2>1. PICK m \in Modes, n \in LogSizes :
          mode = [p \in Procs |-> m] /\ size = [p \in Procs |-> n]
    BY DEF Init
  <2>2. mode \in [Procs -> Modes] /\ size \in [Procs -> LogSizes]
    BY <2>1
  <2>3. /\ buf \in [Procs -> Seq(Records)]
        /\ data \in [Files -> Seq(Records)] /\ written \in Seq(Records)
    BY <1>1 DEF Init
  <2>4. /\ pc \in [Procs -> {"closed", "idle", "write", "stat", "reopen", "access", "unlink", "rename"}]
        /\ fd \in [Procs -> Files \cup {None}] /\ name \in [Names -> Files \cup {None}]
    BY DEF Init
  <2>5. len \in [Procs -> Nat] /\ i \in [Procs -> Nat] /\ opens \in [Procs -> Nat]
    BY DEF Init
  <2>6. logged \in 0 .. MaxRecords
    <3>1. logged = 0 /\ 0 \in 0 .. MaxRecords
      BY Constants DEF Init
    <3>. QED BY <3>1
  <2>. QED BY <2>2, <2>3, <2>4, <2>5, <2>6 DEF TypeOK
<1>. QED BY <1>2, Constants DEF Init, Shape, InRange, OneName, LastUnused, Unopened, Closed, Shifting

\* A step that leaves the names and who opened what.
LEMMA ShapeLeft ==
  ASSUME Shape, TypeOK', UNCHANGED <<fd, name, opens>>, NEW p \in Procs,
         \A q \in Procs \ {p} : pc'[q] = pc[q] /\ i'[q] = i[q],
         pc[p] # "closed", pc'[p] # "closed", pc'[p] \in Shifting => i'[p] + 2 <= LogNo
  PROVE  Shape'
BY DEF Shape, InRange, OneName, LastUnused, Unopened, Closed

\* open and the reopening of a shift give path a file nobody has.
LEMMA OpensShape ==
  ASSUME LoggerAssumption, Shape, NEW p \in Procs, OpenPath(p), GoTo(p, "idle"),
         UNCHANGED <<mode, buf, len, i, logged, written>>, size' \in [Procs -> LogSizes],
         \/ opens' = [opens EXCEPT ![p] = @ + 1]
         \/ opens' = opens /\ pc[p] # "closed"
  PROVE  Shape'
<1>. USE Constants
<1>1. PICK f \in Files :
        /\ fd' = [fd EXCEPT ![p] = f] /\ name' = [name EXCEPT ![0] = f]
        /\ IF name[0] = None THEN ~InUse(f) /\ data' = [data EXCEPT ![f] = <<>>]
           ELSE f = name[0] /\ name' = name /\ data' = data
  BY OpenPathIs DEF Shape
<1>2. TypeOK'
  <2>1. data' \in [Files -> Seq(Records)]
    <3>1. <<>> \in Seq(Records)
      BY EmptySeq
    <3>. QED BY <1>1, <3>1 DEF Shape, TypeOK
  <2>2. pc' \in [Procs -> {"closed", "idle", "write", "stat", "reopen", "access", "unlink", "rename"}]
    BY DEF Shape, TypeOK, GoTo
  <2>3. fd' \in [Procs -> Files \cup {None}] /\ name' \in [Names -> Files \cup {None}]
    BY <1>1 DEF Shape, TypeOK
  <2>4. opens' \in [Procs -> Nat]
    <3>1. opens \in [Procs -> Nat] /\ opens[p] + 1 \in Nat
      BY DEF Shape, TypeOK
    <3>2. CASE opens' = [opens EXCEPT ![p] = @ + 1]
      BY <3>1, <3>2
    <3>3. CASE opens' = opens
      BY <3>1, <3>3
    <3>. QED BY <3>2, <3>3
  <2>. QED BY <2>1, <2>2, <2>3, <2>4 DEF Shape, TypeOK
<1>3. InRange'
  BY DEF Shape, InRange, GoTo, TypeOK, Shifting
<1>4. OneName'
  <2>1. CASE name[0] = None
    <3>1. name'[0] = f /\ \A n \in Names \ {0} : name'[n] = name[n] /\ name[n] # f
      BY <1>1, <2>1 DEF Shape, TypeOK, InUse
    <3>. QED BY <3>1 DEF Shape, OneName
  <2>2. CASE name[0] # None
    BY <1>1, <2>2 DEF Shape, OneName
  <2>. QED BY <2>1, <2>2
<1>5. LastUnused'
  <2>1. LogNo >= 2 => name'[LogNo] = name[LogNo]
    <3>1. \A n \in Names : n # 0 => name'[n] = name[n]
      BY <1>1 DEF Shape, TypeOK
    <3>. QED BY <3>1
  <2>. QED BY <2>1 DEF Shape, LastUnused
<1>6. Unopened'
  BY DEF Shape, Unopened, TypeOK, GoTo
<1>7. Closed'
  BY <1>1 DEF Shape, Closed, TypeOK, GoTo
<1>. QED BY <1>2, <1>3, <1>4, <1>5, <1>6, <1>7 DEF Shape

\* A record logged is a record in the buffer.
LEMMA LogvShape ==
  ASSUME LoggerAssumption, Shape, NEW p \in Procs, logv(p)
  PROVE  Shape'
<1>1. PICK l \in Lens :
        /\ buf' = [buf EXCEPT ![p] = Append(@, [by |-> p, no |-> logged + 1, len |-> l])]
        /\ len' = [len EXCEPT ![p] = @ + l]
        /\ logged' = logged + 1
        /\ IF Waits(mode[p], len[p] + l) THEN UNCHANGED pc ELSE GoTo(p, "write")
  BY DEF logv
<1>2. pc[p] = "idle" /\ logged < MaxRecords /\ UNCHANGED <<fd, self, i, disk, opens>>
  BY DEF logv
<1>3. pc'[p] \in {"idle", "write"} /\ \A q \in Procs \ {p} : pc'[q] = pc[q]
  BY <1>1, <1>2 DEF GoTo, Shape, TypeOK
<1>4. TypeOK'
  <2>1. buf' \in [Procs -> Seq(Records)]
    <3>1. [by |-> p, no |-> logged + 1, len |-> l] \in Records
      BY <1>2, Constants DEF Records, Shape, TypeOK, LoggerAssumption
    <3>2. Append(buf[p], [by |-> p, no |-> logged + 1, len |-> l]) \in Seq(Records)
      BY <3>1, AppendProperties DEF Shape, TypeOK
    <3>. QED BY <1>1, <3>2 DEF Shape, TypeOK
  <2>2. len' \in [Procs -> Nat]
    BY <1>1 DEF Shape, TypeOK, LoggerAssumption
  <2>3. pc' \in [Procs -> {"closed", "idle", "write", "stat", "reopen", "access", "unlink", "rename"}]
    BY <1>1 DEF Shape, TypeOK, GoTo
  <2>4. logged' \in 0 .. MaxRecords
    BY <1>1, <1>2, Constants DEF Shape, TypeOK
  <2>. QED BY <1>2, <2>1, <2>2, <2>3, <2>4 DEF Shape, TypeOK, self, disk
<1>. QED BY <1>2, <1>3, <1>4, ShapeLeft DEF disk, Shifting

\* What is written is a sequence of records still.
LEMMA WritesShape ==
  ASSUME LoggerAssumption, Shape, NEW p \in Procs, NEW out \in Seq(Records), Reaches(p, out)
  PROVE  Shape'
<1>1. pc[p] = "write" /\ pc'[p] = "stat" /\ \A q \in Procs \ {p} : pc'[q] = pc[q]
  BY DEF Reaches, GoTo, Shape, TypeOK
<1>2. TypeOK'
  <2>1. data' \in [Files -> Seq(Records)] /\ written' \in Seq(Records)
    <3>1. CASE fd[p] = None
      BY <3>1 DEF Reaches, Shape, TypeOK
    <3>2. CASE fd[p] # None
      <4>1. fd[p] \in Files
        BY <3>2 DEF Shape, TypeOK
      <4>2. data[fd[p]] \o out \in Seq(Records) /\ written \o out \in Seq(Records)
        BY <4>1, ConcatProperties DEF Shape, TypeOK
      <4>3. /\ data' = [data EXCEPT ![fd[p]] = data[fd[p]] \o out]
            /\ written' = written \o out
        BY <3>2 DEF Reaches
      <4>. QED BY <4>1, <4>2, <4>3 DEF Shape, TypeOK
    <3>. QED BY <3>1, <3>2
  <2>2. buf' \in [Procs -> Seq(Records)] /\ len' \in [Procs -> Nat]
    <3>1. <<>> \in Seq(Records)
      BY EmptySeq
    <3>. QED BY <3>1 DEF Reaches, Shape, TypeOK
  <2>3. pc' \in [Procs -> {"closed", "idle", "write", "stat", "reopen", "access", "unlink", "rename"}]
    BY DEF Reaches, Shape, TypeOK, GoTo
  <2>. QED BY <2>1, <2>2, <2>3 DEF Reaches, Shape, TypeOK, self
<1>. QED BY <1>1, <1>2, ShapeLeft DEF Reaches, Shifting

\* A shift starts with two names or more, at the last but one.
LEMMA StatsShape ==
  ASSUME LoggerAssumption, Shape, NEW p \in Procs, Stats(p)
  PROVE  Shape'
<1>. DEFINE full == name[0] # None /\ Bytes(data[name[0]]) >= size[p] /\ LogNo >= 2
<1>1. /\ pc[p] = "stat" /\ i' = [i EXCEPT ![p] = IF full THEN LogNo - 2 ELSE 0]
      /\ GoTo(p, IF name[0] = None THEN "reopen" ELSE IF full THEN "access" ELSE "idle")
      /\ UNCHANGED <<fd, self, buf, len, disk, logged, opens>>
  BY DEF Stats
<1>2. full => LogNo >= 2
  OBVIOUS
<1>. HIDE DEF full
<1>3. i' \in [Procs -> Nat] /\ (pc'[p] = "access" => i'[p] + 2 <= LogNo)
  BY <1>1, <1>2, Constants DEF Shape, TypeOK, GoTo
<1>4. TypeOK'
  BY <1>1, <1>3 DEF Shape, TypeOK, GoTo, self, disk
<1>5. /\ pc'[p] \in {"reopen", "access", "idle"}
      /\ \A q \in Procs \ {p} : pc'[q] = pc[q] /\ i'[q] = i[q]
  BY <1>1 DEF Shape, TypeOK, GoTo
<1>. QED BY <1>1, <1>3, <1>4, <1>5, ShapeLeft DEF disk, Shifting

\* The loop goes on with the next newer name or ends.
LEMMA OnwardsIs ==
  ASSUME LoggerAssumption, Shape, NEW p \in Procs, pc[p] \in Shifting, Onwards(p)
  PROVE  /\ i' \in [Procs -> Nat] /\ i'[p] + 2 <= LogNo
         /\ pc' = [pc EXCEPT ![p] = IF i[p] = 0 THEN "idle" ELSE "access"]
         /\ i[p] # 0 => i'[p] + 1 = i[p]
         /\ \A q \in Procs \ {p} : pc'[q] = pc[q] /\ i'[q] = i[q]
<1>1. i[p] \in Nat /\ i[p] + 2 <= LogNo /\ LogNo \in Nat
  BY Constants DEF Shape, InRange, TypeOK
<1>2. /\ pc' = [pc EXCEPT ![p] = IF i[p] = 0 THEN "idle" ELSE "access"]
      /\ i' = [i EXCEPT ![p] = IF i[p] = 0 THEN 0 ELSE i[p] - 1]
  BY DEF Onwards, GoTo
<1>3. i \in [Procs -> Nat] /\ pc = [q \in Procs |-> pc[q]]
  BY DEF Shape, TypeOK
<1>4. CASE i[p] = 0
  <2>1. i' = [i EXCEPT ![p] = 0]
    BY <1>2, <1>4
  <2>. QED BY <1>1, <1>2, <1>3, <1>4, <2>1
<1>5. CASE i[p] # 0
  <2>1. i' = [i EXCEPT ![p] = i[p] - 1] /\ i[p] - 1 \in Nat
    BY <1>1, <1>2, <1>5
  <2>. QED BY <1>1, <1>2, <1>3, <1>5, <2>1
<1>. QED BY <1>4, <1>5

\* The loop of a shift stays within the names and leaves the last one free.
LEMMA LoopShape ==
  ASSUME LoggerAssumption, Shape, NEW p \in Procs, pc[p] \in Shifting,
         \/ Onwards(p)
         \/ GoTo(p, "unlink") /\ UNCHANGED i
         \/ GoTo(p, "rename") /\ UNCHANGED i
         \/ GoTo(p, "idle") /\ i' = [i EXCEPT ![p] = 0],
         UNCHANGED <<fd, self, buf, len, data, logged, opens, written>>,
         \/ name' = name
         \/ name' = [name EXCEPT ![i[p] + 1] = None]
         \/ name' = [name EXCEPT ![i[p] + 1] = name[i[p]], ![i[p]] = None]
  PROVE  Shape'
<1>. USE Constants
<1>1. i[p] \in Nat /\ i[p] + 2 <= LogNo /\ i[p] \in Names /\ i[p] + 1 \in Names
  BY DEF Shape, InRange, TypeOK
<1>2. /\ i' \in [Procs -> Nat] /\ (pc'[p] # "idle" => i'[p] + 2 <= LogNo)
      /\ pc'[p] \in {"idle", "access", "unlink", "rename"}
      /\ pc' \in [Procs -> {"closed", "idle", "write", "stat", "reopen", "access", "unlink", "rename"}]
      /\ \A q \in Procs \ {p} : pc'[q] = pc[q] /\ i'[q] = i[q]
  <2>1. CASE Onwards(p)
    <3>1. /\ i' \in [Procs -> Nat] /\ i'[p] + 2 <= LogNo
          /\ pc' = [pc EXCEPT ![p] = IF i[p] = 0 THEN "idle" ELSE "access"]
          /\ \A q \in Procs \ {p} : pc'[q] = pc[q] /\ i'[q] = i[q]
      BY <2>1, OnwardsIs
    <3>2. (IF i[p] = 0 THEN "idle" ELSE "access") \in {"idle", "access"}
      OBVIOUS
    <3>. QED BY <3>1, <3>2 DEF Shape, TypeOK
  <2>2. CASE GoTo(p, "unlink") /\ UNCHANGED i
    BY <1>1, <2>2 DEF Shape, TypeOK, GoTo
  <2>3. CASE GoTo(p, "rename") /\ UNCHANGED i
    BY <1>1, <2>3 DEF Shape, TypeOK, GoTo
  <2>4. CASE GoTo(p, "idle") /\ i' = [i EXCEPT ![p] = 0]
    BY <1>1, <2>4 DEF Shape, TypeOK, GoTo
  <2>. QED BY <2>1, <2>2, <2>3, <2>4
<1>3. name' \in [Names -> Files \cup {None}]
  BY <1>1 DEF Shape, TypeOK
<1>4. TypeOK'
  BY <1>2, <1>3 DEF Shape, TypeOK, self
<1>5. OneName' /\ LastUnused'
  <2>1. CASE name' = name
    BY <2>1 DEF Shape, OneName, LastUnused
  <2>2. CASE name' = [name EXCEPT ![i[p] + 1] = None]
    BY <1>1, <2>2 DEF Shape, OneName, LastUnused, TypeOK
  <2>3. CASE name' = [name EXCEPT ![i[p] + 1] = name[i[p]], ![i[p]] = None]
    <3>1. /\ name'[i[p]] = None /\ name'[i[p] + 1] = name[i[p]]
          /\ \A n \in Names \ {i[p], i[p] + 1} : name'[n] = name[n]
      <4>1. name = [n \in Names |-> name[n]] /\ i[p] # i[p] + 1
        BY <1>1 DEF Shape, TypeOK
      <4>2. \A n \in Names : name'[n] = IF n = i[p] THEN None
                                      ELSE IF n = i[p] + 1 THEN name[i[p]] ELSE name[n]
        BY <2>3, <4>1
      <4>. QED BY <1>1, <4>1, <4>2
    <3>2. OneName'
      <4>. SUFFICES ASSUME NEW a \in Names, NEW b \in Names, name'[a] = name'[b], name'[a] # None
                    PROVE  a = b
        BY DEF OneName
      <4>1. PICK j \in Names : j = i[p]
        BY <1>1
      <4>2. a # j /\ b # j
        BY <3>1, <4>1
      <4>3. name[j] = name'[j + 1] /\ \A n \in Names \ {j, j + 1} : name'[n] = name[n]
        BY <3>1, <4>1
      <4>4. \A c, d \in Names : name[c] = name[d] /\ name[c] # None => c = d
        BY DEF Shape, OneName
      <4>. QED BY <4>2, <4>3, <4>4
    <3>3. LastUnused'
      <4>1. LogNo \in Names \ {i[p], i[p] + 1}
        BY <1>1
      <4>2. name'[LogNo] = name[LogNo]
        BY <3>1, <4>1
      <4>. QED BY <4>2 DEF Shape, LastUnused
    <3>. QED BY <3>2, <3>3
  <2>. QED BY <2>1, <2>2, <2>3
<1>6. InRange' /\ Unopened' /\ Closed'
  BY <1>2 DEF Shape, InRange, Unopened, Closed, Shifting
<1>. QED BY <1>4, <1>5, <1>6 DEF Shape

\* A process that ends has no file.
LEMMA EndsShape ==
  ASSUME LoggerAssumption, Shape, NEW p \in Procs, Ends(p)
  PROVE  Shape'
<1>1. <<>> \in Seq(Records)
  BY EmptySeq
<1>2. TypeOK'
  BY <1>1, Constants DEF Shape, TypeOK, Ends, GoTo, self, disk
<1>3. InRange' /\ OneName' /\ LastUnused' /\ Unopened' /\ Closed'
  BY DEF Shape, TypeOK, InRange, OneName, LastUnused, Unopened, Closed, Ends, GoTo, disk, Shifting
<1>. QED BY <1>2, <1>3 DEF Shape

\* Another size changes nothing else.
LEMMA set_logsizeShape ==
  ASSUME LoggerAssumption, Shape, NEW p \in Procs, set_logsize(p)
  PROVE  Shape'
<1>1. pc[p] = "idle" /\ UNCHANGED <<pc, fd, mode, buf, len, i, disk, logged, opens>>
  BY DEF set_logsize
<1>2. TypeOK'
  BY <1>1 DEF set_logsize, Shape, TypeOK, disk
<1>. QED BY <1>1, <1>2, ShapeLeft DEF Shifting, disk

\* A failed open leaves a process without a file.
LEMMA ReopenFailsShape ==
  ASSUME LoggerAssumption, Shape, NEW p \in Procs, ReopenFails(p)
  PROVE  Shape'
<1>1. TypeOK'
  BY DEF ReopenFails, Shape, TypeOK, GoTo, self, disk
<1>2. InRange' /\ OneName' /\ LastUnused' /\ Unopened' /\ Closed'
  BY DEF Shape, TypeOK, InRange, OneName, LastUnused, Unopened, Closed, ReopenFails, GoTo, disk, Shifting
<1>. QED BY <1>1, <1>2 DEF Shape

\* So does a failed first one, and one of a logger that is open.
LEMMA OpenFailsShape ==
  ASSUME LoggerAssumption, Shape, NEW p \in Procs, OpenFails(p)
  PROVE  Shape'
<1>1. /\ pc[p] \in {"closed", "idle"} /\ GoTo(p, "idle") /\ opens' = [opens EXCEPT ![p] = @ + 1]
      /\ \E n \in LogSizes : size' = [size EXCEPT ![p] = n]
      /\ fd' = [fd EXCEPT ![p] = None] /\ UNCHANGED <<mode, buf, len, i, logged, written, name, data>>
  BY DEF OpenFails, Called
<1>2. TypeOK'
  <2>1. size' \in [Procs -> LogSizes]
    BY <1>1 DEF Shape, TypeOK
  <2>2. opens' \in [Procs -> Nat]
    BY <1>1 DEF Shape, TypeOK
  <2>. QED BY <1>1, <2>1, <2>2 DEF Shape, TypeOK, GoTo
<1>3. InRange' /\ OneName' /\ LastUnused'
  BY <1>1 DEF Shape, TypeOK, InRange, OneName, LastUnused, GoTo, Shifting
<1>4. Unopened' /\ Closed'
  BY <1>1 DEF Shape, TypeOK, Unopened, Closed, GoTo
<1>. QED BY <1>2, <1>3, <1>4 DEF Shape

\* A logger closed has no file.
LEMMA closeShape ==
  ASSUME LoggerAssumption, Shape, NEW p \in Procs, close(p)
  PROVE  Shape'
<1>1. TypeOK'
  BY DEF close, Shape, TypeOK, self, disk
<1>2. InRange' /\ OneName' /\ LastUnused' /\ Unopened' /\ Closed'
  BY DEF Shape, TypeOK, InRange, OneName, LastUnused, Unopened, Closed, close, disk, Shifting
<1>. QED BY <1>1, <1>2 DEF Shape

\* Every step keeps the shape.
LEMMA ShapeNext == LoggerAssumption /\ Shape /\ [Next]_vars => Shape'
<1>. SUFFICES ASSUME LoggerAssumption, Shape, [Next]_vars PROVE Shape'
  OBVIOUS
<1>1. CASE UNCHANGED vars
  BY <1>1 DEF vars, Shape, TypeOK, InRange, OneName, LastUnused, Unopened, Closed, Shifting
<1>2. ASSUME NEW p \in Procs, open(p) PROVE Shape'
  <2>1. /\ OpenPath(p) /\ GoTo(p, "idle") /\ opens' = [opens EXCEPT ![p] = @ + 1]
        /\ UNCHANGED <<mode, buf, len, i, logged, written>>
        /\ size' \in [Procs -> LogSizes]
    BY <1>2 DEF open, Called, Shape, TypeOK
  <2>. QED BY <2>1, OpensShape
<1>3. ASSUME NEW p \in Procs, Reopens(p) PROVE Shape'
  <2>1. /\ OpenPath(p) /\ GoTo(p, "idle") /\ opens' = opens /\ pc[p] # "closed"
        /\ UNCHANGED <<mode, buf, len, i, logged, written>>
        /\ size' \in [Procs -> LogSizes]
    BY <1>3 DEF Reopens, self, Shape, TypeOK
  <2>. QED BY <2>1, OpensShape
<1>4. ASSUME NEW p \in Procs, Accesses(p) PROVE Shape'
  <2>1. /\ pc[p] \in Shifting /\ name' = name
        /\ UNCHANGED <<fd, self, buf, len, data, logged, opens, written>>
    BY <1>4 DEF Accesses, disk, Shifting
  <2>2. Onwards(p) \/ (GoTo(p, "unlink") /\ UNCHANGED i)
    BY <1>4 DEF Accesses
  <2>. QED BY <2>1, <2>2, LoopShape
<1>5. ASSUME NEW p \in Procs, Unlinks(p) PROVE Shape'
  <2>1. /\ pc[p] \in Shifting /\ name' = [name EXCEPT ![i[p] + 1] = None]
        /\ GoTo(p, "rename") /\ UNCHANGED i
        /\ UNCHANGED <<fd, self, buf, len, data, logged, opens, written>>
    BY <1>5 DEF Unlinks, Shifting
  <2>. QED BY <2>1, LoopShape
<1>6. ASSUME NEW p \in Procs, Renames(p) PROVE Shape'
  <2>1. /\ pc[p] \in Shifting
        /\ UNCHANGED <<fd, self, buf, len, data, logged, opens, written>>
    BY <1>6 DEF Renames, Shifting
  <2>2. \/ GoTo(p, "idle") /\ i' = [i EXCEPT ![p] = 0] /\ name' = name
        \/ Onwards(p) /\ name' = [name EXCEPT ![i[p] + 1] = name[i[p]], ![i[p]] = None]
    BY <1>6 DEF Renames
  <2>. QED BY <2>1, <2>2, LoopShape
<1>7. ASSUME NEW p \in Procs, Writes(p) \/ WritesShort(p) PROVE Shape'
  BY <1>7, WritesIs, WritesShape DEF Shape
<1>. QED BY <1>1, <1>2, <1>3, <1>4, <1>5, <1>6, <1>7, set_logsizeShape, LogvShape, closeShape,
            StatsShape, OpenFailsShape, ReopenFailsShape, EndsShape DEF Next

-----------------------------------------------------------------------------
(***************************************************************************)
(* The order of the records.                                               *)
(***************************************************************************)
\* A step that writes nothing and gives no file a newer name than another.
LEMMA SequenceLeft ==
  ASSUME Sequence, data' = data, logged' = logged,
         \A q \in Procs : buf'[q] = buf[q] \/ buf'[q] = <<>>,
         \A q \in Procs : fd'[q] = fd[q] \/ fd'[q] = None,
         \A a, b \in Names : name'[a] # None /\ name'[b] # None /\ b < a =>
           \E c, d \in Names : d < c /\ name[c] = name'[a] /\ name[d] = name'[b]
  PROVE  Sequence'
<1>1. Buffers'
  BY OrderEmpty DEF Sequence, Buffers
<1>2. Contents'
  BY DEF Sequence, Contents
<1>3. Across'
  BY DEF Sequence, Across
<1>4. Behind'
  <2>. SUFFICES ASSUME NEW q \in Procs, NEW a \in Names, NEW b \in Names,
                       fd'[q] # None, fd'[q] = name'[a], name'[b] # None, b < a
                PROVE  NoneBy(q, data[name'[b]])
    BY DEF Behind
  <2>1. fd[q] = fd'[q]
    OBVIOUS
  <2>2. PICK c \in Names, d \in Names : d < c /\ name[c] = name'[a] /\ name[d] = name'[b]
    OBVIOUS
  <2>. QED BY <2>1, <2>2 DEF Sequence, Behind
<1>. QED BY <1>1, <1>2, <1>3, <1>4 DEF Sequence

\* A new file is empty, and in order with all others.
LEMMA OpensSequence ==
  ASSUME LoggerAssumption, Shape, Shape', Sequence, NEW p \in Procs, OpenPath(p),
         UNCHANGED <<buf, logged>>
  PROVE  Sequence'
<1>. USE Constants
<1>1. PICK f \in Files :
        /\ fd' = [fd EXCEPT ![p] = f] /\ name' = [name EXCEPT ![0] = f]
        /\ IF name[0] = None THEN ~InUse(f) /\ data' = [data EXCEPT ![f] = <<>>]
           ELSE f = name[0] /\ name' = name /\ data' = data
  BY OpenPathIs DEF Shape
<1>2. /\ name'[0] = f /\ \A n \in Names : n # 0 => name'[n] = name[n]
      /\ fd'[p] = f /\ \A q \in Procs : q # p => fd'[q] = fd[q]
      /\ \A g \in Files : data'[g] = data[g] \/ data'[g] = <<>>
      /\ \A g \in Files : g # f => data'[g] = data[g]
      /\ name[0] # None => data' = data /\ name' = name
      /\ name[0] = None => data'[f] = <<>>
  BY <1>1 DEF Shape, TypeOK
<1>3. Buffers'
  BY <1>2, OrderEmpty DEF Sequence, Buffers
<1>4. Contents'
  BY <1>2, OrderEmpty DEF Sequence, Contents
<1>5. \A n \in Names : name'[n] # None => name'[n] \in Files /\ (n # 0 => name'[n] # f)
  <2>1. name' \in [Names -> Files \cup {None}]
    BY DEF Shape, TypeOK
  <2>2. \A n \in Names : name'[n] # None /\ name'[n] = f => n = 0
    BY <1>2 DEF Shape, OneName
  <2>. QED BY <2>1, <2>2
<1>6. Across'
  <2>. SUFFICES ASSUME NEW a \in Names, NEW b \in Names, name'[a] # None, name'[b] # None, b < a
                PROVE  Precede(data'[name'[a]], data'[name'[b]])
    BY DEF Across
  <2>1. name'[a] = name[a] /\ data'[name'[a]] = data[name[a]]
    BY <1>2, <1>5
  <2>2. data'[name'[b]] = <<>> \/ (name[b] = name'[b] /\ data'[name'[b]] = data[name[b]])
    BY <1>2, <1>5
  <2>. QED BY <2>1, <2>2, OrderEmpty DEF Sequence, Across
<1>7. Behind'
  <2>. SUFFICES ASSUME NEW q \in Procs, NEW a \in Names, NEW b \in Names,
                       fd'[q] # None, fd'[q] = name'[a], name'[b] # None, b < a
                PROVE  NoneBy(q, data'[name'[b]])
    BY DEF Behind
  <2>1. a # 0 /\ name'[a] = name[a] /\ name[a] # f
    BY <1>2, <1>5
  <2>2. q # p /\ fd[q] = name[a] /\ fd[q] # None
    BY <1>2, <2>1
  <2>3. data'[name'[b]] = <<>> \/ (name[b] = name'[b] /\ data'[name'[b]] = data[name[b]])
    BY <1>2, <1>5
  <2>. QED BY <2>2, <2>3, OrderEmpty DEF Sequence, Behind
<1>. QED BY <1>3, <1>4, <1>6, <1>7 DEF Sequence

\* A record logged is later than all there are.
LEMMA LogvSequence ==
  ASSUME LoggerAssumption, Shape, Shape', Sequence, NEW p \in Procs, logv(p)
  PROVE  Sequence'
<1>. USE Constants
<1>1. PICK l \in Lens :
        /\ buf' = [buf EXCEPT ![p] = Append(@, [by |-> p, no |-> logged + 1, len |-> l])]
        /\ logged' = logged + 1
  BY DEF logv
<1>2. PICK r \in Records : r = [by |-> p, no |-> logged + 1, len |-> l]
  <2>1. logged + 1 \in 1 .. MaxRecords
    BY Constants DEF logv, Shape, TypeOK
  <2>2. [by |-> p, no |-> logged + 1, len |-> l] \in Records
    BY <2>1 DEF Records, LoggerAssumption
  <2>. QED BY <2>2
<1>3. r.no = logged + 1 /\ r.by = p
  BY <1>2
<1>4. buf'[p] = Append(buf[p], r) /\ \A q \in Procs \ {p} : buf'[q] = buf[q]
  BY <1>1, <1>2 DEF Shape, TypeOK
<1>5. /\ UNCHANGED <<fd, name, data>>
      /\ logged \in Nat /\ logged' = logged + 1
      /\ \A q \in Procs : buf[q] \in Seq(Records) /\ \A f \in Files : data[f] \in Seq(Records)
  BY <1>1 DEF logv, disk, Shape, TypeOK
<1>6. \A s \in Seq(Records) : UpTo(logged, s) => UpTo(logged', s)
  <2>1. \A s \in Seq(Records) : \A m \in DOMAIN s : s[m] \in Records
    BY LenProperties, ElementOfSeq
  <2>2. \A x \in Records : x.no \in Nat
    BY DEF Records
  <2>. QED BY <1>5, <2>1, <2>2 DEF UpTo
<1>7. Buffers'
  <2>. SUFFICES ASSUME NEW q \in Procs
                PROVE  /\ OnlyBy(q, buf'[q]) /\ UpTo(logged', buf'[q]) /\ InOrder(buf'[q])
                       /\ \A f \in Files : Precede(data[f], buf'[q])
    BY <1>5 DEF Buffers
  <2>1. CASE q # p
    BY <1>4, <1>5, <1>6, <2>1 DEF Sequence, Buffers
  <2>2. CASE q = p
    <3>1. /\ OnlyBy(p, buf[p]) /\ UpTo(logged, buf[p]) /\ InOrder(buf[p])
          /\ \A f \in Files : UpTo(logged, data[f]) /\ Precede(data[f], buf[p])
      BY DEF Sequence, Buffers, Contents
    <3>2. PICK s \in Seq(Records) : s = buf[p]
      BY <1>5
    <3>3. PICK w : w = Append(s, r)
      OBVIOUS
    <3>4. /\ UpTo(logged + 1, w) /\ OnlyBy(p, w) /\ InOrder(w)
          /\ \A d \in Seq(Records) : UpTo(logged, d) /\ Precede(d, s) => Precede(d, w)
      BY <1>3, <1>5, <3>1, <3>2, <3>3, OrderAppend
    <3>5. \A f \in Files : Precede(data[f], w)
      BY <1>5, <3>1, <3>2, <3>4
    <3>. QED BY <1>4, <1>5, <2>2, <3>2, <3>3, <3>4, <3>5
  <2>. QED BY <2>1, <2>2
<1>8. Contents'
  BY <1>5, <1>6 DEF Sequence, Contents
<1>9. Across' /\ Behind'
  BY <1>5 DEF Sequence, Across, Behind
<1>. QED BY <1>7, <1>8, <1>9 DEF Sequence

\* A write goes behind what is in the file, and no newer file has records of the writer.
LEMMA WritesSequence ==
  ASSUME LoggerAssumption, Shape, Shape', Sequence, NEW p \in Procs,
         NEW out \in Seq(Records), PartOf(out, buf[p]), Reaches(p, out)
  PROVE  Sequence'
<1>. USE Constants
<1>1. /\ UNCHANGED <<fd, name, logged>>
      /\ buf'[p] = <<>> /\ \A q \in Procs \ {p} : buf'[q] = buf[q]
  BY DEF Reaches, Shape, TypeOK
<1>2. CASE fd[p] = None
  <2>1. data' = data
    BY <1>2 DEF Reaches
  <2>2. \A q \in Procs : (buf'[q] = buf[q] \/ buf'[q] = <<>>) /\ fd'[q] = fd[q]
    BY <1>1
  <2>. QED BY <1>1, <2>1, <2>2, SequenceLeft
<1>3. CASE fd[p] # None
  <2>1. PICK f \in Files : f = fd[p]
    BY <1>3 DEF Shape, TypeOK
  <2>2. data'[f] = data[f] \o out /\ \A g \in Files \ {f} : data'[g] = data[g]
    <3>1. data' = [data EXCEPT ![f] = @ \o out]
      BY <1>3, <2>1 DEF Reaches
    <3>2. data = [g \in Files |-> data[g]]
      BY DEF Shape, TypeOK
    <3>. QED BY <2>1, <3>1, <3>2
  <2>3. /\ logged \in Nat /\ \A q \in Procs : buf[q] \in Seq(Records)
        /\ \A g \in Files : data[g] \in Seq(Records)
        /\ \A n \in Names : name[n] # None => name[n] \in Files
    <3>1. logged \in 0 .. MaxRecords /\ buf \in [Procs -> Seq(Records)]
      BY DEF Shape, TypeOK
    <3>2. data \in [Files -> Seq(Records)] /\ name \in [Names -> Files \cup {None}]
      BY DEF Shape, TypeOK
    <3>. QED BY <3>1, <3>2
  <2>4. /\ OnlyBy(p, out) /\ UpTo(logged, out) /\ InOrder(out)
        /\ \A g \in Files : Precede(data[g], out)
    <3>1. /\ OnlyBy(p, buf[p]) /\ UpTo(logged, buf[p]) /\ InOrder(buf[p])
          /\ \A g \in Files : Precede(data[g], buf[p])
      BY DEF Sequence, Buffers
    <3>. QED BY <2>3, <3>1, PartOrder
  <2>5. Buffers'
    <3>. SUFFICES ASSUME NEW q \in Procs
                  PROVE  /\ OnlyBy(q, buf'[q]) /\ UpTo(logged, buf'[q]) /\ InOrder(buf'[q])
                         /\ \A g \in Files : Precede(data'[g], buf'[q])
      BY <1>1 DEF Buffers
    <3>1. CASE q = p
      BY <1>1, <3>1, OrderEmpty
    <3>2. CASE q # p
      <4>1. buf'[q] = buf[q]
        BY <1>1, <3>2
      <4>2. /\ OnlyBy(q, buf[q]) /\ UpTo(logged, buf[q]) /\ InOrder(buf[q])
            /\ \A g \in Files : Precede(data[g], buf[q])
        BY DEF Sequence, Buffers
      <4>3. Precede(out, buf[q])
        BY <2>4, <3>2, <4>2 DEF OnlyBy, Precede
      <4>4. Precede(data[f] \o out, buf[q])
        BY <2>3, <4>2, <4>3, OrderConcat
      <4>. QED BY <2>2, <4>1, <4>2, <4>4
    <3>. QED BY <3>1, <3>2
  <2>6. Contents'
    <3>1. UpTo(logged, data[f]) /\ InOrder(data[f])
      BY DEF Sequence, Contents
    <3>2. UpTo(logged, data[f] \o out) /\ InOrder(data[f] \o out)
      BY <2>3, <2>4, <3>1, OrderConcat
    <3>. QED BY <1>1, <2>2, <3>2 DEF Sequence, Contents
  <2>7. Across'
    <3>. SUFFICES ASSUME NEW a \in Names, NEW b \in Names, name[a] # None, name[b] # None, b < a
                  PROVE  Precede(data'[name[a]], data'[name[b]])
      BY <1>1 DEF Across
    <3>1. name[a] # name[b] /\ name[a] \in Files /\ name[b] \in Files
      BY <2>3 DEF Shape, OneName
    <3>2. Precede(data[name[a]], data[name[b]])
      BY DEF Sequence, Across
    <3>3. CASE name[a] = f
      <4>1. NoneBy(p, data[name[b]])
        BY <1>3, <2>1, <3>3 DEF Sequence, Behind
      <4>2. Precede(out, data[name[b]])
        BY <2>4, <4>1, OrderApart
      <4>3. Precede(data[f] \o out, data[name[b]])
        BY <2>3, <3>1, <3>2, <3>3, <4>2, OrderConcat
      <4>. QED BY <2>2, <3>1, <3>3, <4>3
    <3>4. CASE name[b] = f
      <4>1. Precede(data[name[a]], data[f] \o out)
        BY <2>3, <2>4, <3>1, <3>2, <3>4, OrderConcat
      <4>. QED BY <2>2, <3>1, <3>4, <4>1
    <3>. QED BY <2>2, <3>1, <3>2, <3>3, <3>4
  <2>8. Behind'
    <3>. SUFFICES ASSUME NEW q \in Procs, NEW a \in Names, NEW b \in Names,
                         fd[q] # None, fd[q] = name[a], name[b] # None, b < a
                  PROVE  NoneBy(q, data'[name[b]])
      BY <1>1 DEF Behind
    <3>1. name[a] # name[b] /\ name[b] \in Files
      BY <2>3 DEF Shape, OneName
    <3>2. NoneBy(q, data[name[b]])
      BY DEF Sequence, Behind
    <3>3. CASE name[b] = f
      <4>1. q # p
        BY <2>1, <3>1, <3>3
      <4>2. NoneBy(q, out)
        BY <2>4, <4>1 DEF OnlyBy, NoneBy
      <4>3. NoneBy(q, data[f] \o out)
        BY <2>3, <3>2, <3>3, <4>2, OrderConcat
      <4>. QED BY <2>2, <3>3, <4>3
    <3>. QED BY <2>2, <3>1, <3>2, <3>3
  <2>. QED BY <2>5, <2>6, <2>7, <2>8 DEF Sequence
<1>. QED BY <1>2, <1>3

\* Every step keeps the order.
LEMMA SequenceNext == LoggerAssumption /\ Shape /\ Shape' /\ Sequence /\ [Next]_vars => Sequence'
<1>. SUFFICES ASSUME LoggerAssumption, Shape, Shape', Sequence, [Next]_vars PROVE Sequence'
  OBVIOUS
<1>1. CASE UNCHANGED vars
  BY <1>1, SequenceLeft DEF vars
<1>2. ASSUME NEW p \in Procs, open(p) \/ Reopens(p) PROVE Sequence'
  BY <1>2, OpensSequence DEF open, Called, Reopens
<1>3. ASSUME NEW p \in Procs, set_logsize(p) \/ Stats(p) \/ Accesses(p) PROVE Sequence'
  <2>1. UNCHANGED <<fd, buf, logged, name, data>>
    BY <1>3 DEF set_logsize, Stats, Accesses, disk
  <2>. QED BY <2>1, SequenceLeft
<1>4. ASSUME NEW p \in Procs, OpenFails(p) \/ close(p) \/ ReopenFails(p) \/ Ends(p)
      PROVE  Sequence'
  <2>1. /\ UNCHANGED <<logged, name, data>>
        /\ \A q \in Procs : fd'[q] = fd[q] \/ fd'[q] = None
        /\ \A q \in Procs : buf'[q] = buf[q] \/ buf'[q] = <<>>
    BY <1>4 DEF OpenFails, Called, close, ReopenFails, Ends, disk, Shape, TypeOK
  <2>. QED BY <2>1, SequenceLeft
<1>5. ASSUME NEW p \in Procs, Unlinks(p) PROVE Sequence'
  <2>1. UNCHANGED <<fd, buf, logged, data>>
    BY <1>5 DEF Unlinks
  <2>2. \A n \in Names : name'[n] # None => name'[n] = name[n]
    BY <1>5 DEF Unlinks, Shape, TypeOK
  <2>. QED BY <2>1, <2>2, SequenceLeft
<1>6. ASSUME NEW p \in Procs, Renames(p) PROVE Sequence'
  <2>1. UNCHANGED <<fd, buf, logged, data>>
    BY <1>6 DEF Renames
  <2>2. CASE name' = name
    BY <2>1, <2>2, SequenceLeft
  <2>3. CASE name' = [name EXCEPT ![i[p] + 1] = name[i[p]], ![i[p]] = None]
    <3>1. i[p] \in Nat /\ i[p] \in Names /\ i[p] + 1 \in Names
      BY <1>6, Constants DEF Renames, Shape, TypeOK, InRange, Shifting
    <3>2. /\ name'[i[p]] = None /\ name'[i[p] + 1] = name[i[p]]
          /\ \A n \in Names \ {i[p], i[p] + 1} : name'[n] = name[n]
      BY <2>3, <3>1 DEF Shape, TypeOK
    <3>3. ASSUME NEW a \in Names, NEW b \in Names, name'[a] # None, name'[b] # None, b < a
          PROVE  \E c, d \in Names : d < c /\ name[c] = name'[a] /\ name[d] = name'[b]
      <4>1. a # i[p] /\ b # i[p] /\ a \in Nat /\ b \in Nat
        BY <3>2, <3>3, Constants
      <4>2. CASE a = i[p] + 1
        <5>1. b < i[p] /\ name'[b] = name[b]
          BY <3>1, <3>2, <3>3, <4>1, <4>2
        <5>. QED BY <3>1, <3>2, <4>2, <5>1
      <4>3. CASE b = i[p] + 1
        <5>1. i[p] < a /\ name'[a] = name[a]
          BY <3>1, <3>2, <3>3, <4>1, <4>3
        <5>. QED BY <3>1, <3>2, <4>3, <5>1
      <4>4. CASE a # i[p] + 1 /\ b # i[p] + 1
        BY <3>2, <3>3, <4>1, <4>4
      <4>. QED BY <4>2, <4>3, <4>4
    <3>. QED BY <2>1, <3>3, SequenceLeft
  <2>. QED BY <1>6, <2>2, <2>3 DEF Renames
<1>7. ASSUME NEW p \in Procs, Writes(p) \/ WritesShort(p) PROVE Sequence'
  BY <1>7, WritesIs, WritesSequence DEF Shape
<1>. QED BY <1>1, <1>2, <1>3, <1>4, <1>5, <1>6, <1>7, LogvSequence DEF Next

-----------------------------------------------------------------------------
(***************************************************************************)
(* The buffer.                                                             *)
(***************************************************************************)
LEMMA MaxWriteIs ==
  ASSUME LoggerAssumption, TypeOK, NEW p \in Procs
  PROVE  /\ MaxWrite(p) \in Nat /\ Max(Lens) <= MaxWrite(p)
         /\ mode[p].batch = "size" /\ mode[p].arg > 0 => MaxWrite(p) = Max(Lens) + (mode[p].arg - 1)
<1>1. Max(Lens) \in Nat
  BY LensMax
<1>2. mode[p].arg \in Int
  BY Constants DEF TypeOK
<1>. DEFINE sized == mode[p].batch = "size" /\ mode[p].arg > 0
<1>3. MaxWrite(p) = Max(Lens) + IF sized THEN mode[p].arg - 1 ELSE 0
  BY DEF MaxWrite
<1>4. CASE sized
  <2>1. MaxWrite(p) = Max(Lens) + (mode[p].arg - 1)
    BY <1>3, <1>4
  <2>2. mode[p].arg > 0
    BY <1>4
  <2>. HIDE DEF sized
  <2>. QED BY <1>1, <1>2, <2>1, <2>2
<1>5. CASE ~sized
  <2>1. MaxWrite(p) = Max(Lens) + 0
    BY <1>3, <1>5
  <2>2. MaxWrite(p) = Max(Lens)
    BY <1>1, <2>1
  <2>. QED BY <1>1, <1>5, <2>2
<1>. QED BY <1>4, <1>5

\* A step that leaves the buffers or empties one.
LEMMA CountsLeft ==
  ASSUME LoggerAssumption, Counts, mode' = mode,
         \A q \in Procs :
           \/ buf'[q] = buf[q] /\ len'[q] = len[q] /\ (pc'[q] = pc[q] \/ (pc[q] # "write" /\ pc'[q] # "write"))
           \/ buf'[q] = <<>> /\ len'[q] = 0 /\ pc'[q] # "write"
  PROVE  Counts'
<1>. SUFFICES ASSUME NEW q \in Procs PROVE Counted(q)'
  BY DEF Counts
<1>1. Counted(q)
  BY DEF Counts
<1>2. MaxWrite(q)' = MaxWrite(q)
  BY DEF MaxWrite
<1>3. CASE /\ buf'[q] = buf[q] /\ len'[q] = len[q]
           /\ pc'[q] = pc[q] \/ (pc[q] # "write" /\ pc'[q] # "write")
  BY <1>1, <1>2, <1>3 DEF Counted
<1>4. CASE buf'[q] = <<>> /\ len'[q] = 0 /\ pc'[q] # "write"
  BY <1>4, BytesOfNone DEF Counted
<1>. QED BY <1>3, <1>4

\* What stays in the buffer has less than the batch, what does not a record more.
LEMMA LogvCounts ==
  ASSUME LoggerAssumption, Shape, Counts, NEW p \in Procs, logv(p)
  PROVE  Counts'
<1>1. PICK l \in Lens :
        /\ buf' = [buf EXCEPT ![p] = Append(@, [by |-> p, no |-> logged + 1, len |-> l])]
        /\ len' = [len EXCEPT ![p] = @ + l]
        /\ IF Waits(mode[p], len[p] + l) THEN UNCHANGED pc ELSE GoTo(p, "write")
  BY DEF logv
<1>2. PICK r \in Records : r = [by |-> p, no |-> logged + 1, len |-> l]
  <2>1. logged + 1 \in 1 .. MaxRecords
    BY Constants DEF logv, Shape, TypeOK
  <2>2. [by |-> p, no |-> logged + 1, len |-> l] \in Records
    BY <2>1 DEF Records, LoggerAssumption
  <2>. QED BY <2>2
<1>3. /\ buf'[p] = Append(buf[p], r) /\ len'[p] = len[p] + l /\ r.len = l
      /\ \A q \in Procs \ {p} : buf'[q] = buf[q] /\ len'[q] = len[q] /\ pc'[q] = pc[q]
      /\ pc'[p] = IF Waits(mode[p], len[p] + l) THEN "idle" ELSE "write"
      /\ mode' = mode /\ pc[p] = "idle"
  BY <1>1, <1>2 DEF Shape, TypeOK, GoTo, logv, self
<1>4. SUFFICES ASSUME NEW q \in Procs PROVE Counted(q)'
  BY DEF Counts
<1>5. MaxWrite(q)' = MaxWrite(q)
  BY <1>3 DEF MaxWrite
<1>6. CASE q # p
  <2>1. Counted(q)
    BY DEF Counts
  <2>. QED BY <1>3, <1>5, <1>6, <2>1 DEF Counted
<1>7. CASE q = p
  <2>1. /\ len[p] = Bytes(buf[p])
        /\ \/ len[p] = 0 \/ Never(mode[p])
           \/ mode[p].batch = "size" /\ len[p] < mode[p].arg
    BY <1>3 DEF Counts, Counted
  <2>2. len'[p] = Bytes(buf'[p])
    <3>1. buf[p] \in Seq(Records)
      BY DEF Shape, TypeOK
    <3>. QED BY <1>3, <2>1, <3>1, BytesAppend
  <2>3. l \in Nat /\ l <= Max(Lens) /\ Max(Lens) \in Nat /\ len[p] \in Nat /\ mode[p].arg \in Int
    BY LensMax, Constants DEF Shape, TypeOK, LoggerAssumption
  <2>4. CASE Waits(mode[p], len[p] + l)
    <3>1. pc'[p] # "write"
      BY <1>3, <2>4
    <3>2. Never(mode[p]) \/ (mode[p].batch = "size" /\ len'[p] < mode[p].arg)
      BY <1>3, <2>4 DEF Waits, Never
    <3>. QED BY <1>3, <1>7, <2>2, <3>1, <3>2 DEF Counted
  <2>5. CASE ~Waits(mode[p], len[p] + l)
    <3>1. pc'[p] = "write" /\ ~Never(mode[p])
      BY <1>3, <2>5 DEF Waits, Never
    <3>2. MaxWrite(p) \in Nat /\ Max(Lens) <= MaxWrite(p)
      BY MaxWriteIs DEF Shape
    <3>3. len'[p] <= MaxWrite(p)
      <4>1. CASE len[p] = 0
        BY <1>3, <2>3, <3>2, <4>1
      <4>2. CASE mode[p].batch = "size" /\ len[p] < mode[p].arg
        <5>1. mode[p].arg > 0
          BY <2>3, <4>2
        <5>2. MaxWrite(p) = Max(Lens) + (mode[p].arg - 1)
          BY <4>2, <5>1, MaxWriteIs DEF Shape
        <5>. QED BY <1>3, <2>3, <4>2, <5>2
      <4>. QED BY <2>1, <3>1, <4>1, <4>2
    <3>. QED BY <1>3, <1>5, <1>7, <2>2, <3>1, <3>3 DEF Counted
  <2>. QED BY <2>4, <2>5
<1>. QED BY <1>6, <1>7

\* Every step keeps the counts.
LEMMA CountsNext == LoggerAssumption /\ Shape /\ Counts /\ [Next]_vars => Counts'
<1>. SUFFICES ASSUME LoggerAssumption, Shape, Counts, [Next]_vars PROVE Counts'
  OBVIOUS
<1>1. CASE UNCHANGED vars
  BY <1>1, CountsLeft DEF vars
<1>2. ASSUME NEW p \in Procs, open(p) \/ OpenFails(p) \/ Reopens(p) PROVE Counts'
  <2>1. /\ mode' = mode /\ buf' = buf /\ len' = len
        /\ pc[p] # "write" /\ pc'[p] # "write" /\ \A q \in Procs \ {p} : pc'[q] = pc[q]
    BY <1>2 DEF open, OpenFails, Called, Reopens, self, GoTo, Shape, TypeOK
  <2>. QED BY <2>1, CountsLeft
<1>3. ASSUME NEW p \in Procs, close(p) \/ set_logsize(p) \/ Stats(p) \/ ReopenFails(p)
      PROVE  Counts'
  <2>1. mode' = mode /\ buf' = buf /\ len' = len
    BY <1>3 DEF close, set_logsize, Stats, ReopenFails, self
  <2>2. pc[p] # "write" /\ pc'[p] # "write" /\ \A q \in Procs \ {p} : pc'[q] = pc[q]
    BY <1>3 DEF close, set_logsize, Stats, ReopenFails, GoTo, Shape, TypeOK
  <2>. QED BY <2>1, <2>2, CountsLeft
<1>4. ASSUME NEW p \in Procs, Accesses(p) \/ Unlinks(p) \/ Renames(p) PROVE Counts'
  <2>1. mode' = mode /\ buf' = buf /\ len' = len
    BY <1>4 DEF Accesses, Unlinks, Renames, self
  <2>2. pc[p] # "write" /\ pc'[p] # "write" /\ \A q \in Procs \ {p} : pc'[q] = pc[q]
    BY <1>4 DEF Accesses, Unlinks, Renames, Onwards, GoTo, Shape, TypeOK
  <2>. QED BY <2>1, <2>2, CountsLeft
<1>5. ASSUME NEW p \in Procs, Writes(p) \/ WritesShort(p) \/ Ends(p) PROVE Counts'
  <2>1. /\ mode' = mode /\ buf'[p] = <<>> /\ len'[p] = 0 /\ pc'[p] # "write"
        /\ \A q \in Procs \ {p} : pc'[q] = pc[q] /\ buf'[q] = buf[q] /\ len'[q] = len[q]
    BY <1>5 DEF Writes, WritesShort, Reaches, Ends, self, GoTo, Shape, TypeOK
  <2>. QED BY <2>1, CountsLeft
<1>. QED BY <1>1, <1>2, <1>3, <1>4, <1>5, LogvCounts DEF Next

-----------------------------------------------------------------------------
(***************************************************************************)
(* One process alone.                                                      *)
(***************************************************************************)
Step(p) ==
  \/ open(p) \/ OpenFails(p) \/ close(p) \/ set_logsize(p)
  \/ logv(p) \/ Writes(p) \/ WritesShort(p) \/ Stats(p)
  \/ Reopens(p) \/ ReopenFails(p)
  \/ Accesses(p) \/ Unlinks(p) \/ Renames(p)
  \/ Ends(p)

\* Where there is a file behind path it is the one written to, if any.
LEMMA NewestIsPath ==
  ASSUME LoggerAssumption, Shape, NEW p \in Procs, AtNewest(p), pc[p] # "closed", fd[p] # None,
         name[0] # None
  PROVE  fd[p] = name[0]
<1>1. PICK a \in Names : name[a] = fd[p] /\ \A b \in Names : b < a => name[b] = None
  BY DEF AtNewest
<1>2. a = 0
  BY <1>1, Constants
<1>. QED BY <1>1, <1>2

\* The names a loop is at.
LEMMA LoopAt ==
  ASSUME LoggerAssumption, Shape, NEW p \in Procs, pc[p] \in Shifting
  PROVE  /\ LogNo \in Nat /\ i[p] \in Nat /\ i[p] + 2 <= LogNo
         /\ i[p] \in Names /\ i[p] + 1 \in Names /\ i[p] + 2 \in Names
BY Constants DEF Shape, InRange, TypeOK

\* What a loop does to the names when nobody else is there.
LEMMA UnlinksAlone ==
  ASSUME LoggerAssumption, Shape, NEW p \in Procs, Unlinks(p)
  PROVE  /\ pc[p] \in Shifting /\ pc'[p] = "rename" /\ i'[p] = i[p]
         /\ name'[i[p] + 1] = None /\ \A n \in Names \ {i[p] + 1} : name'[n] = name[n]
         /\ UNCHANGED <<fd, mode, size, data, opens, written>>
<1>1. pc[p] \in Shifting
  BY DEF Unlinks, Shifting
<1>. QED BY <1>1, LoopAt DEF Unlinks, Shape, TypeOK, GoTo, self

\* A rename finds the old name taken and the new one free.
LEMMA RenamesAlone ==
  ASSUME LoggerAssumption, Shape, NEW p \in Procs, InLoop(p), Renames(p)
  PROVE  /\ pc[p] = "rename" /\ pc[p] \in Shifting /\ name[0] # None
         /\ name[i[p]] # None /\ name[i[p] + 1] = None
         /\ name'[i[p]] = None /\ name'[i[p] + 1] = name[i[p]]
         /\ \A n \in Names \ {i[p], i[p] + 1} : name'[n] = name[n]
         /\ IF i[p] = 0 THEN pc'[p] = "idle" ELSE pc'[p] = "access" /\ i'[p] + 1 = i[p]
         /\ UNCHANGED <<fd, mode, size, data, opens, written>>
<1>1. pc[p] = "rename" /\ pc[p] \in Shifting
  BY DEF Renames, Shifting
<1>2. name[0] # None /\ name[i[p]] # None /\ name[i[p] + 1] = None
  BY <1>1 DEF InLoop
<1>3. Onwards(p) /\ name' = [name EXCEPT ![i[p] + 1] = name[i[p]], ![i[p]] = None]
  BY <1>2 DEF Renames
<1>4. /\ name'[i[p]] = None /\ name'[i[p] + 1] = name[i[p]]
      /\ \A n \in Names \ {i[p], i[p] + 1} : name'[n] = name[n]
  BY <1>1, <1>3, LoopAt DEF Shape, TypeOK
<1>5. IF i[p] = 0 THEN pc'[p] = "idle" ELSE pc'[p] = "access" /\ i'[p] + 1 = i[p]
  BY <1>1, <1>3, OnwardsIs DEF Shape, TypeOK
<1>. QED BY <1>1, <1>2, <1>4, <1>5 DEF Renames, self

\* path itself is there as long as the loop runs.
LEMMA AccessesAlone ==
  ASSUME LoggerAssumption, Shape, NEW p \in Procs, InLoop(p), Accesses(p)
  PROVE  /\ pc[p] = "access" /\ pc[p] \in Shifting /\ name[0] # None
         /\ \/ name[i[p]] # None /\ pc'[p] = "unlink" /\ i'[p] = i[p]
            \/ name[i[p]] = None /\ pc'[p] = "access" /\ i'[p] + 1 = i[p]
         /\ UNCHANGED <<fd, mode, size, name, data, opens, written>>
<1>1. pc[p] = "access" /\ pc[p] \in Shifting
  BY DEF Accesses, Shifting
<1>2. name[0] # None
  BY <1>1 DEF InLoop
<1>3. \/ name[i[p]] # None /\ pc'[p] = "unlink" /\ i'[p] = i[p]
      \/ name[i[p]] = None /\ pc'[p] = "access" /\ i'[p] + 1 = i[p]
  <2>1. CASE name[i[p]] # None
    BY <2>1 DEF Accesses, GoTo, Shape, TypeOK
  <2>2. CASE name[i[p]] = None
    <3>1. Onwards(p) /\ i[p] # 0
      BY <1>2, <2>2 DEF Accesses
    <3>. QED BY <1>1, <2>2, <3>1, OnwardsIs DEF Shape, TypeOK
  <2>. QED BY <2>1, <2>2
<1>. QED BY <1>1, <1>2, <1>3 DEF Accesses, disk, self

\* The other steps at a glance.
LEMMA QuietAlone ==
  ASSUME Shape, NEW p \in Procs, set_logsize(p) \/ logv(p)
  PROVE  /\ pc[p] = "idle" /\ pc'[p] \in {"idle", "write"}
         /\ UNCHANGED <<fd, mode, name, data, opens, written>>
<1>1. CASE set_logsize(p)
  BY <1>1 DEF set_logsize, disk
<1>2. CASE logv(p)
  BY <1>2 DEF logv, disk, self, Shape, TypeOK, GoTo
<1>. QED BY <1>1, <1>2

\* The three ways out of stat.
LEMMA StatsAlone ==
  ASSUME LoggerAssumption, Shape, NEW p \in Procs, Stats(p)
  PROVE  /\ pc[p] = "stat"
         /\ \/ name[0] = None /\ pc'[p] = "reopen"
            \/ /\ name[0] # None /\ pc'[p] = "access" /\ i'[p] = LogNo - 2 /\ LogNo >= 2
               /\ Bytes(data[name[0]]) >= size[p]
            \/ name[0] # None /\ pc'[p] = "idle" /\ ~(Bytes(data[name[0]]) >= size[p] /\ LogNo >= 2)
         /\ UNCHANGED <<fd, mode, size, name, data, opens, written>>
<1>. DEFINE full == name[0] # None /\ Bytes(data[name[0]]) >= size[p] /\ LogNo >= 2
<1>1. /\ pc[p] = "stat" /\ i' = [i EXCEPT ![p] = IF full THEN LogNo - 2 ELSE 0]
      /\ GoTo(p, IF name[0] = None THEN "reopen" ELSE IF full THEN "access" ELSE "idle")
      /\ UNCHANGED <<fd, self, buf, len, disk, logged, opens>>
  BY DEF Stats
<1>2. /\ i'[p] = IF full THEN LogNo - 2 ELSE 0
      /\ pc'[p] = IF name[0] = None THEN "reopen" ELSE IF full THEN "access" ELSE "idle"
  <2>. HIDE DEF full
  <2>. QED BY <1>1 DEF GoTo, Shape, TypeOK
<1>3. UNCHANGED <<fd, mode, size, name, data, opens, written>>
  BY <1>1 DEF self, disk
<1>. QED BY <1>1, <1>2, <1>3

\* What a process that opens path has then.
LEMMA OpensAlone ==
  ASSUME LoggerAssumption, Shape, Shape', NEW p \in Procs, open(p) \/ Reopens(p)
  PROVE  /\ \/ pc[p] \in {"closed", "idle"} /\ opens'[p] = opens[p] + 1
            \/ pc[p] = "reopen" /\ opens'[p] = opens[p]
         /\ pc'[p] = "idle" /\ fd'[p] = name'[0] /\ name'[0] # None /\ name'[0] \in Files
         /\ \A n \in Names \ {0} : name'[n] = name[n]
         /\ IF name[0] = None
            THEN /\ data'[name'[0]] = <<>>
                 /\ \A n \in Names \ {0} : name[n] # None => data'[name[n]] = data[name[n]]
            ELSE name' = name /\ data' = data
         /\ UNCHANGED <<mode, written>>
<1>. USE Constants
<1>1. OpenPath(p) /\ GoTo(p, "idle") /\ UNCHANGED <<mode, written>>
  BY DEF open, Called, Reopens, self
<1>2. PICK f \in Files :
        /\ fd' = [fd EXCEPT ![p] = f] /\ name' = [name EXCEPT ![0] = f]
        /\ IF name[0] = None THEN ~InUse(f) /\ data' = [data EXCEPT ![f] = <<>>]
           ELSE f = name[0] /\ name' = name /\ data' = data
  BY <1>1, OpenPathIs DEF Shape
<1>3. pc'[p] = "idle" /\ fd'[p] = f /\ name'[0] = f /\ \A n \in Names \ {0} : name'[n] = name[n]
  BY <1>1, <1>2 DEF Shape, TypeOK, GoTo
<1>4. \/ pc[p] \in {"closed", "idle"} /\ opens'[p] = opens[p] + 1
      \/ pc[p] = "reopen" /\ opens'[p] = opens[p]
  BY DEF open, Called, Reopens, Shape, TypeOK
<1>5. name[0] = None => /\ data'[f] = <<>>
                        /\ \A n \in Names \ {0} : name[n] # None => data'[name[n]] = data[name[n]]
  BY <1>2 DEF Shape, TypeOK, InUse
<1>. QED BY <1>1, <1>2, <1>3, <1>4, <1>5

\* The steps after which a process has no file.
LEMMA EndsAlone ==
  ASSUME LoggerAssumption, Shape, NEW p \in Procs,
         OpenFails(p) \/ close(p) \/ ReopenFails(p) \/ Ends(p)
  PROVE  /\ UNCHANGED <<mode, name, data, written>> /\ fd'[p] = None
         /\ pc'[p] \in {"idle", "closed"}
         /\ \/ pc[p] \in {"closed", "idle"} /\ opens'[p] = opens[p] + 1
            \/ pc[p] # "closed" /\ opens' = opens
<1>1. CASE OpenFails(p)
  BY <1>1 DEF OpenFails, Called, Shape, TypeOK, GoTo
<1>2. CASE close(p)
  BY <1>2 DEF close, self, disk, Shape, TypeOK
<1>3. CASE ReopenFails(p)
  BY <1>3 DEF ReopenFails, self, disk, Shape, TypeOK, GoTo
<1>4. CASE Ends(p)
  BY <1>4 DEF Ends, self, disk, Shape, TypeOK, GoTo
<1>. QED BY <1>1, <1>2, <1>3, <1>4

\* A write to a file, and one to none.
LEMMA WritesAlone ==
  ASSUME LoggerAssumption, Shape, NEW p \in Procs, NEW out \in Seq(Records), Reaches(p, out)
  PROVE  /\ pc[p] = "write" /\ pc'[p] = "stat"
         /\ UNCHANGED <<fd, mode, size, name, opens>>
         /\ IF fd[p] = None THEN UNCHANGED <<data, written>>
            ELSE /\ fd[p] \in Files
                 /\ data'[fd[p]] = data[fd[p]] \o out
                 /\ \A f \in Files \ {fd[p]} : data'[f] = data[f]
                 /\ written' = written \o out
<1>1. /\ pc[p] = "write" /\ pc'[p] = "stat"
      /\ UNCHANGED <<fd, mode, size, name, opens>>
  BY DEF Reaches, Shape, TypeOK, GoTo, self
<1>2. CASE fd[p] = None
  BY <1>1, <1>2 DEF Reaches
<1>3. CASE fd[p] # None
  <2>1. fd[p] \in Files
    BY <1>3 DEF Shape, TypeOK
  <2>2. data' = [data EXCEPT ![fd[p]] = @ \o out] /\ written' = written \o out
    BY <1>3 DEF Reaches
  <2>3. data'[fd[p]] = data[fd[p]] \o out /\ \A f \in Files \ {fd[p]} : data'[f] = data[f]
    BY <2>1, <2>2 DEF Shape, TypeOK
  <2>. QED BY <1>1, <1>3, <2>1, <2>2, <2>3
<1>. QED BY <1>2, <1>3

\* The steps of a write.
LEMMA WriteSteps ==
  ASSUME LoggerAssumption, Shape, NEW p \in Procs, Writes(p) \/ WritesShort(p)
  PROVE  \E out \in Seq(Records) : PartOf(out, buf[p]) /\ Reaches(p, out)
BY WritesIs DEF Shape

\* A process alone goes on writing to the newest file.
LEMMA AtNewestStep ==
  ASSUME LoggerAssumption, Shape, Shape', NEW p \in Procs, AtNewest(p), InLoop(p), Step(p)
  PROVE  AtNewest(p)'
<1>. USE Constants
<1>. DEFINE At == fd[p] # None =>
                    \E a \in Names : name[a] = fd[p] /\ \A b \in Names : b < a => name[b] = None
<1>1. pc[p] # "closed" => opens[p] >= 1 /\ At /\ (pc[p] = "reopen" => name[0] = None)
  BY DEF AtNewest
<1>2. (pc'[p] # "closed" => opens'[p] >= 1 /\ At' /\ (pc'[p] = "reopen" => name'[0] = None))
      => AtNewest(p)'
  BY DEF AtNewest
<1>3. ASSUME pc[p] # "closed", opens'[p] = opens[p], fd'[p] = fd[p], name' = name,
             pc'[p] = "reopen" => name[0] = None
      PROVE  AtNewest(p)'
  BY <1>1, <1>3 DEF AtNewest
<1>4. CASE open(p) \/ Reopens(p)
  <2>1. pc'[p] = "idle" /\ fd'[p] = name'[0] /\ name'[0] # None /\ opens'[p] >= 1
    <3>1. opens[p] \in Nat
      BY DEF Shape, TypeOK
    <3>2. opens'[p] >= 1
      BY <1>1, <1>4, <3>1, OpensAlone
    <3>. QED BY <1>4, <3>2, OpensAlone
  <2>2. \A b \in Names : ~(b < 0)
    OBVIOUS
  <2>3. At'
    BY <2>1, <2>2
  <2>. HIDE DEF At
  <2>. QED BY <1>2, <2>1, <2>3
<1>5. CASE set_logsize(p) \/ logv(p)
  BY <1>3, <1>5, QuietAlone
<1>6. CASE Stats(p)
  BY <1>3, <1>6, StatsAlone
<1>7. CASE Accesses(p)
  BY <1>3, <1>7, AccessesAlone
<1>8. CASE Writes(p) \/ WritesShort(p)
  <2>1. PICK out \in Seq(Records) : Reaches(p, out)
    BY <1>8, WriteSteps
  <2>. QED BY <1>3, <2>1, WritesAlone
<1>9. CASE OpenFails(p) \/ close(p) \/ ReopenFails(p) \/ Ends(p)
  <2>1. fd'[p] = None /\ pc'[p] \in {"idle", "closed"}
    BY <1>9, EndsAlone
  <2>2. pc'[p] # "closed" => opens'[p] >= 1
    <3>1. opens[p] \in Nat
      BY DEF Shape, TypeOK
    <3>2. CASE pc[p] \in {"closed", "idle"} /\ opens'[p] = opens[p] + 1
      BY <3>1, <3>2
    <3>3. CASE pc[p] # "closed" /\ opens' = opens
      BY <1>1, <3>3
    <3>. QED BY <1>9, <3>2, <3>3, EndsAlone
  <2>3. At'
    BY <2>1
  <2>. HIDE DEF At
  <2>. QED BY <1>2, <2>1, <2>2, <2>3
<1>10. CASE Unlinks(p)
  <2>1. /\ pc[p] \in Shifting /\ pc[p] # "closed" /\ name[0] # None
        /\ i[p] \in Nat /\ pc'[p] = "rename"
    BY <1>10, UnlinksAlone, LoopAt DEF InLoop, Shifting
  <2>2. /\ fd[p] # None => fd[p] = name[0]
        /\ name'[0] = name[0] /\ fd' = fd /\ opens' = opens
    BY <1>10, <2>1, NewestIsPath, UnlinksAlone
  <2>3. \A b \in Names : ~(b < 0)
    OBVIOUS
  <2>4. At'
    BY <2>1, <2>2, <2>3
  <2>. HIDE DEF At
  <2>. QED BY <1>1, <1>2, <2>1, <2>2, <2>4
<1>11. CASE Renames(p)
  <2>1. pc[p] \in Shifting /\ pc[p] # "closed" /\ name[0] # None /\ pc'[p] # "reopen"
    BY <1>11, RenamesAlone DEF Shifting
  <2>2. (fd[p] # None => fd[p] = name[0]) /\ fd' = fd /\ opens' = opens
    BY <1>11, <2>1, NewestIsPath, RenamesAlone
  <2>3. i[p] \in Nat /\ i[p] + 1 \in Names /\ i[p] \in Names
    BY <2>1, LoopAt
  <2>4. At'
    <3>1. CASE i[p] = 0
      <4>1. name'[1] = name[0] /\ name'[0] = None /\ 1 \in Names
        BY <1>11, <2>3, <3>1, RenamesAlone
      <4>2. \A b \in Names : b < 1 => b = 0
        OBVIOUS
      <4>. QED BY <2>1, <2>2, <4>1, <4>2
    <3>2. CASE i[p] # 0
      <4>1. name'[0] = name[0]
        BY <1>11, <2>3, <3>2, RenamesAlone
      <4>2. \A b \in Names : ~(b < 0)
        OBVIOUS
      <4>. QED BY <2>1, <2>2, <4>1, <4>2
    <3>. QED BY <3>1, <3>2
  <2>. HIDE DEF At
  <2>. QED BY <1>1, <1>2, <2>1, <2>2, <2>4
<1>. QED BY <1>4, <1>5, <1>6, <1>7, <1>8, <1>9, <1>10, <1>11 DEF Step

\* A process alone goes down the names and leaves the one behind it free.
LEMMA InLoopStep ==
  ASSUME LoggerAssumption, Shape, Shape', NEW p \in Procs, InLoop(p), Step(p)
  PROVE  InLoop(p)'
<1>. USE Constants
<1>1. SUFFICES ASSUME pc'[p] \in Shifting PROVE InLoop(p)'
  BY DEF InLoop
<1>2. CASE Stats(p)
  <2>1. /\ pc'[p] = "access" /\ name'[0] # None /\ i'[p] = LogNo - 2 /\ LogNo >= 2
        /\ Bytes(data'[name'[0]]) >= size[p]
    BY <1>1, <1>2, StatsAlone DEF Shifting
  <2>2. size[p] \in LogSizes
    BY DEF Shape, TypeOK
  <2>3. ~(i'[p] + 2 < LogNo)
    BY <2>1
  <2>. QED BY <2>1, <2>2, <2>3 DEF InLoop
<1>3. CASE Accesses(p)
  <2>1. /\ name[0] # None /\ \E s \in LogSizes : Bytes(data[name[0]]) >= s
        /\ i[p] + 2 < LogNo => name[i[p] + 1] = None
    BY <1>3, AccessesAlone DEF InLoop
  <2>2. name' = name /\ data' = data
    BY <1>3, AccessesAlone
  <2>3. CASE name[i[p]] # None /\ pc'[p] = "unlink" /\ i'[p] = i[p]
    BY <2>1, <2>2, <2>3 DEF InLoop
  <2>4. CASE name[i[p]] = None /\ pc'[p] = "access" /\ i'[p] + 1 = i[p]
    BY <2>1, <2>2, <2>4 DEF InLoop
  <2>. QED BY <1>3, <2>3, <2>4, AccessesAlone
<1>4. CASE Unlinks(p)
  <2>1. /\ name[0] # None /\ \E s \in LogSizes : Bytes(data[name[0]]) >= s
        /\ name[i[p]] # None /\ i[p] \in Nat /\ i[p] \in Names
    BY <1>4, UnlinksAlone, LoopAt DEF InLoop, Unlinks
  <2>2. /\ data' = data /\ i'[p] = i[p] /\ name'[i[p] + 1] = None
        /\ name'[0] = name[0] /\ name'[i[p]] = name[i[p]]
    BY <1>4, <2>1, UnlinksAlone
  <2>. QED BY <2>1, <2>2 DEF InLoop
<1>5. CASE Renames(p)
  <2>1. /\ name[0] # None /\ \E s \in LogSizes : Bytes(data[name[0]]) >= s
        /\ i[p] \in Nat
    BY <1>5, RenamesAlone, LoopAt DEF InLoop
  <2>2. pc'[p] = "access" /\ i'[p] + 1 = i[p] /\ i[p] # 0
    BY <1>1, <1>5, RenamesAlone DEF Shifting
  <2>3. data' = data /\ name'[i'[p] + 1] = None /\ name'[0] = name[0]
    BY <1>5, <2>1, <2>2, RenamesAlone
  <2>. QED BY <2>1, <2>2, <2>3 DEF InLoop
<1>6. CASE \/ set_logsize(p) \/ logv(p) \/ open(p) \/ Reopens(p)
           \/ OpenFails(p) \/ close(p) \/ ReopenFails(p) \/ Ends(p)
  <2>1. pc'[p] \in {"idle", "write", "closed"}
    BY <1>6, QuietAlone, OpensAlone, EndsAlone
  <2>. QED BY <1>1, <2>1 DEF Shifting
<1>7. CASE Writes(p) \/ WritesShort(p)
  <2>1. pc'[p] = "stat"
    BY <1>7, WriteSteps, WritesAlone
  <2>. QED BY <1>1, <2>1 DEF Shifting
<1>. QED BY <1>2, <1>3, <1>4, <1>5, <1>6, <1>7 DEF Step

\* One write more.
LEMMA BelowMore ==
  ASSUME LoggerAssumption, NEW b \in Nat, NEW k \in Nat, NEW w \in Nat, Below(b, k, w),
         NEW a \in Nat, a <= w
  PROVE  Below(b + a, k + 1, w)
<1>1. PICK s \in LogSizes : b < s + k * w
  BY DEF Below
<1>2. s \in Nat
  BY Constants
<1>3. PICK m \in Nat : m = k * w
  OBVIOUS
<1>4. (k + 1) * w = m + w
  BY <1>3
<1>5. b + a < s + (m + w)
  BY <1>1, <1>2, <1>3
<1>6. b + a < s + (k + 1) * w
  BY <1>4, <1>5
<1>. QED BY <1>6 DEF Below

\* What is below a size is below it with any writes on top.
LEMMA BelowAt ==
  ASSUME LoggerAssumption, NEW s \in LogSizes, NEW b \in Nat, b < s, NEW k \in Nat, NEW w \in Nat
  PROVE  Below(b, k, w)
<1>1. s \in Nat
  BY Constants
<1>2. PICK m \in Nat : m = k * w
  OBVIOUS
<1>3. b < s + m
  BY <1>1
<1>4. b < s + k * w
  BY <1>2, <1>3
<1>. QED BY <1>4 DEF Below

\* The bytes of the files are numbers, and what is small stays so.
LEMMA UnderMore ==
  ASSUME LoggerAssumption, Shape, NEW p \in Procs
  PROVE  /\ MaxWrite(p) \in Nat
         /\ \A f \in Files : data[f] \in Seq(Records) /\ Bytes(data[f]) \in Nat
         /\ \A n \in Names, k \in Nat : name[n] # None /\ Under(p, n, k) => Under(p, n, k + 1)
<1>1. MaxWrite(p) \in Nat
  BY MaxWriteIs DEF Shape
<1>2. \A f \in Files : data[f] \in Seq(Records) /\ Bytes(data[f]) \in Nat
  BY BytesIs DEF Shape, TypeOK
<1>3. ASSUME NEW n \in Names, NEW k \in Nat, name[n] # None, Under(p, n, k)
      PROVE  Under(p, n, k + 1)
  <2>1. name[n] \in Files
    BY <1>3 DEF Shape, TypeOK
  <2>2. PICK b \in Nat : b = Bytes(data[name[n]])
    BY <1>2, <2>1
  <2>3. Below(b, k, MaxWrite(p)) /\ 0 \in Nat /\ 0 <= MaxWrite(p) /\ b + 0 = b
    BY <1>1, <1>3, <2>2 DEF Under
  <2>4. Below(b + 0, k + 1, MaxWrite(p))
    BY <1>1, <2>3, BelowMore
  <2>. QED BY <2>2, <2>3, <2>4 DEF Under
<1>. QED BY <1>1, <1>2, <1>3

\* A step that leaves the files small.
LEMMA SmallLeft ==
  ASSUME NEW p \in Procs, Small(p), UNCHANGED <<mode, fd, name, data, opens>>,
         pc'[p] \in {"idle", "write"} =>
           \/ pc[p] \in {"idle", "write"}
           \/ \A n \in Names : name[n] # None /\ fd[p] = name[n] =>
                Under(p, n, IF n = 0 THEN opens[p] - 1 ELSE opens[p])
  PROVE  Small(p)'
<1>1. \A n, k : Under(p, n, k)' <=> Under(p, n, k)
  BY DEF Under, MaxWrite
<1>. QED BY <1>1 DEF Small

\* A process alone does not write more to a file than it may.
LEMMA SmallStep ==
  ASSUME LoggerAssumption, Shape, Shape', Counts, NEW p \in Procs, LogNo >= 2,
         AtNewest(p), InLoop(p), Small(p), Step(p)
  PROVE  Small(p)'
<1>. USE Constants
<1>1. /\ \A n \in Names : name[n] # None => Under(p, n, opens[p] + 1)
      /\ name[0] # None => Under(p, 0, opens[p])
      /\ pc[p] \in {"idle", "write"} =>
           \A n \in Names : name[n] # None /\ fd[p] = name[n] =>
             Under(p, n, IF n = 0 THEN opens[p] - 1 ELSE opens[p])
  BY DEF Small
<1>2. opens[p] \in Nat /\ (pc[p] # "closed" => opens[p] - 1 \in Nat)
  <2>1. opens[p] \in Nat
    BY DEF Shape, TypeOK
  <2>2. pc[p] # "closed" => opens[p] >= 1
    BY DEF AtNewest
  <2>. QED BY <2>1, <2>2
<1>11. PICK o \in Nat : o = opens[p]
  BY <1>2
<1>3. CASE set_logsize(p) \/ logv(p)
  BY <1>3, QuietAlone, SmallLeft
<1>4. CASE Accesses(p)
  <2>1. pc'[p] \notin {"idle", "write"} /\ UNCHANGED <<mode, fd, name, data, opens>>
    BY <1>4, AccessesAlone
  <2>. QED BY <2>1, SmallLeft
<1>5. CASE Stats(p)
  <2>1. UNCHANGED <<mode, fd, name, data, opens>> /\ pc[p] = "stat"
    BY <1>5, StatsAlone
  <2>2. CASE pc'[p] \notin {"idle", "write"}
    BY <2>1, <2>2, SmallLeft
  <2>3. CASE pc'[p] \in {"idle", "write"}
    <3>1. name[0] # None /\ ~(Bytes(data[name[0]]) >= size[p])
      BY <1>5, <2>3, StatsAlone
    <3>2. fd[p] # None => fd[p] = name[0]
      BY <2>1, <3>1, NewestIsPath
    <3>3. Under(p, 0, opens[p] - 1)
      <4>1. name[0] \in Files /\ size[p] \in LogSizes
        BY <3>1 DEF Shape, TypeOK
      <4>2. Bytes(data[name[0]]) \in Nat /\ size[p] \in Nat /\ MaxWrite(p) \in Nat
        BY <4>1, UnderMore
      <4>3. Bytes(data[name[0]]) < size[p] /\ opens[p] - 1 \in Nat
        BY <1>2, <2>1, <3>1, <4>2
      <4>4. Below(Bytes(data[name[0]]), opens[p] - 1, MaxWrite(p))
        BY <4>1, <4>2, <4>3, BelowAt
      <4>. QED BY <4>4 DEF Under
    <3>4. \A n \in Names : name[n] # None /\ fd[p] = name[n] => n = 0
      BY <3>2 DEF Shape, OneName
    <3>. QED BY <2>1, <3>3, <3>4, SmallLeft
  <2>. QED BY <2>2, <2>3
<1>6. CASE OpenFails(p) \/ close(p) \/ ReopenFails(p) \/ Ends(p)
  <2>1. UNCHANGED <<mode, name, data>> /\ fd'[p] = None
    BY <1>6, EndsAlone
  <2>2. \A n, k : Under(p, n, k)' <=> Under(p, n, k)
    BY <2>1 DEF Under, MaxWrite
  <2>3. /\ \A n \in Names : name[n] # None => Under(p, n, opens'[p] + 1)
        /\ name[0] # None => Under(p, 0, opens'[p])
    <3>1. opens'[p] = o + 1 \/ opens'[p] = o
      BY <1>6, <1>11, EndsAlone
    <3>2. CASE opens'[p] = o
      BY <1>1, <1>11, <3>2
    <3>3. CASE opens'[p] = o + 1
      <4>1. \A n \in Names : name[n] # None => Under(p, n, (o + 1) + 1)
        <5>1. o + 1 \in Nat
          OBVIOUS
        <5>. QED BY <1>1, <1>11, <5>1, UnderMore
      <4>2. name[0] # None => Under(p, 0, o + 1)
        BY <1>1, <1>11
      <4>. QED BY <3>3, <4>1, <4>2
    <3>. QED BY <3>1, <3>2, <3>3
  <2>4. \A n \in Names : name[n] # None => fd'[p] # name[n]
    BY <2>1
  <2>. QED BY <2>1, <2>2, <2>3, <2>4 DEF Small
<1>7. CASE Unlinks(p)
  <2>1. /\ UNCHANGED <<mode, data, opens>> /\ pc'[p] = "rename"
        /\ \A n \in Names : name'[n] # None => name'[n] = name[n]
    BY <1>7, UnlinksAlone, LoopAt
  <2>2. \A n \in Names : \A k : name'[n] # None /\ Under(p, n, k) => Under(p, n, k)'
    BY <2>1 DEF Under, MaxWrite
  <2>3. 0 \in Names
    OBVIOUS
  <2>. QED BY <1>1, <2>1, <2>2, <2>3 DEF Small
<1>8. CASE Renames(p)
  <2>1. /\ UNCHANGED <<mode, data, opens, fd>> /\ pc[p] \in Shifting
        /\ name[i[p]] # None /\ name'[i[p]] = None /\ name'[i[p] + 1] = name[i[p]]
        /\ \A n \in Names \ {i[p], i[p] + 1} : name'[n] = name[n]
        /\ IF i[p] = 0 THEN pc'[p] = "idle" ELSE pc'[p] = "access"
        /\ name[0] # None
    BY <1>8, RenamesAlone
  <2>2. i[p] \in Nat /\ i[p] \in Names /\ i[p] + 1 \in Names
    BY <2>1, LoopAt
  <2>3. \A n \in Names \ {i[p], i[p] + 1} : \A k : Under(p, n, k) => Under(p, n, k)'
    BY <2>1 DEF Under, MaxWrite
  <2>4. PICK j \in Nat : j = i[p]
    BY <2>2
  <2>5. \A k : Under(p, j, k) => Under(p, j + 1, k)'
    BY <2>1, <2>4 DEF Under, MaxWrite
  <2>6. \A n \in Names : name'[n] # None => Under(p, n, o + 1)'
    <3>. SUFFICES ASSUME NEW n \in Names, name'[n] # None PROVE Under(p, n, o + 1)'
      OBVIOUS
    <3>1. CASE n = j + 1
      BY <1>1, <1>11, <2>1, <2>2, <2>4, <2>5, <3>1
    <3>2. CASE n # j + 1
      BY <1>1, <1>11, <2>1, <2>2, <2>3, <2>4, <3>2
    <3>. QED BY <3>1, <3>2
  <2>7. name'[0] # None => Under(p, 0, o)'
    BY <1>1, <1>11, <2>1, <2>2, <2>3
  <2>8. ASSUME pc'[p] \in {"idle", "write"}, NEW n \in Names, name'[n] # None, fd[p] = name'[n]
        PROVE  n # 0 /\ Under(p, n, o)'
    <3>1. i[p] = 0
      BY <2>1, <2>8
    <3>2. fd[p] = name[0]
      BY <2>1, <2>8, NewestIsPath DEF Shifting
    <3>3. name'[1] = name'[n] /\ 1 \in Names
      BY <2>1, <2>2, <2>8, <3>1, <3>2
    <3>4. n = 1
      BY <2>8, <3>3 DEF Shape, OneName
    <3>5. Under(p, 1, o)'
      BY <1>1, <1>11, <2>1, <2>4, <2>5, <3>1
    <3>. QED BY <3>4, <3>5
  <2>. QED BY <1>11, <2>1, <2>6, <2>7, <2>8 DEF Small
<1>9. CASE Writes(p) \/ WritesShort(p)
  <2>4. PICK out \in Seq(Records) : PartOf(out, buf[p]) /\ Reaches(p, out)
    BY <1>9, WriteSteps
  <2>1. /\ pc[p] = "write" /\ pc'[p] = "stat"
        /\ UNCHANGED <<fd, mode, size, name, opens>>
    BY <2>4, WritesAlone
  <2>2. CASE fd[p] = None
    <3>1. data' = data
      BY <2>2, <2>4, WritesAlone
    <3>. QED BY <2>1, <3>1, SmallLeft
  <2>3. CASE fd[p] # None
    <3>1. /\ fd[p] \in Files /\ data'[fd[p]] = data[fd[p]] \o out
          /\ \A f \in Files \ {fd[p]} : data'[f] = data[f]
      BY <2>3, <2>4, WritesAlone
    <3>2. PICK a \in Names : name[a] = fd[p] /\ \A b \in Names : b < a => name[b] = None
      BY <2>1, <2>3 DEF AtNewest
    <3>3. \A n \in Names : name[n] # None => name[n] \in Files
      BY DEF Shape, TypeOK
    <3>4. \A n \in Names : \A k : n # a /\ name[n] # None /\ Under(p, n, k) => Under(p, n, k)'
      <4>1. \A n \in Names : n # a /\ name[n] # None => name[n] # fd[p]
        BY <3>2 DEF Shape, OneName
      <4>. QED BY <2>1, <3>1, <3>3, <4>1 DEF Under, MaxWrite
    <3>5. ASSUME NEW k \in Nat, Under(p, a, k) PROVE Under(p, a, k + 1)'
      <4>1. PICK b \in Nat : b = Bytes(data[fd[p]])
        BY <3>1, UnderMore
      <4>2. PICK l \in Nat : l = Bytes(out) /\ l <= MaxWrite(p)
        <5>1. len[p] \in Nat /\ len[p] = Bytes(buf[p]) /\ len[p] <= MaxWrite(p)
          BY <2>1 DEF Counts, Counted, Shape, TypeOK
        <5>2. Bytes(out) \in Nat /\ Bytes(out) <= len[p]
          BY <2>4, <5>1, BytesIs DEF PartOf
        <5>3. MaxWrite(p) \in Nat
          BY UnderMore
        <5>. QED BY <5>1, <5>2, <5>3
      <4>3. Bytes(data'[fd[p]]) = b + l
        <5>1. data[fd[p]] \in Seq(Records)
          BY <3>1 DEF Shape, TypeOK
        <5>. QED BY <3>1, <4>1, <4>2, <5>1, BytesConcat
      <4>4. Below(b, k, MaxWrite(p)) /\ MaxWrite(p) \in Nat
        BY <3>2, <3>5, <4>1, UnderMore DEF Under
      <4>5. Below(b + l, k + 1, MaxWrite(p))
        BY <4>2, <4>4, BelowMore
      <4>6. MaxWrite(p)' = MaxWrite(p)
        BY <2>1 DEF MaxWrite
      <4>. QED BY <2>1, <3>2, <4>3, <4>5, <4>6 DEF Under
    <3>6. Under(p, a, IF a = 0 THEN opens[p] - 1 ELSE opens[p])
      BY <1>1, <2>1, <2>3, <3>2
    <3>7. CASE a = 0
      <4>1. Under(p, 0, o)'
        <5>1. o - 1 \in Nat /\ (o - 1) + 1 = o /\ Under(p, 0, o - 1)
          BY <1>2, <1>11, <2>1, <3>6, <3>7
        <5>2. Under(p, 0, (o - 1) + 1)'
          BY <3>5, <3>7, <5>1
        <5>. QED BY <5>1, <5>2
      <4>2. Under(p, 0, o + 1)'
        <5>1. Under(p, 0, o)
          BY <1>1, <1>11, <2>3, <3>2, <3>7
        <5>. QED BY <3>5, <3>7, <5>1
      <4>. QED BY <1>1, <1>11, <2>1, <3>4, <3>7, <4>1, <4>2 DEF Small
    <3>8. CASE a # 0
      <4>1. name[0] = None
        BY <3>2, <3>8
      <4>2. Under(p, a, o + 1)'
        BY <1>11, <3>5, <3>6, <3>8
      <4>. QED BY <1>1, <1>11, <2>1, <3>4, <4>1, <4>2 DEF Small
    <3>. QED BY <3>7, <3>8
  <2>. QED BY <2>2, <2>3
<1>10. CASE open(p) \/ Reopens(p)
  <2>1. /\ pc'[p] = "idle" /\ fd'[p] = name'[0] /\ name'[0] # None /\ name'[0] \in Files
        /\ \A n \in Names \ {0} : name'[n] = name[n]
        /\ mode' = mode
    BY <1>10, OpensAlone
  <2>2. \A n \in Names : name'[n] # None /\ fd'[p] = name'[n] => n = 0
    BY <2>1 DEF Shape, OneName
  <2>3. MaxWrite(p)' = MaxWrite(p) /\ MaxWrite(p) \in Nat
    BY <2>1, UnderMore DEF MaxWrite
  <2>4. \/ pc[p] \in {"closed", "idle"} /\ opens'[p] = opens[p] + 1
        \/ pc[p] = "reopen" /\ opens'[p] = opens[p] /\ name[0] = None
    BY <1>10, OpensAlone DEF AtNewest
  <2>5. \A n \in Names \ {0} : \A k : name[n] # None /\ Under(p, n, k) => Under(p, n, k)'
    <3>1. \A n \in Names \ {0} : name[n] # None => data'[name[n]] = data[name[n]]
      BY <1>10, OpensAlone
    <3>. QED BY <2>1, <2>3, <3>1 DEF Under
  <2>6. \A n \in Names \ {0} : name[n] # None => Under(p, n, opens'[p] + 1)
    <3>1. o + 1 \in Nat
      OBVIOUS
    <3>2. \A n \in Names : name[n] # None => Under(p, n, o + 1) /\ Under(p, n, (o + 1) + 1)
      BY <1>1, <1>11, <3>1, UnderMore
    <3>. QED BY <1>11, <2>4, <3>2
  <2>7. CASE name[0] = None
    <3>1. \A k \in Nat : Under(p, 0, k)'
      <4>1. Bytes(data'[name'[0]]) = 0
        <5>1. data'[name'[0]] = <<>>
          BY <1>10, <2>7, OpensAlone
        <5>. QED BY <5>1, BytesOfNone
      <4>2. PICK s \in LogSizes : 0 < s
        <5>1. size[p] \in LogSizes
          BY DEF Shape, TypeOK
        <5>2. size[p] \in Nat \ {0}
          BY <5>1
        <5>. QED BY <5>1, <5>2
      <4>3. \A k \in Nat : Below(0, k, MaxWrite(p))
        BY <2>3, <4>2, BelowAt
      <4>. QED BY <2>3, <4>1, <4>3 DEF Under
    <3>2. opens'[p] \in Nat /\ opens'[p] + 1 \in Nat /\ opens'[p] - 1 \in Nat
      <4>1. CASE pc[p] \in {"closed", "idle"} /\ opens'[p] = opens[p] + 1
        BY <1>2, <4>1
      <4>2. CASE pc[p] = "reopen" /\ opens'[p] = opens[p]
        <5>1. opens[p] - 1 \in Nat /\ opens[p] \in Nat
          BY <1>2, <4>2
        <5>. QED BY <4>2, <5>1
      <4>. QED BY <2>4, <4>1, <4>2
    <3>. QED BY <2>1, <2>2, <2>5, <2>6, <3>1, <3>2 DEF Small
  <2>8. CASE name[0] # None
    <3>1. opens'[p] = opens[p] + 1 /\ name' = name /\ data' = data
      BY <1>10, <2>4, <2>8, OpensAlone
    <3>2. \A k : Under(p, 0, k) => Under(p, 0, k)'
      BY <2>3, <3>1 DEF Under
    <3>3. Under(p, 0, opens[p]) /\ Under(p, 0, opens[p] + 1) /\ Under(p, 0, opens'[p] + 1)
      BY <1>1, <1>2, <2>8, <3>1, UnderMore
    <3>4. opens'[p] - 1 = opens[p]
      BY <1>2, <3>1
    <3>. QED BY <2>1, <2>2, <2>5, <2>6, <3>1, <3>2, <3>3, <3>4 DEF Small
  <2>. QED BY <2>7, <2>8
<1>. QED BY <1>3, <1>4, <1>5, <1>6, <1>7, <1>8, <1>9, <1>10 DEF Step

\* Where the newest names are free nothing was cut off.
LEMMA PiecesNewest ==
  ASSUME LoggerAssumption, NEW from, Pieces(from), NEW a \in Names,
         \A b \in Names : b < a => name[b] = None
  PROVE  \A n \in 0 .. a : from[n] = Len(written)
<1>1. LogNo \in Nat /\ a \in Nat /\ a <= LogNo /\ Names = 0 .. LogNo
  BY Constants
<1>. DEFINE T == {n \in Nat : n <= a => from[n] = Len(written)}
<1>2. 0 \in T
  BY DEF Pieces
<1>3. ASSUME NEW n \in Nat, n \in T PROVE n + 1 \in T
  <2>. SUFFICES ASSUME n + 1 <= a PROVE from[n + 1] = Len(written)
    OBVIOUS
  <2>1. n \in Names /\ n < a /\ from[n] = Len(written)
    BY <1>1, <1>3
  <2>2. name[n] = None
    BY <2>1
  <2>. QED BY <2>1, <2>2 DEF Pieces
<1>. HIDE DEF T
<1>4. Nat \subseteq T
  BY <1>2, <1>3, Induction
<1>. QED BY <1>1, <1>4 DEF T

\* The places the files begin at are places of what was written.
LEMMA PiecesWithin ==
  ASSUME LoggerAssumption, TypeOK, NEW from, Pieces(from)
  PROVE  /\ LogNo \in Nat /\ written \in Seq(Records) /\ Len(written) \in Nat
         /\ \A n \in 0 .. (LogNo + 1) : from[n] \in Nat /\ from[n] <= Len(written)
<1>1. LogNo \in Nat /\ written \in Seq(Records) /\ Len(written) \in Nat
  BY Constants DEF TypeOK
<1>2. \A n \in 0 .. (LogNo + 1) : 0 <= n /\ 0 \in 0 .. (LogNo + 1)
  BY <1>1
<1>3. \A n \in 0 .. (LogNo + 1) : from[n] <= from[0] /\ from[n] \in Nat
  BY <1>2 DEF Pieces
<1>. QED BY <1>1, <1>3 DEF Pieces

\* A write makes the newest piece longer.
LEMMA SuffixWrites ==
  ASSUME LoggerAssumption, Shape, NEW p \in Procs, AtNewest(p), Suffix,
         NEW t \in Seq(Records), Reaches(p, t), fd[p] # None
  PROVE  Suffix'
<1>. USE Constants
<1>1. /\ pc[p] = "write" /\ name' = name /\ fd[p] # None /\ fd[p] \in Files
      /\ data'[fd[p]] = data[fd[p]] \o t
      /\ \A f \in Files \ {fd[p]} : data'[f] = data[f]
      /\ written' = written \o t
  BY WritesAlone
<1>2. PICK a \in Names : name[a] = fd[p] /\ \A b \in Names : b < a => name[b] = None
  BY <1>1 DEF AtNewest
<1>3. PICK from : Pieces(from) /\ Enough(from[LogNo + 1])
  BY DEF Suffix
<1>4. PICK m \in Nat : m = Len(written)
  BY DEF Shape, TypeOK
<1>5. PICK w \in Seq(Records) : w = written
  BY DEF Shape, TypeOK
<1>7. PICK l \in Nat : l = Len(t)
  OBVIOUS
<1>8. written' = w \o t /\ written' \in Seq(Records) /\ Len(written') = m + l
  BY <1>1, <1>4, <1>5, <1>7, ConcatProperties
<1>9. \A n \in 0 .. (LogNo + 1) : from[n] \in Nat /\ from[n] <= m
  BY <1>3, <1>4, PiecesWithin DEF Shape
<1>10. \A n \in 0 .. a : from[n] = m
  BY <1>2, <1>3, <1>4, PiecesNewest
<1>11. /\ \A k, n \in 0 .. (LogNo + 1) : k <= n => from[n] <= from[k]
       /\ \A n \in Names :
            IF name[n] = None THEN from[n + 1] = from[n]
            ELSE data[name[n]] = SubSeq(w, from[n + 1] + 1, from[n])
  BY <1>3, <1>5 DEF Pieces
<1>12. a \in Nat /\ a <= LogNo /\ LogNo \in Nat
  OBVIOUS
<1>. DEFINE to == [n \in 0 .. (LogNo + 1) |-> IF n <= a THEN m + l ELSE from[n]]
<1>13. /\ to \in [0 .. (LogNo + 1) -> Nat] /\ to[LogNo + 1] = from[LogNo + 1]
       /\ \A n \in 0 .. a : to[n] = m + l
       /\ \A n \in (a + 1) .. (LogNo + 1) : to[n] = from[n]
  <2>1. m + l \in Nat
    OBVIOUS
  <2>2. \A n \in 0 .. (LogNo + 1) : to[n] \in Nat
    BY <1>9, <2>1
  <2>3. ~(LogNo + 1 <= a) /\ LogNo + 1 \in 0 .. (LogNo + 1)
    BY <1>12
  <2>4. \A n \in 0 .. a : n \in 0 .. (LogNo + 1) /\ n <= a
    BY <1>12
  <2>5. \A n \in (a + 1) .. (LogNo + 1) : n \in 0 .. (LogNo + 1) /\ ~(n <= a)
    BY <1>12
  <2>. QED BY <2>2, <2>3, <2>4, <2>5
<1>. HIDE DEF to
<1>14. Pieces(to)'
  <2>1. to[0] = m + l
    BY <1>12, <1>13
  <2>2. ASSUME NEW k \in 0 .. (LogNo + 1), NEW n \in 0 .. (LogNo + 1), k <= n
        PROVE  to[n] <= to[k]
    <3>1. CASE n <= a
      <4>1. k \in 0 .. a /\ n \in 0 .. a
        BY <2>2, <3>1
      <4>. QED BY <1>13, <4>1
    <3>2. CASE ~(n <= a) /\ k <= a
      <4>1. to[n] = from[n] /\ to[k] = m + l
        BY <1>12, <1>13, <3>2
      <4>. QED BY <1>9, <4>1
    <3>3. CASE ~(n <= a) /\ ~(k <= a)
      <4>1. to[n] = from[n] /\ to[k] = from[k]
        BY <1>12, <1>13, <3>3
      <4>. QED BY <1>11, <2>2, <4>1
    <3>. QED BY <3>1, <3>2, <3>3
  <2>3. ASSUME NEW n \in Names
        PROVE  IF name[n] = None THEN to[n + 1] = to[n]
               ELSE data'[name[n]] = SubSeq(written', to[n + 1] + 1, to[n])
    <3>1. CASE n < a
      <4>1. name[n] = None /\ n + 1 \in 0 .. a /\ n \in 0 .. a
        BY <1>2, <3>1
      <4>. QED BY <1>13, <4>1
    <3>2. CASE n = a
      <4>1. name[n] # None /\ to[n] = m + l /\ to[n + 1] = from[n + 1]
        <5>1. n \in 0 .. a /\ n + 1 \in (a + 1) .. (LogNo + 1)
          BY <1>12, <3>2
        <5>2. name[n] # None
          BY <1>1, <1>2, <3>2
        <5>. QED BY <1>13, <5>1, <5>2
      <4>2. PICK k \in Nat : k = from[n + 1] /\ k <= m
        <5>1. n + 1 \in 0 .. (LogNo + 1)
          BY <1>12, <3>2
        <5>. QED BY <1>9, <5>1
      <4>3. data[name[n]] = SubSeq(w, k + 1, m)
        <5>1. from[n] = m
          BY <1>10, <1>12, <3>2
        <5>. QED BY <1>11, <4>1, <4>2, <5>1
      <4>4. SubSeq(w \o t, k + 1, Len(w \o t)) = SubSeq(w, k + 1, Len(w)) \o t
        BY <1>4, <1>5, <4>2, PieceGrows
      <4>5. data'[name[n]] = data[name[n]] \o t
        BY <1>1, <1>2, <3>2
      <4>. QED BY <1>4, <1>5, <1>8, <4>1, <4>2, <4>3, <4>4, <4>5
    <3>3. CASE n > a
      <4>1. n \in (a + 1) .. (LogNo + 1) /\ n + 1 \in (a + 1) .. (LogNo + 1)
        BY <1>12, <3>3
      <4>2. to[n] = from[n] /\ to[n + 1] = from[n + 1]
        BY <1>13, <4>1
      <4>3. CASE name[n] = None
        BY <1>11, <4>2, <4>3
      <4>4. CASE name[n] # None
        <5>1. name[n] # fd[p] /\ name[n] \in Files
          BY <1>1, <1>2, <3>3, <4>4 DEF Shape, OneName, TypeOK
        <5>2. data'[name[n]] = SubSeq(w, from[n + 1] + 1, from[n])
          BY <1>1, <1>11, <4>4, <5>1
        <5>3. PICK k \in Nat, j \in Nat : k = from[n + 1] /\ j = from[n] /\ k <= j /\ j <= m
          <6>1. n \in 0 .. (LogNo + 1) /\ n + 1 \in 0 .. (LogNo + 1) /\ n <= n + 1
            BY <1>12
          <6>. QED BY <1>9, <1>11, <6>1
        <5>4. SubSeq(w \o t, k + 1, j) = SubSeq(w, k + 1, j)
          <6>1. k <= j /\ j <= Len(w)
            BY <1>4, <1>5, <5>3
          <6>. QED BY <6>1, PieceStays
        <5>. QED BY <1>8, <4>2, <4>4, <5>2, <5>3, <5>4
      <4>. QED BY <4>3, <4>4
    <3>. QED BY <1>12, <3>1, <3>2, <3>3
  <2>. QED BY <1>1, <1>8, <1>13, <2>1, <2>2, <2>3 DEF Pieces
<1>15. Enough(from[LogNo + 1])'
  <2>1. PICK k \in Nat : k = from[LogNo + 1] /\ k <= m
    <3>1. LogNo + 1 \in 0 .. (LogNo + 1)
      BY <1>12
    <3>. QED BY <1>9, <3>1
  <2>2. CASE k = 0 \/ LogNo < 2
    BY <2>1, <2>2 DEF Enough
  <2>3. CASE ~(k = 0 \/ LogNo < 2)
    <3>1. PICK s \in LogSizes : Bytes(SubSeq(w, k + 1, m)) >= s
      BY <1>3, <1>4, <1>5, <2>1, <2>3 DEF Enough
    <3>2. PICK v \in Seq(Records) : v = SubSeq(w, k + 1, m)
      <4>1. k <= m /\ m <= Len(w)
        BY <1>4, <1>5, <2>1
      <4>2. SubSeq(w, k + 1, m) \in Seq(Records)
        BY <4>1, PieceIs
      <4>. QED BY <4>2
    <3>3. SubSeq(w \o t, k + 1, Len(w \o t)) = v \o t
      <4>1. k <= Len(w) /\ m = Len(w)
        BY <1>4, <1>5, <2>1
      <4>2. SubSeq(w \o t, k + 1, Len(w \o t)) = SubSeq(w, k + 1, Len(w)) \o t
        BY <4>1, PieceGrows
      <4>. QED BY <3>2, <4>1, <4>2
    <3>4. Bytes(v \o t) = Bytes(v) + Bytes(t) /\ Bytes(v) \in Nat /\ Bytes(t) \in Nat
      BY BytesConcat, BytesIs
    <3>5. Bytes(v \o t) >= s /\ s \in Nat
      BY <3>1, <3>2, <3>4
    <3>6. Bytes(SubSeq(written', k + 1, Len(written'))) >= s
      BY <1>8, <3>3, <3>5
    <3>. QED BY <2>1, <3>6 DEF Enough
  <2>. QED BY <2>2, <2>3
<1>. QED BY <1>13, <1>14, <1>15 DEF Suffix

\* A new file is an empty piece.
LEMMA SuffixOpens ==
  ASSUME LoggerAssumption, Shape, NEW from, Pieces(from), Enough(from[LogNo + 1]),
         name[0] = None, name'[0] # None, data'[name'[0]] = <<>>,
         \A n \in Names \ {0} : name'[n] = name[n],
         \A n \in Names \ {0} : name[n] # None => data'[name[n]] = data[name[n]],
         written' = written
  PROVE  Suffix'
<1>. USE Constants
<1>1. PICK m \in Nat : m = Len(written)
  BY DEF Shape, TypeOK
<1>2. from[0] = m /\ from[1] = m /\ 1 = 0 + 1
  BY <1>1 DEF Pieces
<1>3. SubSeq(written, m + 1, m) = <<>>
  BY SubSeqEmpty
<1>4. ASSUME NEW n \in Names
      PROVE  IF name'[n] = None THEN from[n + 1] = from[n]
             ELSE data'[name'[n]] = SubSeq(written, from[n + 1] + 1, from[n])
  <2>1. CASE n = 0
    BY <1>2, <1>3, <2>1
  <2>2. CASE n # 0
    BY <2>2 DEF Pieces
  <2>. QED BY <2>1, <2>2
<1>5. Pieces(from)'
  BY <1>4 DEF Pieces
<1>6. Enough(from[LogNo + 1])'
  BY DEF Enough
<1>. QED BY <1>5, <1>6 DEF Suffix

\* Only the oldest file is ever unlinked, and the newest one is full then.
LEMMA SuffixUnlinks ==
  ASSUME LoggerAssumption, Shape, NEW p \in Procs, InLoop(p), Suffix, Unlinks(p)
  PROVE  Suffix'
<1>. USE Constants
<1>1. PICK from : Pieces(from) /\ Enough(from[LogNo + 1])
  BY DEF Suffix
<1>2. PICK j \in Nat : j = i[p] /\ j + 2 <= LogNo /\ LogNo \in Nat /\ j + 1 \in Names
  BY UnlinksAlone, LoopAt
<1>3. /\ pc[p] \in Shifting /\ name'[j + 1] = None /\ \A n \in Names \ {j + 1} : name'[n] = name[n]
      /\ data' = data /\ written' = written
  BY <1>2, UnlinksAlone
<1>4. CASE name[j + 1] = None
  <2>1. \A n \in Names : name'[n] = name[n]
    BY <1>2, <1>3, <1>4
  <2>2. Pieces(from)' /\ Enough(from[LogNo + 1])'
    BY <1>1, <1>3, <2>1 DEF Pieces, Enough
  <2>. QED BY <2>2 DEF Suffix
<1>5. CASE name[j + 1] # None
  <2>1. j + 2 = LogNo /\ name[0] # None /\ \E s \in LogSizes : Bytes(data[name[0]]) >= s
    BY <1>2, <1>3, <1>5 DEF InLoop
  <2>2. PICK s \in LogSizes : Bytes(data[name[0]]) >= s
    BY <2>1
  <2>3. name[LogNo] = None
    BY <1>2 DEF Shape, LastUnused
  <2>4. PICK w \in Seq(Records), m \in Nat : w = written /\ m = Len(w)
    BY DEF Shape, TypeOK
  <2>5. PICK c \in Nat : c = from[LogNo - 1] /\ c <= m
    <3>1. LogNo - 1 \in 0 .. (LogNo + 1)
      BY <1>2
    <3>. QED BY <1>1, <2>4, <3>1, PiecesWithin DEF Shape
  <2>. DEFINE to == [n \in 0 .. (LogNo + 1) |-> IF n < LogNo THEN from[n] ELSE c]
  <2>6. /\ to \in [0 .. (LogNo + 1) -> Nat] /\ to[LogNo + 1] = c /\ to[LogNo] = c
        /\ \A n \in 0 .. (LogNo - 1) : to[n] = from[n]
    <3>1. LogNo \in Nat /\ ~(LogNo < LogNo) /\ ~(LogNo + 1 < LogNo)
      BY <1>2
    <3>2. LogNo \in 0 .. (LogNo + 1) /\ LogNo + 1 \in 0 .. (LogNo + 1)
      BY <3>1
    <3>3. \A n \in 0 .. (LogNo - 1) : n \in 0 .. (LogNo + 1) /\ n < LogNo
      BY <3>1
    <3>4. \A n \in 0 .. (LogNo + 1) : from[n] \in Nat
      BY <1>1 DEF Pieces
    <3>5. \A n \in 0 .. (LogNo + 1) : to[n] \in Nat
      BY <3>4
    <3>. QED BY <3>1, <3>2, <3>3, <3>5
  <2>. HIDE DEF to
  <2>7. /\ from[0] = m
        /\ \A k, n \in 0 .. (LogNo + 1) : k <= n => from[n] <= from[k]
        /\ \A n \in Names :
             IF name[n] = None THEN from[n + 1] = from[n]
             ELSE data[name[n]] = SubSeq(w, from[n + 1] + 1, from[n])
    BY <1>1, <2>4 DEF Pieces
  <2>8. ASSUME NEW k \in 0 .. (LogNo + 1), NEW n \in 0 .. (LogNo + 1), k <= n
        PROVE  to[n] <= to[k]
    <3>1. CASE n < LogNo
      <4>1. n \in 0 .. (LogNo - 1) /\ k \in 0 .. (LogNo - 1)
        BY <1>2, <2>8, <3>1
      <4>. QED BY <2>6, <2>7, <2>8, <4>1
    <3>2. CASE ~(n < LogNo)
      <4>1. to[n] = c
        <5>1. n = LogNo \/ n = LogNo + 1
          BY <1>2, <3>2
        <5>. QED BY <2>6, <5>1
      <4>2. CASE k < LogNo
        <5>1. k \in 0 .. (LogNo - 1) /\ k <= LogNo - 1 /\ LogNo - 1 \in 0 .. (LogNo + 1)
          BY <1>2, <4>2
        <5>. QED BY <2>5, <2>6, <2>7, <4>1, <5>1
      <4>3. CASE ~(k < LogNo)
        <5>1. to[k] = c
          <6>1. k = LogNo \/ k = LogNo + 1
            BY <1>2, <4>3
          <6>. QED BY <2>6, <6>1
        <5>. QED BY <4>1, <5>1
      <4>. QED BY <4>2, <4>3
    <3>. QED BY <3>1, <3>2
  <2>9. ASSUME NEW n \in Names
        PROVE  IF name'[n] = None THEN to[n + 1] = to[n]
               ELSE data[name'[n]] = SubSeq(w, to[n + 1] + 1, to[n])
    <3>1. CASE n < LogNo - 1
      <4>1. n \in 0 .. (LogNo - 1) /\ n + 1 \in 0 .. (LogNo - 1) /\ n \in Names \ {j + 1}
        <5>1. n \in Nat /\ LogNo \in Nat /\ j + 2 = LogNo
          BY <1>2, <2>1
        <5>. QED BY <3>1, <5>1
      <4>. QED BY <1>3, <2>6, <2>7, <4>1
    <3>2. CASE n = LogNo - 1
      <4>1. name'[n] = None
        <5>1. n = j + 1
          BY <1>2, <2>1, <3>2
        <5>. QED BY <1>3, <5>1
      <4>2. to[n] = from[n] /\ from[n] = c /\ to[n + 1] = c
        <5>1. n \in 0 .. (LogNo - 1) /\ n + 1 = LogNo
          BY <1>2, <3>2
        <5>. QED BY <2>5, <2>6, <3>2, <5>1
      <4>. QED BY <4>1, <4>2
    <3>3. CASE n = LogNo
      <4>1. name'[n] = None
        <5>1. n # j + 1
          BY <1>2, <2>1, <3>3
        <5>. QED BY <1>3, <2>3, <3>3, <5>1
      <4>. QED BY <2>6, <3>3, <4>1
    <3>4. n < LogNo - 1 \/ n = LogNo - 1 \/ n = LogNo
      <4>1. n \in Nat /\ n <= LogNo /\ LogNo \in Nat
        BY <1>2
      <4>. QED BY <4>1
    <3>. QED BY <3>1, <3>2, <3>3, <3>4
  <2>10. to[0] = m
    <3>1. 0 \in 0 .. (LogNo - 1)
      BY <1>2
    <3>. QED BY <2>6, <2>7, <3>1
  <2>11. Pieces(to)'
    BY <1>3, <2>4, <2>6, <2>8, <2>9, <2>10 DEF Pieces
  <2>12. Enough(c)'
    <3>1. PICK k \in Nat : k = from[1] /\ c <= k /\ k <= m
      <4>1. 1 <= LogNo - 1 /\ 1 \in 0 .. (LogNo + 1) /\ LogNo - 1 \in 0 .. (LogNo + 1)
        BY <1>2
      <4>2. from[1] \in Nat /\ from[1] <= m
        BY <1>1, <2>4, <4>1, PiecesWithin DEF Shape
      <4>3. c <= from[1]
        BY <2>5, <2>7, <4>1
      <4>. QED BY <4>2, <4>3
    <3>2. PICK u \in Seq(Records) : u = SubSeq(w, c + 1, k)
      <4>1. SubSeq(w, c + 1, k) \in Seq(Records)
        BY <2>4, <3>1, PieceIs
      <4>. QED BY <4>1
    <3>3. PICK v \in Seq(Records) : v = SubSeq(w, k + 1, m)
      <4>1. SubSeq(w, k + 1, m) \in Seq(Records)
        BY <2>4, <3>1, PieceIs
      <4>. QED BY <4>1
    <3>4. data[name[0]] = v
      <4>1. 0 + 1 = 1 /\ 0 \in Names
        OBVIOUS
      <4>. QED BY <2>1, <2>7, <3>1, <3>3, <4>1
    <3>5. SubSeq(w, c + 1, m) = u \o v
      <4>1. SubSeq(w, c + 1, k) \o SubSeq(w, k + 1, m) = SubSeq(w, c + 1, m)
        <5>1. c <= k /\ k <= m /\ m <= Len(w)
          BY <2>4, <3>1
        <5>. QED BY <5>1, PiecesJoin
      <4>. QED BY <3>2, <3>3, <4>1
    <3>6. Bytes(u \o v) = Bytes(u) + Bytes(v) /\ Bytes(u) \in Nat /\ Bytes(v) \in Nat
      BY BytesConcat, BytesIs
    <3>7. s \in Nat /\ Bytes(v) >= s
      BY <2>2, <3>4
    <3>8. Bytes(SubSeq(w, c + 1, m)) >= s
      <4>1. Bytes(u) + Bytes(v) >= s
        BY <3>6, <3>7
      <4>. QED BY <3>5, <3>6, <4>1
    <3>. QED BY <1>3, <2>2, <2>4, <3>8 DEF Enough
  <2>. QED BY <2>6, <2>11, <2>12 DEF Suffix
<1>. QED BY <1>4, <1>5

\* A rename leaves the pieces in their order.
LEMMA SuffixRenames ==
  ASSUME LoggerAssumption, Shape, NEW p \in Procs, InLoop(p), Suffix, Renames(p)
  PROVE  Suffix'
<1>. USE Constants
<1>1. PICK from : Pieces(from) /\ Enough(from[LogNo + 1])
  BY DEF Suffix
<1>2. PICK j \in Nat : j = i[p] /\ j + 2 <= LogNo /\ LogNo \in Nat /\ j \in Names /\ j + 1 \in Names
  BY RenamesAlone, LoopAt
<1>3. /\ name[j] # None /\ name[j + 1] = None /\ name'[j] = None /\ name'[j + 1] = name[j]
      /\ \A n \in Names \ {j, j + 1} : name'[n] = name[n]
      /\ data' = data /\ written' = written
  BY <1>2, RenamesAlone
<1>4. /\ from \in [0 .. (LogNo + 1) -> Nat] /\ from[0] = Len(written)
      /\ \A k, n \in 0 .. (LogNo + 1) : k <= n => from[n] <= from[k]
      /\ \A n \in Names :
           IF name[n] = None THEN from[n + 1] = from[n]
           ELSE data[name[n]] = SubSeq(written, from[n + 1] + 1, from[n])
  BY <1>1 DEF Pieces
<1>5. PICK c \in Nat : c = from[j]
  <2>1. j \in 0 .. (LogNo + 1)
    BY <1>2
  <2>. QED BY <1>4, <2>1
<1>. DEFINE to == [n \in 0 .. (LogNo + 1) |-> IF n = j + 1 THEN c ELSE from[n]]
<1>6. /\ to \in [0 .. (LogNo + 1) -> Nat] /\ to[j + 1] = c
      /\ \A n \in 0 .. (LogNo + 1) : n # j + 1 => to[n] = from[n]
  <2>1. j + 1 \in 0 .. (LogNo + 1)
    BY <1>2
  <2>2. \A n \in 0 .. (LogNo + 1) : from[n] \in Nat
    BY <1>4
  <2>3. \A n \in 0 .. (LogNo + 1) : to[n] \in Nat
    BY <2>2
  <2>. QED BY <2>1, <2>3
<1>. HIDE DEF to
<1>7. to[0] = Len(written) /\ to[LogNo + 1] = from[LogNo + 1] /\ to[j] = c
  <2>1. /\ 0 \in 0 .. (LogNo + 1) /\ 0 # j + 1 /\ LogNo + 1 \in 0 .. (LogNo + 1) /\ LogNo + 1 # j + 1
        /\ j \in 0 .. (LogNo + 1) /\ j # j + 1
    BY <1>2
  <2>. QED BY <1>4, <1>5, <1>6, <2>1
<1>8. j + 1 \in 0 .. (LogNo + 1) /\ j + 2 \in 0 .. (LogNo + 1) /\ j \in 0 .. (LogNo + 1)
  BY <1>2
<1>9. ASSUME NEW k \in 0 .. (LogNo + 1), NEW n \in 0 .. (LogNo + 1), k <= n
      PROVE  to[n] <= to[k]
  <2>1. CASE n = j + 1 /\ k = j + 1
    BY <1>6, <2>1
  <2>2. CASE n = j + 1 /\ k # j + 1
    <3>1. k <= j
      BY <1>9, <2>2
    <3>. QED BY <1>4, <1>5, <1>6, <1>8, <2>2, <3>1
  <2>3. CASE n # j + 1 /\ k = j + 1
    <3>1. j <= n
      BY <1>9, <2>3
    <3>. QED BY <1>4, <1>5, <1>6, <1>8, <2>3, <3>1
  <2>4. CASE n # j + 1 /\ k # j + 1
    BY <1>4, <1>6, <1>9, <2>4
  <2>. QED BY <2>1, <2>2, <2>3, <2>4
<1>10. ASSUME NEW n \in Names
       PROVE  IF name'[n] = None THEN to[n + 1] = to[n]
              ELSE data[name'[n]] = SubSeq(written, to[n + 1] + 1, to[n])
  <2>1. CASE n = j
    BY <1>3, <1>6, <1>7, <2>1
  <2>2. CASE n = j + 1
    <3>1. to[j + 2] = from[j + 1]
      <4>1. (j + 1) + 1 = j + 2 /\ j + 2 # j + 1
        OBVIOUS
      <4>2. from[j + 2] = from[j + 1]
        BY <1>2, <1>3, <1>4, <4>1
      <4>. QED BY <1>6, <1>8, <4>1, <4>2
    <3>2. data[name[j]] = SubSeq(written, from[j + 1] + 1, c)
      BY <1>2, <1>3, <1>4, <1>5
    <3>3. n + 1 = j + 2
      BY <2>2
    <3>. QED BY <1>3, <1>6, <2>2, <3>1, <3>2, <3>3
  <2>3. CASE n # j /\ n # j + 1
    <3>1. n \in 0 .. (LogNo + 1) /\ n + 1 \in 0 .. (LogNo + 1) /\ n + 1 # j + 1
      BY <1>2, <2>3
    <3>2. to[n] = from[n] /\ to[n + 1] = from[n + 1] /\ name'[n] = name[n]
      BY <1>3, <1>6, <2>3, <3>1
    <3>. QED BY <1>4, <3>2
  <2>. QED BY <2>1, <2>2, <2>3
<1>11. Pieces(to)'
  BY <1>3, <1>6, <1>7, <1>9, <1>10 DEF Pieces
<1>12. Enough(to[LogNo + 1])'
  BY <1>1, <1>3, <1>7 DEF Enough
<1>. QED BY <1>11, <1>12 DEF Suffix

\* A process alone drops only the oldest of what reached a file.
LEMMA SuffixStep ==
  ASSUME LoggerAssumption, Shape, Shape', NEW p \in Procs, AtNewest(p), InLoop(p), Suffix, Step(p)
  PROVE  Suffix'
<1>1. ASSUME name' = name, data' = data, written' = written PROVE Suffix'
  BY <1>1 DEF Suffix, Pieces, Enough
<1>2. CASE open(p) \/ Reopens(p)
  <2>1. CASE name[0] = None
    <3>1. PICK from : Pieces(from) /\ Enough(from[LogNo + 1])
      BY DEF Suffix
    <3>. QED BY <1>2, <2>1, <3>1, OpensAlone, SuffixOpens
  <2>2. CASE name[0] # None
    BY <1>1, <1>2, <2>2, OpensAlone
  <2>. QED BY <2>1, <2>2
<1>3. CASE set_logsize(p) \/ logv(p) \/ Stats(p) \/ Accesses(p)
  BY <1>1, <1>3, QuietAlone, StatsAlone, AccessesAlone
<1>4. CASE Writes(p) \/ WritesShort(p)
  <2>1. PICK out \in Seq(Records) : Reaches(p, out)
    BY <1>4, WriteSteps
  <2>2. CASE fd[p] = None
    BY <1>1, <2>1, <2>2, WritesAlone
  <2>. QED BY <2>1, <2>2, SuffixWrites
<1>5. CASE OpenFails(p) \/ close(p) \/ ReopenFails(p) \/ Ends(p)
  BY <1>1, <1>5, EndsAlone
<1>6. CASE Unlinks(p)
  BY <1>6, SuffixUnlinks
<1>7. CASE Renames(p)
  BY <1>7, SuffixRenames
<1>. QED BY <1>2, <1>3, <1>4, <1>5, <1>6, <1>7 DEF Step

\* Only the process that is alone takes steps, and was alone before.
LEMMA StillAlone ==
  ASSUME Shape, NEW p \in Procs, Alone(p)', NEW q \in Procs, Step(q)
  PROVE  q = p /\ Alone(p)
<1>1. \/ opens' = [opens EXCEPT ![q] = @ + 1]
      \/ pc[q] # "closed" /\ opens' = opens
  BY DEF Step, open, OpenFails, Called, close, set_logsize, logv, Writes, WritesShort, Reaches,
         Stats, Reopens, ReopenFails, Accesses, Unlinks, Renames, Ends
<1>2. \A r \in Procs : opens[r] \in Nat /\ (r # q => opens'[r] = opens[r])
  BY <1>1 DEF Shape, TypeOK
<1>3. opens'[q] # 0
  <2>1. CASE opens' = [opens EXCEPT ![q] = @ + 1]
    <3>1. opens'[q] = opens[q] + 1
      BY <2>1 DEF Shape, TypeOK
    <3>. QED BY <1>2, <3>1
  <2>2. CASE pc[q] # "closed" /\ opens' = opens
    BY <2>2 DEF Shape, Unopened
  <2>. QED BY <1>1, <2>1, <2>2
<1>4. q = p
  BY <1>3 DEF Alone
<1>5. Alone(p)
  BY <1>2, <1>4 DEF Alone
<1>. QED BY <1>4, <1>5

\* Every step keeps what holds of a process alone.
LEMMA ByOneNext ==
  LoggerAssumption /\ Shape /\ Shape' /\ Counts /\ ByOne /\ [Next]_vars => ByOne'
<1>. SUFFICES ASSUME LoggerAssumption, Shape, Shape', Counts, ByOne, [Next]_vars,
                     NEW p \in Procs, Alone(p)'
              PROVE  Single(p)'
  BY DEF ByOne
<1>1. CASE UNCHANGED vars
  <2>1. Alone(p)
    BY <1>1 DEF Alone, vars
  <2>2. AtNewest(p) /\ InLoop(p) /\ Suffix /\ (LogNo >= 2 => Small(p))
    BY <2>1 DEF ByOne, Single
  <2>3. AtNewest(p)' /\ InLoop(p)'
    BY <1>1, <2>2 DEF vars, AtNewest, InLoop
  <2>4. Suffix'
    BY <1>1, <2>2 DEF vars, Suffix, Pieces, Enough
  <2>5. LogNo >= 2 => Small(p)'
    BY <1>1, <2>2, SmallLeft DEF vars
  <2>. QED BY <2>3, <2>4, <2>5 DEF Single
<1>2. CASE Next
  <2>1. PICK q \in Procs : Step(q)
    BY <1>2 DEF Next, Step
  <2>2. Step(p) /\ Alone(p)
    BY <2>1, StillAlone
  <2>3. AtNewest(p) /\ InLoop(p) /\ Suffix /\ (LogNo >= 2 => Small(p))
    BY <2>2 DEF ByOne, Single
  <2>4. AtNewest(p)'
    BY <2>2, <2>3, AtNewestStep
  <2>5. InLoop(p)'
    BY <2>2, <2>3, InLoopStep
  <2>6. Suffix'
    BY <2>2, <2>3, SuffixStep
  <2>7. LogNo >= 2 => Small(p)'
    BY <2>2, <2>3, SmallStep
  <2>. QED BY <2>4, <2>5, <2>6, <2>7 DEF Single
<1>. QED BY <1>1, <1>2

\* The invariant holds at the start.
LEMMA InitHolds == LoggerAssumption /\ Init => IInv
<1>. SUFFICES ASSUME LoggerAssumption, Init PROVE IInv
  OBVIOUS
<1>. USE Constants
<1>1. Shape
  BY InitShape
<1>2. Sequence
  <2>1. (\A q \in Procs : buf[q] = <<>>) /\ (\A f \in Files : data[f] = <<>>)
        /\ \A n \in Names : name[n] = None
    BY DEF Init
  <2>. QED BY <2>1, OrderEmpty DEF Sequence, Buffers, Contents, Across, Behind
<1>3. Counts
  <2>1. \A q \in Procs : buf[q] = <<>> /\ len[q] = 0 /\ pc[q] = "closed"
    BY DEF Init
  <2>. QED BY <2>1, BytesOfNone DEF Counts, Counted
<1>4. ByOne
  <2>. SUFFICES ASSUME NEW p \in Procs PROVE Single(p)
    BY DEF ByOne
  <2>1. pc[p] = "closed" /\ written = <<>> /\ \A n \in Names : name[n] = None
    BY DEF Init
  <2>2. AtNewest(p) /\ InLoop(p) /\ Small(p)
    BY <2>1 DEF AtNewest, InLoop, Small, Shifting
  <2>3. Suffix
    <3>. DEFINE from == [n \in 0 .. (LogNo + 1) |-> 0]
    <3>1. \A n \in 0 .. (LogNo + 1) : from[n] = 0
      OBVIOUS
    <3>2. /\ 0 \in 0 .. (LogNo + 1) /\ LogNo + 1 \in 0 .. (LogNo + 1)
          /\ \A n \in Names : n \in 0 .. (LogNo + 1) /\ n + 1 \in 0 .. (LogNo + 1)
      OBVIOUS
    <3>3. from \in [0 .. (LogNo + 1) -> Nat]
      OBVIOUS
    <3>. HIDE DEF from
    <3>4. Len(written) = 0
      BY <2>1
    <3>5. Pieces(from)
      BY <2>1, <3>1, <3>2, <3>3, <3>4 DEF Pieces
    <3>6. Enough(from[LogNo + 1])
      BY <3>1, <3>2 DEF Enough
    <3>. QED BY <3>5, <3>6 DEF Suffix
  <2>. QED BY <2>2, <2>3 DEF Single
<1>. QED BY <1>1, <1>2, <1>3, <1>4 DEF IInv

\* Every step keeps the invariant.
LEMMA StepKeeps == LoggerAssumption /\ IInv /\ [Next]_vars => IInv'
<1>. SUFFICES ASSUME LoggerAssumption, IInv, [Next]_vars PROVE IInv'
  OBVIOUS
<1>1. Shape'
  BY ShapeNext DEF IInv
<1>. QED BY <1>1, SequenceNext, CountsNext, ByOneNext DEF IInv

\* What a reader finds is what was written behind the first place.
Reads(f) ==
  f = [n \in 0 .. (LogNo + 1) |->
         IF n = 0 THEN <<>>
         ELSE f[n - 1] \o (IF name[LogNo + 1 - n] = None THEN <<>> ELSE data[name[LogNo + 1 - n]])]

\* The recursion of Kept defines a function.
LEMMA ReadsExist == ASSUME LoggerAssumption PROVE \E f : Reads(f)
<1>. DEFINE Piece(n) == IF name[LogNo + 1 - n] = None THEN <<>> ELSE data[name[LogNo + 1 - n]]
            Is(f, m) == f = [n \in 0 .. m |-> IF n = 0 THEN <<>> ELSE f[n - 1] \o Piece(n)]
            T == {m \in Nat : \E f : Is(f, m)}
<1>1. 0 \in T
  <2>1. Is([n \in 0 .. 0 |-> <<>>], 0)
    <3>. HIDE DEF Piece
    <3>. QED OBVIOUS
  <2>. QED BY <2>1
<1>2. ASSUME NEW m \in Nat, m \in T PROVE m + 1 \in T
  <2>1. PICK f : Is(f, m)
    BY <1>2
  <2>. DEFINE g == [n \in 0 .. (m + 1) |-> IF n <= m THEN f[n] ELSE f[m] \o Piece(m + 1)]
  <2>. HIDE DEF Piece
  <2>2. ASSUME NEW n \in 0 .. (m + 1)
        PROVE  g[n] = IF n = 0 THEN <<>> ELSE g[n - 1] \o Piece(n)
    <3>1. CASE n = 0
      BY <2>1, <3>1
    <3>2. CASE n # 0 /\ n <= m
      <4>1. n \in 0 .. m /\ n - 1 \in 0 .. (m + 1) /\ n - 1 <= m
        BY <3>2
      <4>2. g[n] = f[n] /\ g[n - 1] = f[n - 1]
        BY <4>1
      <4>3. f[n] = f[n - 1] \o Piece(n)
        BY <2>1, <3>2, <4>1
      <4>. QED BY <3>2, <4>2, <4>3
    <3>3. CASE n = m + 1
      <4>1. n - 1 = m /\ m \in 0 .. (m + 1) /\ ~(n <= m) /\ n # 0
        BY <3>3
      <4>2. g[m + 1] = f[m] \o Piece(m + 1)
        <5>1. m + 1 \in 0 .. (m + 1) /\ ~(m + 1 <= m)
          OBVIOUS
        <5>. QED BY <5>1
      <4>3. g[m] = f[m]
        BY <4>1
      <4>. QED BY <3>3, <4>1, <4>2, <4>3
    <3>. QED BY <3>1, <3>2, <3>3
  <2>3. Is(g, m + 1)
    BY <2>2
  <2>. HIDE DEF Is, g
  <2>. QED BY <2>3
<1>. HIDE DEF Is
<1>3. Nat \subseteq T
  BY <1>1, <1>2, Induction
<1>4. \E f : Is(f, LogNo + 1)
  BY <1>3, Constants
<1>. QED BY <1>4 DEF Is, Reads

\* What a reader finds is one piece: all that was written behind the first place.
LEMMA KeptIs ==
  ASSUME LoggerAssumption, TypeOK, NEW from, Pieces(from)
  PROVE  Kept = SubSeq(written, from[LogNo + 1] + 1, Len(written))
<1>. DEFINE read == CHOOSE read : read =
              [n \in 0 .. (LogNo + 1) |->
                 IF n = 0 THEN <<>>
                 ELSE read[n - 1] \o (IF name[LogNo + 1 - n] = None THEN <<>>
                                      ELSE data[name[LogNo + 1 - n]])]
<1>1. Reads(read)
  <2>1. \E f : f = [n \in 0 .. (LogNo + 1) |->
                      IF n = 0 THEN <<>>
                      ELSE f[n - 1] \o (IF name[LogNo + 1 - n] = None THEN <<>>
                                        ELSE data[name[LogNo + 1 - n]])]
    BY ReadsExist DEF Reads
  <2>2. read = [n \in 0 .. (LogNo + 1) |->
                  IF n = 0 THEN <<>>
                  ELSE read[n - 1] \o (IF name[LogNo + 1 - n] = None THEN <<>>
                                       ELSE data[name[LogNo + 1 - n]])]
    BY <2>1
  <2>. HIDE DEF read
  <2>. QED BY <2>2 DEF Reads
<1>2. Kept = read[LogNo + 1]
  BY DEF Kept
<1>. HIDE DEF read
<1>3. PICK top \in Nat : top = LogNo + 1
  BY Constants
<1>4. PICK w \in Seq(Records), m \in Nat : w = written /\ m = Len(w)
  BY DEF TypeOK
<1>5. PICK c \in Nat : c = from[top]
  BY <1>3, PiecesWithin
<1>6. \A n \in 0 .. top : from[n] \in Nat /\ from[n] <= m /\ c <= from[n]
  <2>1. \A n \in 0 .. top : from[n] \in Nat /\ from[n] <= m
    BY <1>3, <1>4, PiecesWithin
  <2>2. \A n \in 0 .. top : n <= top /\ top \in 0 .. top
    OBVIOUS
  <2>3. \A n \in 0 .. top : from[top] <= from[n]
    BY <1>3, <2>2 DEF Pieces
  <2>. QED BY <1>5, <2>1, <2>3
<1>. DEFINE T == {n \in Nat : n <= top => read[n] = SubSeq(w, c + 1, from[top - n])}
<1>7. 0 \in T
  <2>1. SubSeq(w, c + 1, c) = <<>>
    BY SubSeqEmpty
  <2>2. read[0] = <<>>
    BY <1>1, <1>3 DEF Reads
  <2>3. top - 0 = top
    OBVIOUS
  <2>. QED BY <1>5, <2>1, <2>2, <2>3
<1>8. ASSUME NEW n \in Nat, n \in T PROVE n + 1 \in T
  <2>. SUFFICES ASSUME n + 1 <= top PROVE read[n + 1] = SubSeq(w, c + 1, from[top - (n + 1)])
    OBVIOUS
  <2>1. PICK k \in Nat : k = top - (n + 1)
    OBVIOUS
  <2>2. /\ k \in Names /\ k \in 0 .. top /\ k + 1 \in 0 .. top /\ k + 1 = top - n
        /\ n + 1 \in 0 .. (LogNo + 1) /\ n + 1 # 0 /\ (n + 1) - 1 = n /\ LogNo + 1 - (n + 1) = k
    <3>1. LogNo \in Nat /\ Names = 0 .. LogNo
      BY Constants
    <3>. QED BY <1>3, <2>1, <3>1
  <2>3. read[n] = SubSeq(w, c + 1, from[k + 1])
    BY <1>8, <2>2
  <2>4. read[n + 1] = read[n] \o (IF name[k] = None THEN <<>> ELSE data[name[k]])
    BY <1>1, <2>2 DEF Reads
  <2>5. PICK a \in Nat, b \in Nat : a = from[k + 1] /\ b = from[k] /\ c <= a /\ b <= m /\ a <= b
    <3>1. k <= k + 1
      OBVIOUS
    <3>2. from[k + 1] <= from[k]
      BY <1>3, <2>2, <3>1 DEF Pieces
    <3>. QED BY <1>6, <2>2, <3>2
  <2>6. CASE name[k] = None
    <3>1. a = b
      BY <2>2, <2>5, <2>6 DEF Pieces
    <3>2. SubSeq(w, c + 1, a) \in Seq(Records)
      <4>1. c <= a /\ a <= Len(w)
        BY <1>4, <2>5, <3>1
      <4>. QED BY <4>1, PieceIs
    <3>3. read[n + 1] = SubSeq(w, c + 1, a) \o <<>>
      BY <2>3, <2>4, <2>5, <2>6
    <3>4. SubSeq(w, c + 1, a) \o <<>> = SubSeq(w, c + 1, a)
      BY <3>2, ConcatEmptySeq
    <3>. QED BY <2>1, <2>5, <3>1, <3>3, <3>4
  <2>7. CASE name[k] # None
    <3>1. data[name[k]] = SubSeq(w, a + 1, b)
      BY <1>4, <2>2, <2>5, <2>7 DEF Pieces
    <3>2. SubSeq(w, c + 1, a) \o SubSeq(w, a + 1, b) = SubSeq(w, c + 1, b)
      <4>1. c <= a /\ a <= b /\ b <= Len(w)
        BY <1>4, <2>5
      <4>. QED BY <4>1, PiecesJoin
    <3>3. read[n + 1] = SubSeq(w, c + 1, a) \o SubSeq(w, a + 1, b)
      BY <2>3, <2>4, <2>5, <2>7, <3>1
    <3>. QED BY <2>1, <2>5, <3>2, <3>3
  <2>. QED BY <2>6, <2>7
<1>. HIDE DEF T
<1>9. Nat \subseteq T
  BY <1>7, <1>8, Induction
<1>10. read[top] = SubSeq(w, c + 1, from[0])
  <2>1. top - top = 0 /\ top <= top
    OBVIOUS
  <2>. QED BY <1>9, <2>1 DEF T
<1>. QED BY <1>2, <1>3, <1>4, <1>5, <1>10 DEF Pieces

-----------------------------------------------------------------------------
(***************************************************************************)
(* The four properties follow.                                             *)
(***************************************************************************)
LEMMA OrderFollows == Shape /\ Sequence => OrderKept
<1>. SUFFICES ASSUME Shape, Sequence, NEW a \in Names, NEW b \in Names,
                     name[a] # None, name[b] # None,
                     NEW m \in DOMAIN data[name[a]], NEW n \in DOMAIN data[name[b]],
                     a > b \/ (a = b /\ m < n), data[name[a]][m].by = data[name[b]][n].by
              PROVE  data[name[a]][m].no < data[name[b]][n].no
  BY DEF OrderKept
<1>1. CASE a = b /\ m < n
  <2>1. name[a] \in Files
    BY DEF Shape, TypeOK
  <2>. QED BY <1>1, <2>1 DEF Sequence, Contents, InOrder
<1>2. CASE a > b
  <2>1. b < a
    BY <1>2 DEF Names
  <2>2. Precede(data[name[a]], data[name[b]])
    BY <2>1 DEF Sequence, Across
  <2>. QED BY <2>2 DEF Precede
<1>. QED BY <1>1, <1>2

\* What is missing is what was written first, and enough is left.
LEMMA OldestFollows == LoggerAssumption /\ Shape /\ ByOne => OnlyOldestDropped
<1>. SUFFICES ASSUME LoggerAssumption, Shape, ByOne, NEW p \in Procs, Alone(p)
              PROVE  LET lost == Len(written) - Len(Kept)
                     IN /\ lost >= 0 /\ Kept = SubSeq(written, lost + 1, Len(written))
                        /\ lost = 0 \/ LogNo < 2 \/ \E n \in LogSizes : Bytes(Kept) >= n
  BY DEF OnlyOldestDropped
<1>1. PICK from : Pieces(from) /\ Enough(from[LogNo + 1])
  BY DEF ByOne, Single, Suffix
<1>2. PICK w \in Seq(Records), m \in Nat : w = written /\ m = Len(w)
  BY DEF Shape, TypeOK
<1>3. PICK c \in Nat : c = from[LogNo + 1] /\ c <= m
  <2>1. LogNo + 1 \in 0 .. (LogNo + 1)
    BY Constants
  <2>. QED BY <1>1, <1>2, <2>1, PiecesWithin DEF Shape
<1>4. Kept = SubSeq(w, c + 1, m)
  BY <1>1, <1>2, <1>3, KeptIs DEF Shape
<1>5. Len(SubSeq(w, c + 1, m)) = m - c
  <2>1. \A n \in (c + 1) .. m : n \in 1 .. Len(w)
    BY <1>2, <1>3
  <2>2. \A n \in (c + 1) .. m : w[n] \in Records
    BY <2>1, ElementOfSeq
  <2>3. c + 1 \in Int /\ m \in Int
    OBVIOUS
  <2>4. Len(SubSeq(w, c + 1, m)) = IF c + 1 <= m THEN m - (c + 1) + 1 ELSE 0
    BY <2>2, <2>3, SubSeqProperties
  <2>. QED BY <1>3, <2>4
<1>6. Len(written) - Len(Kept) = c
  BY <1>2, <1>3, <1>4, <1>5
<1>7. c = 0 \/ LogNo < 2 \/ \E n \in LogSizes : Bytes(Kept) >= n
  BY <1>1, <1>2, <1>3, <1>4 DEF Enough
<1>8. c >= 0 /\ Kept = SubSeq(written, c + 1, Len(written))
  BY <1>2, <1>4
<1>. QED BY <1>6, <1>7, <1>8

\* The bound of FilesBounded is the one for all names.
LEMMA BoundedFollows == ByOne => FilesBounded
BY DEF ByOne, Single, Small, Under, Below, FilesBounded

\* A batch by a size the buffer has leaves room for one record more.
LEMMA FitsFollows == LoggerAssumption /\ Shape /\ Counts => BufferFits
<1>. SUFFICES ASSUME LoggerAssumption, Shape, Counts, NEW p \in Procs,
                     \A l \in Lens : ~(l > LOG_BUF_LEN), mode[p].batch # "count",
                     ~(mode[p].batch = "size" /\ mode[p].arg > BUF_SIZE - LOG_BUF_LEN)
              PROVE  len[p] <= BUF_SIZE
  BY DEF BufferFits
<1>1. Max(Lens) \in Nat /\ Max(Lens) \in Lens
  <2>1. Lens \in SUBSET Nat /\ Lens # {} /\ IsFiniteSet(Lens)
    BY DEF LoggerAssumption
  <2>. QED BY <2>1, MaxIs
<1>2. /\ LOG_BUF_LEN \in Nat /\ BUF_SIZE \in Nat /\ LOG_BUF_LEN <= BUF_SIZE
      /\ Max(Lens) <= LOG_BUF_LEN
  <2>1. LOG_BUF_LEN \in Nat /\ BUF_SIZE \in Nat /\ LOG_BUF_LEN <= BUF_SIZE
    BY DEF LoggerAssumption
  <2>. QED BY <1>1, <2>1
<1>3. len[p] \in Nat /\ mode[p].arg \in Int /\ Counted(p)
  BY Constants DEF Shape, TypeOK, Counts
<1>4. CASE pc[p] = "write"
  <2>1. len[p] <= MaxWrite(p)
    BY <1>3, <1>4 DEF Counted
  <2>. DEFINE sized == mode[p].batch = "size" /\ mode[p].arg > 0
  <2>2. MaxWrite(p) = Max(Lens) + IF sized THEN mode[p].arg - 1 ELSE 0
    BY DEF MaxWrite
  <2>3. CASE sized
    <3>1. MaxWrite(p) = Max(Lens) + (mode[p].arg - 1)
      BY <2>2, <2>3
    <3>2. mode[p].arg <= BUF_SIZE - LOG_BUF_LEN
      BY <1>2, <1>3, <2>3
    <3>. HIDE DEF sized
    <3>. QED BY <1>1, <1>2, <1>3, <2>1, <3>1, <3>2
  <2>4. CASE ~sized
    <3>1. MaxWrite(p) = Max(Lens) + 0
      BY <2>2, <2>4
    <3>. HIDE DEF sized
    <3>. QED BY <1>1, <1>2, <1>3, <2>1, <3>1
  <2>. QED BY <2>3, <2>4
<1>5. CASE pc[p] # "write"
  <2>1. len[p] = 0 \/ (mode[p].batch = "size" /\ len[p] < mode[p].arg)
    BY <1>3, <1>5 DEF Counted, Never
  <2>2. CASE len[p] = 0
    BY <1>2, <2>2
  <2>3. CASE mode[p].batch = "size" /\ len[p] < mode[p].arg
    <3>1. mode[p].arg <= BUF_SIZE - LOG_BUF_LEN
      BY <1>2, <1>3, <2>3
    <3>. QED BY <1>2, <1>3, <2>3, <3>1
  <2>. QED BY <2>1, <2>2, <2>3
<1>. QED BY <1>4, <1>5

\* The invariant the four properties follow from.
THEOREM Invariant == LoggerAssumption /\ Spec => []IInv
<1>. SUFFICES ASSUME LoggerAssumption PROVE Spec => []IInv
  OBVIOUS
<1>1. Init => IInv
  BY InitHolds
<1>2. IInv /\ [Next]_vars => IInv'
  BY StepKeeps
<1>. QED BY <1>1, <1>2, PTL DEF Spec

\* From the oldest file to the newest the records of each process come in the
\* order they were logged in, however the shifts interleave (logger.cpp shift_log).
THEOREM FilesInOrder == LoggerAssumption /\ Spec => []OrderKept
<1>1. IInv => OrderKept
  BY OrderFollows DEF IInv
<1>. QED BY <1>1, Invariant, PTL

\* A process alone loses only the oldest of the records that reached a file, and
\* only when log_size_ bytes of newer ones are there.
THEOREM OldestGoFirst == LoggerAssumption /\ Spec => []OnlyOldestDropped
<1>. SUFFICES ASSUME LoggerAssumption PROVE Spec => []OnlyOldestDropped
  OBVIOUS
<1>1. IInv => OnlyOldestDropped
  BY OldestFollows DEF IInv
<1>2. Spec => []IInv
  BY Invariant
<1>. QED BY <1>1, <1>2, PTL

\* A process alone leaves no file bigger than a size and a write more than it
\* opened the log.
THEOREM SizesHold == LoggerAssumption /\ Spec => []FilesBounded
<1>1. IInv => FilesBounded
  BY BoundedFollows DEF IInv
<1>. QED BY <1>1, Invariant, PTL

\* log_buf_ holds what is logged, batched by a size it has room for or not at all.
THEOREM BufferHolds == LoggerAssumption /\ Spec => []BufferFits
<1>. SUFFICES ASSUME LoggerAssumption PROVE Spec => []BufferFits
  OBVIOUS
<1>1. IInv => BufferFits
  BY FitsFollows DEF IInv
<1>2. Spec => []IInv
  BY Invariant
<1>. QED BY <1>1, <1>2, PTL
===============================================================================
