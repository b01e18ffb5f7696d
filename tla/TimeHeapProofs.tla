----------------------------- MODULE TimeHeapProofs -----------------------------
(***************************************************************************)
(* HeapSound and NothingDueLeft hold in every behaviour of TimeHeap, for    *)
(* arrays of any size, and OneOutcome where neither a delay nor the clock   *)
(* goes back.                                                               *)
(***************************************************************************)
EXTENDS TimeHeap, FiniteSetTheorems, WellFoundedInduction, TLAPS

(***************************************************************************)
(* Trees in an array.  k gives the slots 0 .. n - 1 their keys.             *)
(***************************************************************************)
Parent(c) == (c - 1) \div 2

\* below lo nothing is due before its parent
Ordered(k, n, lo) == \A c \in 1 .. (n - 1) : Parent(c) >= lo => k[Parent(c)] <= k[c]

\* the same but for what is in the hole: its children may be due before it, though
\* not before its parent
DownInv(k, n, lo, hole) ==
  /\ hole = lo \/ (hole > lo /\ Parent(hole) >= lo)
  /\ \A c \in 1 .. (n - 1) :
       /\ Parent(c) >= lo /\ Parent(c) # hole => k[Parent(c)] <= k[c]
       /\ Parent(c) = hole /\ hole # lo => k[Parent(hole)] <= k[c]

\* the same but for what is in the hole: it may be due before its parent
UpInv(k, n, hole) ==
  \A c \in 1 .. (n - 1) :
    /\ c # hole => k[Parent(c)] <= k[c]
    /\ Parent(c) = hole /\ hole # 0 => k[Parent(hole)] <= k[c]

Swapped(a, i, j) == [a EXCEPT ![i] = a[j], ![j] = a[i]]

\* a slot for each member of S
Holds(a, n, S) ==
  /\ a \in [0 .. (n - 1) -> S]
  /\ \A x \in S : \E i \in 0 .. (n - 1) : a[i] = x
  /\ \A i, j \in 0 .. (n - 1) : a[i] = a[j] => i = j

\* what is due when, in an array of timers
Key(t, a) == [i \in DOMAIN a |-> t[a[i]].expire]

\* array and hole of a loop, and the array with the timer stored in the hole
States(n, S) == [array : [0 .. (n - 1) -> S], hole : 0 .. (n - 1)]
Filled(s, temp) == [s.array EXCEPT ![s.hole] = temp]

\* what a loop leaves after each of its rounds
IsLoop(f, x, F, N) == \A n \in 0 .. N : f[n] = IF n = 0 THEN x ELSE F[n][f[n - 1]]

\* what a round of percolate_down leaves, n slots: no child is due before temp, or
\* temp changes places with the child due first
DownStops(t, n, s, temp) ==
  \A c \in 1 .. (n - 1) : Parent(c) = s.hole => t[temp].expire <= t[Filled(s, temp)[c]].expire

DownSwaps(t, n, s, temp, r) ==
  LET a == Filled(s, temp)
  IN /\ r.hole \in 1 .. (n - 1) /\ Parent(r.hole) = s.hole
     /\ Filled(r, temp) = Swapped(a, s.hole, r.hole)
     /\ t[a[r.hole]].expire < t[temp].expire
     /\ \A c \in 1 .. (n - 1) :
          Parent(c) = s.hole => t[a[r.hole]].expire <= t[a[c]].expire

\* after m rounds of percolate_down from slot i: nothing from i on but the timer in
\* the hole is due after its children, when it was so before
DownGood(t, n, S, i, s, temp, m, before) ==
  /\ s \in States(n, S) /\ Holds(Filled(s, temp), n, S) /\ s.hole >= i
  /\ before => DownInv(Key(t, Filled(s, temp)), n, i, s.hole)
  /\ s.hole >= i + m \/ DownStops(t, n, s, temp)

\* what a round of the insertion leaves: the parent is not due after id, or they
\* change places
UpStops(t, s, id) ==
  s.hole = 0 \/ t[Filled(s, id)[Parent(s.hole)]].expire <= t[id].expire

UpSwaps(t, n, s, id, r) ==
  /\ s.hole \in 1 .. (n - 1) /\ r.hole = Parent(s.hole)
  /\ Filled(r, id) = Swapped(Filled(s, id), s.hole, r.hole)
  /\ t[id].expire < t[Filled(s, id)[r.hole]].expire

\* after m rounds of the insertion: no parent but that of the timer in the hole is due
\* after its children, when it was so before; first stays when it is not due later
UpGood(t, n, S, s, id, m, before, first) ==
  /\ s \in States(n, S) /\ Holds(Filled(s, id), n, S)
  /\ before => UpInv(Key(t, Filled(s, id)), n, s.hole)
  /\ s.hole + m <= n - 1 \/ UpStops(t, s, id)
  /\ n > 1 /\ t[first].expire <= t[id].expire => s.hole # 0 /\ Filled(s, id)[0] = first

\* what was on top and is not due later than id is on top of r
StaysOnTop(t, h, id, r) == t[h[0]].expire <= t[id].expire => r[0] = h[0]

-------------------------------------------------------------------------------
\* Induction, for a set: the numbers are well-founded.
LEMMA Induction ==
  ASSUME NEW S, 0 \in S, \A n \in Nat : n \in S => n + 1 \in S
  PROVE  Nat \subseteq S
<1>. DEFINE T == Nat \ S
<1>1. SUFFICES ASSUME T # {} PROVE FALSE
  OBVIOUS
<1>2. PICK m \in T : \A n \in T : ~(<<n, m>> \in OpToRel(<, Nat))
  <2>1. T \subseteq Nat
    OBVIOUS
  <2>. QED BY <1>1, <2>1, NatLessThanWellFounded, WFMin
<1>3. \A n \in T : ~(n < m)
  BY <1>2 DEF OpToRel
<1>4. m \in Nat /\ m # 0 /\ m - 1 \in Nat
  OBVIOUS
<1>5. m - 1 \in S
  BY <1>3, <1>4
<1>6. (m - 1) + 1 \in S
  BY <1>4, <1>5
<1>. QED BY <1>4, <1>6

\* A loop of N rounds, each a function of its number and of what the round before
\* left, has a result after every round.
LEMMA Rounds ==
  ASSUME NEW S, NEW x \in S, NEW F \in [Nat -> [S -> S]], NEW N \in Nat
  PROVE  \E f \in [0 .. N -> S] : IsLoop(f, x, F, N)
<1>. USE DEF IsLoop
<1>. DEFINE Is(f, m) == f \in [0 .. m -> S] /\ IsLoop(f, x, F, m)
            T == {m \in Nat : \E f : Is(f, m)}
<1>1. 0 \in T
  <2>1. Is([n \in 0 .. 0 |-> x], 0)
    OBVIOUS
  <2>. QED BY <2>1
<1>2. ASSUME NEW m \in Nat, m \in T PROVE m + 1 \in T
  <2>1. PICK f : Is(f, m)
    BY <1>2
  <2>. DEFINE g == [n \in 0 .. (m + 1) |-> IF n <= m THEN f[n] ELSE F[m + 1][f[m]]]
  <2>2. f[m] \in S /\ F[m + 1][f[m]] \in S
    BY <2>1
  <2>3. ASSUME NEW n \in 0 .. (m + 1)
        PROVE  g[n] \in S /\ g[n] = IF n = 0 THEN x ELSE F[n][g[n - 1]]
    <3>1. CASE n = 0
      BY <2>1, <3>1
    <3>2. CASE n # 0 /\ n <= m
      <4>1. n \in 0 .. m /\ n - 1 \in 0 .. (m + 1) /\ n - 1 <= m
        BY <3>2
      <4>2. g[n] = f[n] /\ g[n - 1] = f[n - 1]
        BY <4>1
      <4>3. f[n] = F[n][f[n - 1]] /\ f[n] \in S
        BY <2>1, <3>2, <4>1
      <4>. QED BY <3>2, <4>2, <4>3
    <3>3. CASE n = m + 1
      <4>1. n - 1 = m /\ m \in 0 .. (m + 1) /\ ~(n <= m) /\ n # 0
        BY <3>3
      <4>. QED BY <2>2, <3>3, <4>1
    <3>. QED BY <3>1, <3>2, <3>3
  <2>4. Is(g, m + 1)
    BY <2>3
  <2>. HIDE DEF Is, g
  <2>. QED BY <2>4
<1>. HIDE DEF Is
<1>3. Nat \subseteq T
  BY <1>1, <1>2, Induction
<1>4. \E f : Is(f, N)
  BY <1>3
<1>. QED BY <1>4 DEF Is

\* The children of p are 2p + 1 and 2p + 2.
LEMMA ParentOf ==
  /\ \A c \in Nat \ {0} : Parent(c) \in Nat /\ Parent(c) < c
  /\ \A c \in Nat \ {0}, p \in Nat : Parent(c) = p <=> (c = 2 * p + 1 \/ c = 2 * p + 2)
BY DEF Parent

\* A smaller child goes up and the hole goes down.
LEMMA DownStep ==
  ASSUME NEW n \in Nat, NEW k \in [0 .. (n - 1) -> Int], NEW lo \in Nat,
         NEW hole \in 0 .. (n - 1), DownInv(k, n, lo, hole), lo <= hole,
         NEW child \in 0 .. (n - 1), child # 0, Parent(child) = hole, k[child] < k[hole],
         \A c \in 1 .. (n - 1) : Parent(c) = hole => k[child] <= k[c]
  PROVE  DownInv(Swapped(k, hole, child), n, lo, child) /\ hole < child
<1>. DEFINE s == Swapped(k, hole, child)
<1>1. hole < child
  BY ParentOf
<1>2. /\ s[hole] = k[child] /\ s[child] = k[hole]
      /\ \A m \in 0 .. (n - 1) : m # hole /\ m # child => s[m] = k[m]
  BY <1>1 DEF Swapped
<1>. HIDE DEF s
<1>3. ASSUME NEW c \in 1 .. (n - 1), Parent(c) >= lo, Parent(c) # child
      PROVE  s[Parent(c)] <= s[c]
  <2>. DEFINE p == Parent(c)
  <2>1. p \in 0 .. (n - 1) /\ p < c
    BY ParentOf
  <2>2. CASE p = hole /\ c = child
    BY <2>2, <1>2
  <2>3. CASE p = hole /\ c # child
    <3>1. k[child] <= k[c]
      BY <2>3
    <3>2. c # hole
      BY <2>1, <2>3
    <3>. QED BY <2>3, <3>1, <3>2, <1>2
  <2>4. CASE p # hole /\ c = hole
    <3>1. hole # lo
      BY <2>1, <2>4, <1>3
    <3>2. k[Parent(hole)] <= k[child]
      BY <3>1 DEF DownInv
    <3>3. s[p] = k[p] /\ s[c] = k[child]
      BY <2>1, <2>4, <1>2, <1>3
    <3>. QED BY <2>4, <3>2, <3>3
  <2>5. CASE p # hole /\ c # hole
    <3>1. c # child
      BY <2>5
    <3>2. k[p] <= k[c]
      BY <2>5, <1>3 DEF DownInv
    <3>. QED BY <2>1, <2>5, <3>1, <3>2, <1>2, <1>3
  <2>. QED BY <2>2, <2>3, <2>4, <2>5
<1>4. ASSUME NEW c \in 1 .. (n - 1), Parent(c) = child
      PROVE  s[Parent(child)] <= s[c]
  <2>1. child < c
    BY <1>4, ParentOf
  <2>2. k[child] <= k[c]
    BY <1>1, <1>4 DEF DownInv
  <2>. QED BY <1>1, <1>2, <2>1, <2>2
<1>5. child > lo /\ Parent(child) >= lo
  BY <1>1
<1>. QED BY <1>1, <1>3, <1>4, <1>5 DEF DownInv, s

\* The hole stops where no child is smaller.
LEMMA DownStop ==
  ASSUME NEW n \in Nat, NEW k \in [0 .. (n - 1) -> Int], NEW lo \in Nat,
         NEW hole \in 0 .. (n - 1), DownInv(k, n, lo, hole),
         \A c \in 1 .. (n - 1) : Parent(c) = hole => k[hole] <= k[c]
  PROVE  Ordered(k, n, lo)
BY DEF DownInv, Ordered

\* A parent that is due later goes down and the hole goes up.
LEMMA UpStep ==
  ASSUME NEW n \in Nat, NEW k \in [0 .. (n - 1) -> Int], NEW hole \in 1 .. (n - 1),
         UpInv(k, n, hole), k[hole] < k[Parent(hole)]
  PROVE  UpInv(Swapped(k, hole, Parent(hole)), n, Parent(hole))
<1>. DEFINE p == Parent(hole)  s == Swapped(k, hole, p)
<1>1. p \in 0 .. (n - 1) /\ p < hole
  BY ParentOf
<1>2. /\ s[hole] = k[p] /\ s[p] = k[hole]
      /\ \A m \in 0 .. (n - 1) : m # hole /\ m # p => s[m] = k[m]
  <2>. HIDE DEF p
  <2>. QED BY <1>1 DEF Swapped
<1>. HIDE DEF s
<1>3. ASSUME NEW c \in 1 .. (n - 1), c # p
      PROVE  s[Parent(c)] <= s[c]
  <2>. DEFINE r == Parent(c)
  <2>1. r \in 0 .. (n - 1) /\ r < c
    BY ParentOf
  <2>2. CASE c = hole
    BY <2>2, <1>1, <1>2
  <2>3. CASE c # hole /\ r = p
    <3>1. k[p] <= k[c]
      BY <2>3 DEF UpInv
    <3>. QED BY <2>3, <3>1, <1>1, <1>2, <1>3
  <2>4. CASE c # hole /\ r = hole
    <3>1. k[p] <= k[c]
      BY <2>4 DEF UpInv
    <3>. QED BY <2>4, <3>1, <1>1, <1>2, <1>3
  <2>5. CASE c # hole /\ r # p /\ r # hole
    <3>1. k[r] <= k[c]
      BY <2>5 DEF UpInv
    <3>. QED BY <2>1, <2>5, <3>1, <1>2, <1>3
  <2>. QED BY <2>2, <2>3, <2>4, <2>5
<1>4. ASSUME NEW c \in 1 .. (n - 1), Parent(c) = p, p # 0
      PROVE  s[Parent(p)] <= s[c]
  <2>1. Parent(p) \in 0 .. (n - 1) /\ Parent(p) < p /\ p \in 1 .. (n - 1)
    BY <1>1, <1>4, ParentOf
  <2>2. k[Parent(p)] <= k[p]
    BY <2>1, <1>1 DEF UpInv
  <2>3. s[Parent(p)] = k[Parent(p)]
    BY <2>1, <1>1, <1>2
  <2>4. CASE c = hole
    BY <2>2, <2>3, <2>4, <1>2
  <2>5. CASE c # hole
    <3>1. k[p] <= k[c]
      BY <2>5, <1>4 DEF UpInv
    <3>2. c # p
      BY <1>4, <2>1, ParentOf
    <3>3. s[c] = k[c]
      BY <2>5, <3>2, <1>2
    <3>4. k[Parent(p)] \in Int /\ k[p] \in Int /\ k[c] \in Int
      BY <2>1, <1>1
    <3>. QED BY <2>2, <2>3, <3>1, <3>3, <3>4
  <2>. QED BY <2>4, <2>5
<1>. QED BY <1>3, <1>4 DEF UpInv, s

\* The hole stops at the root or under a parent that is not due later.
LEMMA UpStop ==
  ASSUME NEW n \in Nat, NEW k \in [0 .. (n - 1) -> Int], NEW hole \in 0 .. (n - 1),
         UpInv(k, n, hole), hole = 0 \/ k[Parent(hole)] <= k[hole]
  PROVE  Ordered(k, n, 0)
BY DEF UpInv, Ordered

\* The root is due first.
LEMMA RootIsLeast ==
  ASSUME NEW n \in Nat, NEW k \in [0 .. (n - 1) -> Int], Ordered(k, n, 0)
  PROVE  \A i \in 0 .. (n - 1) : k[0] <= k[i]
<1>. DEFINE S == {m \in Nat : \A i \in 0 .. m : i < n => k[0] <= k[i]}
<1>1. 0 \in S
  OBVIOUS
<1>2. ASSUME NEW m \in Nat, m \in S PROVE m + 1 \in S
  <2>. SUFFICES ASSUME NEW i \in 0 .. (m + 1), i < n PROVE k[0] <= k[i]
    OBVIOUS
  <2>1. CASE i <= m
    BY <2>1, <1>2
  <2>2. CASE i = m + 1
    <3>1. i \in 1 .. (n - 1) /\ Parent(i) \in 0 .. m /\ Parent(i) < n
      BY <2>2, ParentOf
    <3>2. k[0] <= k[Parent(i)]
      BY <3>1, <1>2
    <3>3. k[Parent(i)] <= k[i]
      BY <3>1 DEF Ordered
    <3>4. k[0] \in Int /\ k[Parent(i)] \in Int /\ k[i] \in Int
      BY <3>1
    <3>. QED BY <3>2, <3>3, <3>4
  <2>. QED BY <2>1, <2>2
<1>. HIDE DEF S
<1>3. Nat \subseteq S
  BY <1>1, <1>2, Induction
<1>4. ASSUME NEW i \in 0 .. (n - 1) PROVE k[0] <= k[i]
  <2>1. i \in S /\ i \in 0 .. i /\ i < n
    BY <1>3
  <2>. QED BY <2>1 DEF S
<1>. QED BY <1>4

-------------------------------------------------------------------------------
(***************************************************************************)
(* The loops.                                                              *)
(***************************************************************************)
\* A swap keeps what an array holds.
LEMMA SwappedHolds ==
  ASSUME NEW n \in Nat, NEW S, NEW a, Holds(a, n, S),
         NEW i \in 0 .. (n - 1), NEW j \in 0 .. (n - 1), i # j
  PROVE  Holds(Swapped(a, i, j), n, S)
<1>. DEFINE b == Swapped(a, i, j)
<1>1. /\ b \in [0 .. (n - 1) -> S] /\ b[i] = a[j] /\ b[j] = a[i]
      /\ \A m \in 0 .. (n - 1) : m # i /\ m # j => b[m] = a[m]
  BY DEF Holds, Swapped
<1>. HIDE DEF b
<1>2. ASSUME NEW x \in S PROVE \E m \in 0 .. (n - 1) : b[m] = x
  <2>1. PICK m \in 0 .. (n - 1) : a[m] = x
    BY DEF Holds
  <2>. QED BY <1>1, <2>1
<1>3. ASSUME NEW l \in 0 .. (n - 1), NEW m \in 0 .. (n - 1), b[l] = b[m] PROVE l = m
  <2>. DEFINE o(x) == IF x = i THEN j ELSE IF x = j THEN i ELSE x
  <2>1. b[l] = a[o(l)] /\ b[m] = a[o(m)] /\ o(l) \in 0 .. (n - 1) /\ o(m) \in 0 .. (n - 1)
    BY <1>1
  <2>2. o(l) = o(m)
    <3>. HIDE DEF o
    <3>. QED BY <2>1, <1>3 DEF Holds
  <2>. QED BY <2>2
<1>. QED BY <1>1, <1>2, <1>3 DEF Holds, b

\* The keys of a swapped array are swapped.
LEMMA KeySwapped ==
  ASSUME NEW a, NEW t, NEW i \in DOMAIN a, NEW j \in DOMAIN a, i # j
  PROVE  Key(t, Swapped(a, i, j)) = Swapped(Key(t, a), i, j)
BY DEF Key, Swapped

\* A round of percolate_down stops where no child is due before the timer, or swaps
\* it with the child due first (heap_timer.h:179-194).
LEMMA DownRoundIs ==
  ASSUME NEW S, NEW t, \A x \in S : t[x].expire \in Int, NEW n \in Nat,
         NEW s \in States(n, S), NEW temp \in S,
         NEW r, r = DownRound(s, t, temp, n)
  PROVE  /\ r \in States(n, S)
         /\ (r = s /\ DownStops(t, n, s, temp)) \/ DownSwaps(t, n, s, temp, r)
<1>. DEFINE a == Filled(s, temp)
            first == 2 * s.hole + 1
            child == SmallerChild(s.array, t, n, s.hole)
<1>1. s.array \in [0 .. (n - 1) -> S] /\ s.hole \in 0 .. (n - 1)
  BY DEF States
<1>2. \A c \in 0 .. (n - 1) : c # s.hole => a[c] = s.array[c]
  BY <1>1 DEF Filled
<1>3. ASSUME NEW c \in 1 .. (n - 1) PROVE Parent(c) = s.hole <=> c = first \/ c = first + 1
  <2>1. c \in Nat \ {0} /\ s.hole \in Nat
    BY <1>1
  <2>. QED BY <2>1, ParentOf
<1>4. CASE ~(first <= n - 1)
  <2>1. \A c \in 1 .. (n - 1) : Parent(c) # s.hole
    BY <1>1, <1>3, <1>4
  <2>2. r = s
    BY <1>4 DEF DownRound
  <2>. QED BY <2>1, <2>2 DEF DownStops
<1>5. CASE first <= n - 1
  <2>1. first \in 1 .. (n - 1) /\ first # s.hole /\ first + 1 # s.hole
    BY <1>1, <1>5
  <2>2. /\ child \in 1 .. (n - 1) /\ (child = first \/ child = first + 1)
        /\ \A c \in 1 .. (n - 1) : c = first \/ c = first + 1 =>
             t[s.array[child]].expire <= t[s.array[c]].expire
    <3>. HIDE DEF first
    <3>1. child = IF first < n - 1 /\ t[s.array[first + 1]].expire < t[s.array[first]].expire
                  THEN first + 1 ELSE first
      BY DEF SmallerChild, first
    <3>. HIDE DEF child
    <3>2. t[s.array[first]].expire \in Int
      BY <1>1, <2>1
    <3>3. first < n - 1 => first + 1 \in 1 .. (n - 1) /\ t[s.array[first + 1]].expire \in Int
      BY <1>1, <2>1
    <3>4. child \in 1 .. (n - 1) /\ (child = first \/ child = first + 1)
      BY <2>1, <3>1, <3>3
    <3>5. /\ t[s.array[child]].expire <= t[s.array[first]].expire
          /\ first + 1 <= n - 1 => t[s.array[child]].expire <= t[s.array[first + 1]].expire
      BY <2>1, <3>1, <3>2, <3>3
    <3>. QED BY <2>1, <3>4, <3>5
  <2>. HIDE DEF child, first
  <2>3. child # s.hole /\ a[child] = s.array[child] /\ s.array[child] \in S
    BY <1>1, <1>2, <2>1, <2>2
  <2>4. \A c \in 1 .. (n - 1) : Parent(c) = s.hole =>
             /\ a[c] = s.array[c] /\ t[s.array[c]].expire \in Int
             /\ t[s.array[child]].expire <= t[s.array[c]].expire
    <3>. SUFFICES ASSUME NEW c \in 1 .. (n - 1), Parent(c) = s.hole
                  PROVE  /\ a[c] = s.array[c] /\ t[s.array[c]].expire \in Int
                         /\ t[s.array[child]].expire <= t[s.array[c]].expire
      OBVIOUS
    <3>1. c \in 0 .. (n - 1) /\ (c = first \/ c = first + 1)
      BY <1>3
    <3>2. a[c] = s.array[c]
      BY <1>2, <2>1, <3>1
    <3>3. t[s.array[c]].expire \in Int
      BY <1>1, <3>1
    <3>. QED BY <2>2, <3>1, <3>2, <3>3
  <2>5. Parent(child) = s.hole
    BY <1>3, <2>2
  <2>6. r = IF t[s.array[child]].expire < t[temp].expire
            THEN [array |-> [s.array EXCEPT ![s.hole] = s.array[child]], hole |-> child]
            ELSE s
    BY <1>5 DEF DownRound, child, first
  <2>7. CASE t[s.array[child]].expire < t[temp].expire
    <3>1. /\ r.hole = child /\ r.array = [s.array EXCEPT ![s.hole] = s.array[child]]
          /\ r \in States(n, S)
      BY <1>1, <2>2, <2>3, <2>6, <2>7 DEF States
    <3>2. Filled(r, temp) = Swapped(a, s.hole, child)
      BY <1>1, <2>2, <2>3, <3>1 DEF Filled, Swapped
    <3>. QED BY <2>2, <2>3, <2>4, <2>5, <2>7, <3>1, <3>2 DEF DownSwaps
  <2>8. CASE ~(t[s.array[child]].expire < t[temp].expire)
    <3>1. r = s
      BY <2>6, <2>8
    <3>2. t[s.array[child]].expire \in Int /\ t[temp].expire \in Int
      BY <2>3
    <3>. QED BY <2>4, <2>8, <3>1, <3>2 DEF DownStops
  <2>. QED BY <2>7, <2>8
<1>. QED BY <1>4, <1>5

\* A round of the insertion stops at the root or under a parent not due later, or
\* swaps the timer with its parent (heap_timer.h:109-118).
LEMMA UpRoundIs ==
  ASSUME NEW S, NEW t, \A x \in S : t[x].expire \in Int, NEW n \in Nat,
         NEW s \in States(n, S), NEW id \in S,
         NEW r, r = UpRound(s, t, id)
  PROVE  /\ r \in States(n, S)
         /\ (r = s /\ UpStops(t, s, id)) \/ UpSwaps(t, n, s, id, r)
<1>. DEFINE a == Filled(s, id)
            parent == Parent(s.hole)
<1>1. s.array \in [0 .. (n - 1) -> S] /\ s.hole \in 0 .. (n - 1)
  BY DEF States
<1>2. r = IF s.hole > 0 /\ t[id].expire < t[s.array[parent]].expire
          THEN [array |-> [s.array EXCEPT ![s.hole] = s.array[parent]], hole |-> parent]
          ELSE s
  BY DEF UpRound, Parent
<1>3. CASE s.hole = 0
  BY <1>1, <1>2, <1>3 DEF UpStops
<1>4. CASE s.hole # 0
  <2>1. s.hole \in 1 .. (n - 1) /\ parent \in 0 .. (n - 1) /\ parent # s.hole /\ s.hole > 0
    BY <1>1, <1>4, ParentOf
  <2>. HIDE DEF parent
  <2>2. /\ a[parent] = s.array[parent] /\ s.array[parent] \in S
        /\ t[a[parent]].expire \in Int /\ t[id].expire \in Int
    BY <1>1, <2>1 DEF Filled
  <2>3. CASE t[id].expire < t[a[parent]].expire
    <3>1. /\ r.hole = parent /\ r.array = [s.array EXCEPT ![s.hole] = s.array[parent]]
          /\ r \in States(n, S)
      BY <1>1, <1>2, <2>1, <2>2, <2>3 DEF States
    <3>2. Filled(r, id) = Swapped(a, s.hole, parent)
      BY <1>1, <2>1, <2>2, <3>1 DEF Filled, Swapped
    <3>. QED BY <2>1, <2>2, <2>3, <3>1, <3>2 DEF parent, UpSwaps
  <2>4. CASE ~(t[id].expire < t[a[parent]].expire)
    BY <1>2, <2>1, <2>2, <2>4 DEF parent, UpStops
  <2>. QED BY <2>3, <2>4
<1>. QED BY <1>3, <1>4

\* The array of a loop, with the timer in its hole.
LEMMA FilledIs ==
  ASSUME NEW S, NEW n \in Nat, NEW s \in States(n, S), NEW temp \in S
  PROVE  /\ s.hole \in 0 .. (n - 1)
         /\ Filled(s, temp) \in [0 .. (n - 1) -> S] /\ Filled(s, temp)[s.hole] = temp
<1>1. s.hole \in 0 .. (n - 1) /\ s.array \in [0 .. (n - 1) -> S]
  BY DEF States
<1>. QED BY <1>1 DEF Filled

\* An array's keys.
LEMMA KeyIs ==
  ASSUME NEW S, NEW t, \A x \in S : t[x].expire \in Int, NEW n \in Nat,
         NEW a \in [0 .. (n - 1) -> S]
  PROVE  /\ Key(t, a) \in [0 .. (n - 1) -> Int]
         /\ \A c \in 0 .. (n - 1) : Key(t, a)[c] = t[a[c]].expire
BY DEF Key

\* An array's size.
LEMMA SizeOf ==
  ASSUME NEW n \in Nat PROVE Cardinality(0 .. (n - 1)) = n /\ IsFiniteSet(0 .. (n - 1))
BY FS_Interval

\* One more round of percolate_down.
LEMMA DownGoes ==
  ASSUME NEW S, NEW t, \A x \in S : t[x].expire \in Int, NEW n \in Nat, NEW i \in Nat,
         NEW m \in Nat, NEW temp \in S, NEW s, NEW before \in BOOLEAN,
         DownGood(t, n, S, i, s, temp, m, before),
         NEW r, r = DownRound(s, t, temp, n)
  PROVE  DownGood(t, n, S, i, r, temp, m + 1, before)
<1>1. s \in States(n, S) /\ r \in States(n, S)
  BY DownRoundIs DEF DownGood
<1>2. (r = s /\ DownStops(t, n, s, temp)) \/ DownSwaps(t, n, s, temp, r)
  BY <1>1, DownRoundIs
<1>3. CASE r = s /\ DownStops(t, n, s, temp)
  BY <1>3 DEF DownGood
<1>4. CASE DownSwaps(t, n, s, temp, r)
  <2>1. PICK a \in [0 .. (n - 1) -> S] : a = Filled(s, temp)
    BY <1>1, FilledIs
  <2>2. PICK k \in [0 .. (n - 1) -> Int] : k = Key(t, a)
    BY KeyIs
  <2>3. \A c \in 0 .. (n - 1) : k[c] = t[a[c]].expire
    BY <2>2 DEF Key
  <2>4. s.hole \in 0 .. (n - 1) /\ k[s.hole] = t[temp].expire
    <3>1. s.hole \in 0 .. (n - 1) /\ a[s.hole] = temp
      BY <1>1, <2>1, FilledIs
    <3>. QED BY <2>3, <3>1
  <2>5. /\ r.hole \in 1 .. (n - 1) /\ Parent(r.hole) = s.hole
        /\ Filled(r, temp) = Swapped(a, s.hole, r.hole)
        /\ t[a[r.hole]].expire < t[temp].expire
        /\ \A c \in 1 .. (n - 1) :
             Parent(c) = s.hole => t[a[r.hole]].expire <= t[a[c]].expire
    BY <1>4, <2>1 DEF DownSwaps
  <2>6. r.hole \in 0 .. (n - 1) /\ r.hole # 0 /\ s.hole < r.hole /\ r.hole # s.hole
    BY <2>4, <2>5, ParentOf
  <2>7. /\ k[r.hole] < k[s.hole]
        /\ \A c \in 1 .. (n - 1) : Parent(c) = s.hole => k[r.hole] <= k[c]
    <3>1. k[r.hole] < k[s.hole]
      BY <2>3, <2>4, <2>5, <2>6
    <3>2. ASSUME NEW c \in 1 .. (n - 1), Parent(c) = s.hole PROVE k[r.hole] <= k[c]
      <4>1. c \in 0 .. (n - 1)
        OBVIOUS
      <4>2. t[a[r.hole]].expire <= t[a[c]].expire
        BY <2>5, <3>2
      <4>. QED BY <2>3, <2>6, <4>1, <4>2
    <3>. QED BY <3>1, <3>2
  <2>8. Holds(Filled(r, temp), n, S)
    <3>1. Holds(a, n, S)
      BY <2>1 DEF DownGood
    <3>. QED BY <2>4, <2>5, <2>6, <3>1, SwappedHolds
  <2>9. Key(t, Filled(r, temp)) = Swapped(k, s.hole, r.hole)
    <3>1. s.hole \in DOMAIN a /\ r.hole \in DOMAIN a /\ s.hole # r.hole
      BY <2>4, <2>6
    <3>2. Key(t, Swapped(a, s.hole, r.hole)) = Swapped(Key(t, a), s.hole, r.hole)
      BY <3>1, KeySwapped, Zenon
    <3>. QED BY <2>2, <2>5, <3>2
  <2>10. ~DownStops(t, n, s, temp)
    <3>1. t[a[r.hole]].expire \in Int /\ t[temp].expire \in Int
      BY <2>6
    <3>. QED BY <2>1, <2>5, <3>1 DEF DownStops
  <2>11. s.hole >= i + m /\ s.hole >= i
    BY <2>10 DEF DownGood
  <2>12. before => DownInv(Key(t, Filled(r, temp)), n, i, r.hole)
    <3>. SUFFICES ASSUME before PROVE DownInv(Swapped(k, s.hole, r.hole), n, i, r.hole)
      BY <2>9
    <3>1. DownInv(k, n, i, s.hole)
      BY <2>1, <2>2 DEF DownGood
    <3>2. i <= s.hole
      BY <2>4, <2>11
    <3>. QED BY <2>4, <2>5, <2>6, <2>7, <3>1, <3>2, DownStep
  <2>13. r.hole >= i + (m + 1) /\ r.hole >= i
    BY <2>4, <2>6, <2>11
  <2>. QED BY <1>1, <2>8, <2>12, <2>13 DEF DownGood
<1>. QED BY <1>2, <1>3, <1>4

\* After as many rounds as there are slots it has stopped.
LEMMA DownEnds ==
  ASSUME NEW S, NEW t, \A x \in S : t[x].expire \in Int, NEW n \in Nat, NEW i \in Nat,
         NEW temp \in S, NEW s, NEW before \in BOOLEAN,
         DownGood(t, n, S, i, s, temp, n, before)
  PROVE  /\ Holds(Filled(s, temp), n, S)
         /\ before => Ordered(Key(t, Filled(s, temp)), n, i)
<1>1. PICK a \in [0 .. (n - 1) -> S] : a = Filled(s, temp)
  BY FilledIs DEF DownGood
<1>2. PICK k \in [0 .. (n - 1) -> Int] : k = Key(t, a)
  BY KeyIs
<1>3. \A c \in 0 .. (n - 1) : k[c] = t[a[c]].expire
  BY <1>2 DEF Key
<1>4. s.hole \in 0 .. (n - 1) /\ k[s.hole] = t[temp].expire
  <2>1. s.hole \in 0 .. (n - 1) /\ a[s.hole] = temp
    BY <1>1, FilledIs DEF DownGood
  <2>. QED BY <1>3, <2>1
<1>5. DownStops(t, n, s, temp)
  BY <1>4 DEF DownGood
<1>6. \A c \in 1 .. (n - 1) : Parent(c) = s.hole => k[s.hole] <= k[c]
  BY <1>1, <1>3, <1>4, <1>5 DEF DownStops
<1>7. ASSUME before PROVE Ordered(k, n, i)
  <2>1. DownInv(k, n, i, s.hole)
    BY <1>1, <1>2, <1>7 DEF DownGood
  <2>. QED BY <1>4, <1>6, <2>1, DownStop
<1>. QED BY <1>1, <1>2, <1>7 DEF DownGood

\* What percolate_down does: it keeps the timers, and where only slot i may be due
\* later than its children, nothing from i on is due before its parent
\* (heap_timer.h:175-196).
LEMMA PercolateDown ==
  ASSUME NEW S, NEW t, \A x \in S : t[x].expire \in Int, NEW n \in Nat,
         NEW h, Holds(h, n, S), NEW i \in 0 .. (n - 1)
  PROVE  /\ Holds(percolate_down(h, t, i), n, S)
         /\ Ordered(Key(t, h), n, i + 1) => Ordered(Key(t, percolate_down(h, t, i)), n, i)
<1>. DEFINE temp == h[i]
            start == [array |-> h, hole |-> i]
            before == Ordered(Key(t, h), n, i + 1)
            W == States(n, S)
            F == [k \in Nat |-> [s \in W |-> DownRound(s, t, temp, n)]]
            Down[k \in 0 .. n] == IF k = 0 THEN start
                                  ELSE DownRound(Down[k - 1], t, temp, n)
            G == {k \in Nat : k <= n => DownGood(t, n, S, i, Down[k], temp, k, before)}
<1>1. h \in [0 .. (n - 1) -> S] /\ temp \in S /\ Cardinality(DOMAIN h) = n
  BY SizeOf DEF Holds
<1>2. start \in W
  BY <1>1 DEF States
<1>3. F \in [Nat -> [W -> W]]
  <2>1. ASSUME NEW s \in W PROVE DownRound(s, t, temp, n) \in W
    <3>. HIDE DEF temp
    <3>. QED BY <1>1, DownRoundIs
  <2>. QED BY <2>1
<1>4. \E f : f = [k \in 0 .. n |-> IF k = 0 THEN start ELSE DownRound(f[k - 1], t, temp, n)]
  <2>1. PICK f \in [0 .. n -> W] :
          \A k \in 0 .. n : f[k] = IF k = 0 THEN start ELSE F[k][f[k - 1]]
    <3>. HIDE DEF F, start, W, temp, Down, before, G
    <3>1. \E f \in [0 .. n -> W] : IsLoop(f, start, F, n)
      BY <1>2, <1>3, Rounds
    <3>. QED BY <3>1 DEF IsLoop
  <2>2. ASSUME NEW k \in 0 .. n
        PROVE  f[k] = IF k = 0 THEN start ELSE DownRound(f[k - 1], t, temp, n)
    <3>1. CASE k = 0
      BY <2>1, <3>1
    <3>2. CASE k # 0
      <4>1. k - 1 \in 0 .. n /\ k \in Nat
        BY <3>2
      <4>2. f[k - 1] \in W
        BY <2>1, <4>1
      <4>3. F[k][f[k - 1]] = DownRound(f[k - 1], t, temp, n)
        <5>. HIDE DEF W, temp
        <5>. QED BY <4>1, <4>2
      <4>4. f[k] = F[k][f[k - 1]]
        <5>. HIDE DEF F, start
        <5>. QED BY <2>1, <3>2
      <4>. QED BY <3>2, <4>3, <4>4
    <3>. QED BY <3>1, <3>2
  <2>3. f = [k \in 0 .. n |-> IF k = 0 THEN start ELSE DownRound(f[k - 1], t, temp, n)]
    <3>. HIDE DEF F, start, temp, W
    <3>. QED BY <2>1, <2>2
  <2>. QED BY <2>3
<1>5. Down = [k \in 0 .. n |-> IF k = 0 THEN start ELSE DownRound(Down[k - 1], t, temp, n)]
  BY <1>4 DEF Down
<1>6. percolate_down(h, t, i) = Filled(Down[n], temp)
  BY <1>1 DEF percolate_down, Filled
<1>7. before \in BOOLEAN /\ i \in Nat
  BY DEF Ordered
<1>. HIDE DEF Down, temp, before
<1>8. 0 \in G
  <2>1. Down[0] = start /\ Filled(start, temp) = h
    BY <1>1, <1>5 DEF Filled, temp
  <2>2. before => DownInv(Key(t, h), n, i, i)
    <3>1. \A c \in 1 .. (n - 1) : Parent(c) \in Nat
      BY ParentOf
    <3>. QED BY <3>1 DEF Ordered, DownInv, before
  <2>3. start.hole = i
    OBVIOUS
  <2>. HIDE DEF start
  <2>. QED BY <1>2, <1>7, <2>1, <2>2, <2>3 DEF DownGood
<1>. HIDE DEF start, W, F
<1>9. ASSUME NEW m \in Nat, m \in G PROVE m + 1 \in G
  <2>. SUFFICES ASSUME m + 1 <= n
                PROVE  DownGood(t, n, S, i, Down[m + 1], temp, m + 1, before)
    OBVIOUS
  <2>1. DownGood(t, n, S, i, Down[m], temp, m, before)
    BY <1>9
  <2>2. Down[m + 1] = DownRound(Down[m], t, temp, n)
    BY <1>5
  <2>. HIDE DEF G
  <2>. QED BY <1>1, <1>7, <2>1, <2>2, DownGoes
<1>. HIDE DEF G
<1>10. Nat \subseteq G
  BY <1>8, <1>9, Induction
<1>11. DownGood(t, n, S, i, Down[n], temp, n, before)
  BY <1>10 DEF G
<1>12. /\ Holds(Filled(Down[n], temp), n, S)
       /\ before => Ordered(Key(t, Filled(Down[n], temp)), n, i)
  BY <1>1, <1>7, <1>11, DownEnds
<1>. QED BY <1>6, <1>12 DEF before

\* One more round of the insertion.
LEMMA UpGoes ==
  ASSUME NEW S, NEW t, \A x \in S : t[x].expire \in Int, NEW n \in Nat,
         NEW m \in Nat, NEW id \in S, NEW s, NEW before \in BOOLEAN, NEW first \in S,
         UpGood(t, n, S, s, id, m, before, first),
         NEW r, r = UpRound(s, t, id)
  PROVE  UpGood(t, n, S, r, id, m + 1, before, first)
<1>1. s \in States(n, S) /\ r \in States(n, S)
  BY UpRoundIs DEF UpGood
<1>2. (r = s /\ UpStops(t, s, id)) \/ UpSwaps(t, n, s, id, r)
  BY <1>1, UpRoundIs
<1>3. CASE r = s /\ UpStops(t, s, id)
  BY <1>3 DEF UpGood
<1>4. CASE UpSwaps(t, n, s, id, r)
  <2>1. PICK a \in [0 .. (n - 1) -> S] : a = Filled(s, id)
    BY <1>1, FilledIs
  <2>2. PICK k \in [0 .. (n - 1) -> Int] : k = Key(t, a)
    BY KeyIs
  <2>3. \A c \in 0 .. (n - 1) : k[c] = t[a[c]].expire
    BY <2>2 DEF Key
  <2>4. s.hole \in 1 .. (n - 1) /\ a[s.hole] = id /\ k[s.hole] = t[id].expire
    <3>1. s.hole \in 1 .. (n - 1)
      BY <1>4 DEF UpSwaps
    <3>2. s.hole \in 0 .. (n - 1) /\ a[s.hole] = id
      BY <1>1, <2>1, FilledIs
    <3>. QED BY <2>3, <3>1, <3>2
  <2>5. /\ r.hole = Parent(s.hole)
        /\ Filled(r, id) = Swapped(a, s.hole, r.hole)
        /\ t[id].expire < t[a[r.hole]].expire
    BY <1>4, <2>1 DEF UpSwaps
  <2>6. /\ r.hole \in 0 .. (n - 1) /\ s.hole \in 0 .. (n - 1)
        /\ r.hole < s.hole /\ r.hole # s.hole
    BY <2>4, <2>5, ParentOf
  <2>7. k[s.hole] < k[r.hole] /\ t[a[r.hole]].expire \in Int /\ t[id].expire \in Int
    BY <2>3, <2>4, <2>5, <2>6
  <2>8. Holds(Filled(r, id), n, S)
    <3>1. Holds(a, n, S)
      BY <2>1 DEF UpGood
    <3>. QED BY <2>4, <2>5, <2>6, <3>1, SwappedHolds
  <2>9. Key(t, Filled(r, id)) = Swapped(k, s.hole, r.hole)
    <3>1. s.hole \in DOMAIN a /\ r.hole \in DOMAIN a /\ s.hole # r.hole
      BY <2>6
    <3>2. Key(t, Swapped(a, s.hole, r.hole)) = Swapped(Key(t, a), s.hole, r.hole)
      BY <3>1, KeySwapped, Zenon
    <3>. QED BY <2>2, <2>5, <3>2
  <2>10. s.hole + m <= n - 1
    <3>1. ~UpStops(t, s, id)
      BY <2>1, <2>4, <2>5, <2>7 DEF UpStops
    <3>. QED BY <3>1 DEF UpGood
  <2>11. before => UpInv(Key(t, Filled(r, id)), n, r.hole)
    <3>. SUFFICES ASSUME before PROVE UpInv(Swapped(k, s.hole, r.hole), n, r.hole)
      BY <2>9
    <3>1. UpInv(k, n, s.hole)
      BY <2>1, <2>2 DEF UpGood
    <3>2. k \in [0 .. (n - 1) -> Int] /\ s.hole \in 1 .. (n - 1) /\ r.hole \in 0 .. (n - 1)
          /\ r.hole = Parent(s.hole) /\ k[s.hole] < k[r.hole]
      BY <2>4, <2>5, <2>6, <2>7
    <3>. QED BY <3>1, <3>2, UpStep
  <2>12. r.hole + (m + 1) <= n - 1
    BY <2>6, <2>10
  <2>13. ASSUME n > 1, t[first].expire <= t[id].expire
         PROVE  r.hole # 0 /\ Filled(r, id)[0] = first
    <3>1. a[0] = first /\ s.hole # 0
      BY <2>1, <2>13 DEF UpGood
    <3>2. t[first].expire \in Int
      OBVIOUS
    <3>3. r.hole # 0
      BY <2>5, <2>7, <2>13, <3>1, <3>2
    <3>4. Swapped(a, s.hole, r.hole)[0] = a[0]
      <4>1. 0 \in DOMAIN a /\ r.hole # 0 /\ s.hole # 0 /\ s.hole # r.hole
        BY <2>6, <3>1, <3>3
      <4>. QED BY <4>1 DEF Swapped
    <3>. QED BY <2>5, <3>1, <3>3, <3>4
  <2>. QED BY <1>1, <2>8, <2>11, <2>12, <2>13 DEF UpGood
<1>. QED BY <1>2, <1>3, <1>4

\* After as many rounds as the hole may climb it has stopped.
LEMMA UpEnds ==
  ASSUME NEW S, NEW t, \A x \in S : t[x].expire \in Int, NEW n \in Nat,
         NEW id \in S, NEW s, NEW before \in BOOLEAN, NEW first \in S,
         UpGood(t, n, S, s, id, n - 1, before, first)
  PROVE  /\ Holds(Filled(s, id), n, S)
         /\ before => Ordered(Key(t, Filled(s, id)), n, 0)
         /\ n > 1 /\ t[first].expire <= t[id].expire => Filled(s, id)[0] = first
<1>1. PICK a \in [0 .. (n - 1) -> S] : a = Filled(s, id)
  BY FilledIs DEF UpGood
<1>2. PICK k \in [0 .. (n - 1) -> Int] : k = Key(t, a)
  BY KeyIs
<1>3. \A c \in 0 .. (n - 1) : k[c] = t[a[c]].expire
  BY <1>2 DEF Key
<1>4. s.hole \in 0 .. (n - 1) /\ k[s.hole] = t[id].expire
  <2>1. s.hole \in 0 .. (n - 1) /\ a[s.hole] = id
    BY <1>1, FilledIs DEF UpGood
  <2>. QED BY <1>3, <2>1
<1>5. s.hole = 0 \/ t[a[Parent(s.hole)]].expire <= t[id].expire
  <2>1. s.hole + (n - 1) <= n - 1 => s.hole = 0
    BY <1>4
  <2>. QED BY <1>1, <2>1 DEF UpGood, UpStops
<1>6. s.hole = 0 \/ k[Parent(s.hole)] <= k[s.hole]
  <2>1. s.hole # 0 => Parent(s.hole) \in 0 .. (n - 1)
    BY <1>4, ParentOf
  <2>. QED BY <1>3, <1>4, <1>5, <2>1
<1>7. ASSUME before PROVE Ordered(k, n, 0)
  <2>1. UpInv(k, n, s.hole)
    BY <1>1, <1>2, <1>7 DEF UpGood
  <2>. QED BY <1>4, <1>6, <2>1, UpStop
<1>. QED BY <1>1, <1>2, <1>7 DEF UpGood

\* What the insertion does: it adds the timer, keeps the order, and leaves on top what
\* is not due later (heap_timer.h:97-119).
LEMMA PercolateUp ==
  ASSUME NEW S, NEW id, id \notin S,
         NEW t, \A x \in S \cup {id} : t[x].expire \in Int, NEW n \in Nat,
         NEW h, Holds(h, n, S)
  PROVE  /\ Holds(percolate_up(h, t, id), n + 1, S \cup {id})
         /\ Ordered(Key(t, h), n, 0) => Ordered(Key(t, percolate_up(h, t, id)), n + 1, 0)
         /\ n # 0 => StaysOnTop(t, h, id, percolate_up(h, t, id))
<1>. DEFINE T == S \cup {id}
            N == n + 1
            wider == [i \in 0 .. n |-> IF i = n THEN id ELSE h[i]]
            start == [array |-> wider, hole |-> n]
            before == Ordered(Key(t, h), n, 0)
            first == IF n = 0 THEN id ELSE h[0]
            W == States(N, T)
            F == [k \in Nat |-> [s \in W |-> UpRound(s, t, id)]]
            Up[k \in 0 .. n] == IF k = 0 THEN start ELSE UpRound(Up[k - 1], t, id)
            G == {k \in Nat : k <= n => UpGood(t, N, T, Up[k], id, k, before, first)}
<1>1. h \in [0 .. (n - 1) -> S] /\ Cardinality(DOMAIN h) = n
  BY SizeOf DEF Holds
<1>2. N \in Nat /\ N - 1 = n /\ id \in T /\ first \in T
  BY <1>1
<1>3. /\ wider \in [0 .. (N - 1) -> T] /\ wider[n] = id
      /\ \A i \in 0 .. (n - 1) : wider[i] = h[i]
  BY <1>1
<1>4. Holds(wider, N, T)
  <2>1. ASSUME NEW x \in T PROVE \E i \in 0 .. (N - 1) : wider[i] = x
    <3>1. CASE x = id
      BY <1>3, <3>1
    <3>2. CASE x \in S
      <4>1. PICK i \in 0 .. (n - 1) : h[i] = x
        BY <3>2 DEF Holds
      <4>. QED BY <1>3, <4>1
    <3>. QED BY <3>1, <3>2
  <2>2. ASSUME NEW i \in 0 .. (N - 1), NEW j \in 0 .. (N - 1), wider[i] = wider[j] PROVE i = j
    <3>1. \A l \in 0 .. (n - 1) : wider[l] \in S
      BY <1>1, <1>3
    <3>2. CASE i = n \/ j = n
      <4>. HIDE DEF wider
      <4>. QED BY <1>3, <2>2, <3>1, <3>2
    <3>3. CASE i # n /\ j # n
      <4>1. i \in 0 .. (n - 1) /\ j \in 0 .. (n - 1)
        BY <3>3
      <4>2. h[i] = h[j]
        BY <1>3, <2>2, <4>1
      <4>. QED BY <4>1, <4>2 DEF Holds
    <3>. QED BY <3>2, <3>3
  <2>. HIDE DEF wider, T
  <2>. QED BY <1>2, <1>3, <2>1, <2>2 DEF Holds
<1>5. start \in W
  BY <1>2, <1>3 DEF States
<1>6. F \in [Nat -> [W -> W]]
  <2>1. ASSUME NEW s \in W PROVE UpRound(s, t, id) \in W
    <3>. HIDE DEF T, N
    <3>. QED BY <1>2, UpRoundIs DEF T
  <2>. QED BY <2>1
<1>7. \E f : f = [k \in 0 .. n |-> IF k = 0 THEN start ELSE UpRound(f[k - 1], t, id)]
  <2>1. PICK f \in [0 .. n -> W] :
          \A k \in 0 .. n : f[k] = IF k = 0 THEN start ELSE F[k][f[k - 1]]
    <3>. HIDE DEF F, start, W, wider, first, T, N, Up, before, G
    <3>1. \E f \in [0 .. n -> W] : IsLoop(f, start, F, n)
      BY <1>5, <1>6, Rounds
    <3>. QED BY <3>1 DEF IsLoop
  <2>2. ASSUME NEW k \in 0 .. n
        PROVE  f[k] = IF k = 0 THEN start ELSE UpRound(f[k - 1], t, id)
    <3>1. CASE k = 0
      BY <2>1, <3>1
    <3>2. CASE k # 0
      <4>1. k - 1 \in 0 .. n /\ k \in Nat
        BY <3>2
      <4>2. f[k - 1] \in W
        BY <2>1, <4>1
      <4>3. F[k][f[k - 1]] = UpRound(f[k - 1], t, id)
        <5>. HIDE DEF W
        <5>. QED BY <4>1, <4>2
      <4>4. f[k] = F[k][f[k - 1]]
        <5>. HIDE DEF F, start
        <5>. QED BY <2>1, <3>2
      <4>. QED BY <3>2, <4>3, <4>4
    <3>. QED BY <3>1, <3>2
  <2>3. f = [k \in 0 .. n |-> IF k = 0 THEN start ELSE UpRound(f[k - 1], t, id)]
    <3>. HIDE DEF F, start, W
    <3>. QED BY <2>1, <2>2
  <2>. QED BY <2>3
<1>8. Up = [k \in 0 .. n |-> IF k = 0 THEN start ELSE UpRound(Up[k - 1], t, id)]
  BY <1>7 DEF Up
<1>9. percolate_up(h, t, id) = Filled(Up[n], id)
  <2>. DEFINE P(m) == LET wide == [i \in 0 .. m |-> IF i = m THEN id ELSE h[i]]
                          U[k \in 0 .. m] == IF k = 0 THEN [array |-> wide, hole |-> m]
                                             ELSE UpRound(U[k - 1], t, id)
                      IN Filled(U[m], id)
  <2>1. percolate_up(h, t, id) = P(Cardinality(DOMAIN h))
    BY DEF percolate_up, Filled
  <2>2. P(n) = Filled(Up[n], id)
    OBVIOUS
  <2>. HIDE DEF P
  <2>. QED BY <1>1, <2>1, <2>2
<1>10. before \in BOOLEAN
  BY DEF Ordered
<1>. HIDE DEF Up, before
<1>11. 0 \in G
  <2>1. Up[0] = start /\ Filled(start, id) = wider
    <3>1. Up[0] = start
      <4>. HIDE DEF start
      <4>. QED BY <1>2, <1>8
    <3>2. Filled(start, id) = [wider EXCEPT ![n] = id]
      BY DEF Filled
    <3>3. n \in DOMAIN wider /\ wider[n] = id
      BY <1>2
    <3>. HIDE DEF start, wider
    <3>. QED BY <1>3, <3>1, <3>2, <3>3
  <2>2. before => UpInv(Key(t, wider), N, n)
    <3>. SUFFICES ASSUME before, NEW c \in 1 .. (N - 1)
                  PROVE  /\ c # n => Key(t, wider)[Parent(c)] <= Key(t, wider)[c]
                         /\ Parent(c) = n /\ n # 0 =>
                              Key(t, wider)[Parent(n)] <= Key(t, wider)[c]
      BY DEF UpInv
    <3>1. Parent(c) \in Nat /\ Parent(c) < c
      BY ParentOf
    <3>2. Parent(c) # n
      BY <1>2, <3>1
    <3>3. ASSUME c # n PROVE Key(t, wider)[Parent(c)] <= Key(t, wider)[c]
      <4>1. c \in 1 .. (n - 1) /\ c \in 0 .. (n - 1) /\ Parent(c) \in 0 .. (n - 1)
        BY <1>2, <3>1, <3>3
      <4>2. Key(t, h)[Parent(c)] <= Key(t, h)[c]
        BY <3>1, <4>1 DEF Ordered, before
      <4>3. \A l \in 0 .. (n - 1) : Key(t, wider)[l] = t[h[l]].expire /\ Key(t, h)[l] = t[h[l]].expire
        <5>1. \A l \in 0 .. (n - 1) : l \in DOMAIN wider /\ l \in DOMAIN h
          BY <1>1, <1>3
        <5>. HIDE DEF wider
        <5>. QED BY <1>3, <5>1 DEF Key
      <4>. QED BY <4>1, <4>2, <4>3
    <3>. QED BY <3>2, <3>3
  <2>3. start.hole = n
    OBVIOUS
  <2>4. ASSUME N > 1 PROVE n # 0 /\ wider[0] = first
    BY <1>3, <2>4
  <2>. HIDE DEF start, wider, W, T, first
  <2>. QED BY <1>2, <1>4, <1>5, <1>10, <2>1, <2>2, <2>3, <2>4 DEF UpGood, W
<1>. HIDE DEF start, W, F, wider, T, first
<1>12. ASSUME NEW m \in Nat, m \in G PROVE m + 1 \in G
  <2>. SUFFICES ASSUME m + 1 <= n
                PROVE  UpGood(t, N, T, Up[m + 1], id, m + 1, before, first)
    OBVIOUS
  <2>1. UpGood(t, N, T, Up[m], id, m, before, first)
    BY <1>12
  <2>2. Up[m + 1] = UpRound(Up[m], t, id)
    BY <1>8
  <2>3. \A x \in T : t[x].expire \in Int
    BY DEF T
  <2>4. PICK s, r : s = Up[m] /\ r = Up[m + 1]
    OBVIOUS
  <2>5. UpGood(t, N, T, s, id, m, before, first) /\ r = UpRound(s, t, id)
    BY <2>1, <2>2, <2>4
  <2>. HIDE DEF G, N
  <2>6. N \in Nat /\ id \in T /\ first \in T
    BY <1>2
  <2>7. UpGood(t, N, T, r, id, m + 1, before, first)
    BY <1>10, <2>3, <2>5, <2>6, UpGoes
  <2>. QED BY <2>4, <2>7
<1>. HIDE DEF G
<1>13. Nat \subseteq G
  BY <1>11, <1>12, Induction
<1>14. UpGood(t, N, T, Up[n], id, N - 1, before, first)
  BY <1>2, <1>13 DEF G
<1>15. /\ Holds(Filled(Up[n], id), N, T)
       /\ before => Ordered(Key(t, Filled(Up[n], id)), N, 0)
       /\ N > 1 /\ t[first].expire <= t[id].expire => Filled(Up[n], id)[0] = first
  <2>1. \A x \in T : t[x].expire \in Int
    BY DEF T
  <2>2. PICK s : s = Up[n]
    OBVIOUS
  <2>3. UpGood(t, N, T, s, id, N - 1, before, first)
    BY <1>14, <2>2
  <2>4. N \in Nat /\ id \in T /\ first \in T
    BY <1>2
  <2>. HIDE DEF N
  <2>5. /\ Holds(Filled(s, id), N, T)
        /\ before => Ordered(Key(t, Filled(s, id)), N, 0)
        /\ N > 1 /\ t[first].expire <= t[id].expire => Filled(s, id)[0] = first
    BY <1>10, <2>1, <2>3, <2>4, UpEnds
  <2>. QED BY <2>2, <2>5
<1>16. n # 0 => N > 1 /\ first = h[0]
  BY DEF first
<1>. QED BY <1>9, <1>15, <1>16 DEF before, T, StaysOnTop

\* What the second constructor's loop does: from the last parent down to the root, it
\* makes an array in any order a heap (heap_timer.h:81-84).
LEMMA HeapifyIs ==
  ASSUME NEW S, NEW t, \A x \in S : t[x].expire \in Int, NEW n \in Nat,
         NEW h, Holds(h, n, S)
  PROVE  Holds(Heapify(h, t), n, S) /\ Ordered(Key(t, Heapify(h, t)), n, 0)
<1>1. h \in [0 .. (n - 1) -> S] /\ Cardinality(DOMAIN h) = n
  BY SizeOf DEF Holds
<1>2. CASE n = 0
  <2>1. Heapify(h, t) = h
    BY <1>1, <1>2 DEF Heapify
  <2>. QED BY <1>2, <2>1 DEF Ordered
<1>3. CASE n # 0
  <2>. DEFINE rounds == (n - 1) \div 2 + 1
              W == {a \in [0 .. (n - 1) -> S] : Holds(a, n, S)}
              F == [k \in Nat |-> [a \in W |->
                      IF k \in 1 .. rounds THEN percolate_down(a, t, rounds - k) ELSE a]]
              Heap[k \in 0 .. rounds] == IF k = 0 THEN h
                                         ELSE percolate_down(Heap[k - 1], t, rounds - k)
              G == {k \in Nat : k <= rounds =>
                      Holds(Heap[k], n, S) /\ Ordered(Key(t, Heap[k]), n, rounds - k)}
  <2>1. rounds \in Nat \ {0} /\ rounds - 1 <= n - 1 /\ n \in Nat \ {0}
    BY <1>3
  <2>2. h \in W
    BY <1>1
  <2>3. \A k \in 1 .. rounds : rounds - k \in 0 .. (n - 1)
    <3>. HIDE DEF rounds
    <3>. QED BY <2>1
  <2>4. F \in [Nat -> [W -> W]]
    <3>1. ASSUME NEW k \in 1 .. rounds, NEW a \in W PROVE percolate_down(a, t, rounds - k) \in W
      <4>1. rounds - k \in 0 .. (n - 1)
        BY <2>3
      <4>. HIDE DEF rounds
      <4>2. Holds(percolate_down(a, t, rounds - k), n, S)
        BY <4>1, PercolateDown
      <4>. QED BY <4>2 DEF Holds
    <3>. HIDE DEF rounds, W
    <3>. QED BY <3>1
  <2>5. \E f : f = [k \in 0 .. rounds |->
                      IF k = 0 THEN h ELSE percolate_down(f[k - 1], t, rounds - k)]
    <3>1. PICK f \in [0 .. rounds -> W] :
            \A k \in 0 .. rounds : f[k] = IF k = 0 THEN h ELSE F[k][f[k - 1]]
      <4>1. rounds \in Nat
        BY <2>1
      <4>. HIDE DEF F, W, rounds, Heap, G
      <4>2. \E f \in [0 .. rounds -> W] : IsLoop(f, h, F, rounds)
        BY <2>2, <2>4, <4>1, Rounds
      <4>. QED BY <4>2 DEF IsLoop
    <3>2. ASSUME NEW k \in 0 .. rounds
          PROVE  f[k] = IF k = 0 THEN h ELSE percolate_down(f[k - 1], t, rounds - k)
      <4>1. CASE k = 0
        BY <3>1, <4>1
      <4>2. CASE k # 0
        <5>1. k - 1 \in 0 .. rounds /\ k \in Nat /\ k \in 1 .. rounds
          BY <2>1, <4>2
        <5>2. f[k - 1] \in W
          <6>. HIDE DEF rounds, W, F
          <6>. QED BY <3>1, <5>1
        <5>3. F[k][f[k - 1]] = percolate_down(f[k - 1], t, rounds - k)
          <6>. HIDE DEF W, rounds
          <6>. QED BY <5>1, <5>2
        <5>4. f[k] = F[k][f[k - 1]]
          <6>. HIDE DEF F, rounds
          <6>. QED BY <3>1, <4>2
        <5>. QED BY <4>2, <5>3, <5>4
      <4>. QED BY <4>1, <4>2
    <3>3. f = [k \in 0 .. rounds |->
                 IF k = 0 THEN h ELSE percolate_down(f[k - 1], t, rounds - k)]
      <4>. HIDE DEF F, W, rounds
      <4>1. f = [k \in 0 .. rounds |-> f[k]]
        BY <3>1
      <4>. QED BY <3>2, <4>1
    <3>. QED BY <3>3
  <2>6. Heap = [k \in 0 .. rounds |->
                  IF k = 0 THEN h ELSE percolate_down(Heap[k - 1], t, rounds - k)]
    BY <2>5 DEF Heap
  <2>7. Heapify(h, t) = Heap[rounds]
    <3>1. DOMAIN h # {}
      <4>. HIDE DEF rounds, Heap, W, F, G
      <4>1. 0 \in 0 .. (n - 1)
        BY <2>1
      <4>. QED BY <1>1, <4>1
    <3>. QED BY <1>1, <3>1 DEF Heapify
  <2>. HIDE DEF Heap
  <2>8. 0 \in G
    <3>1. Heap[0] = h
      BY <2>1, <2>6
    <3>2. Ordered(Key(t, h), n, rounds)
      <4>1. \A c \in 1 .. (n - 1) : ~(Parent(c) >= rounds)
        BY <2>1 DEF Parent
      <4>. QED BY <4>1 DEF Ordered
    <3>3. rounds - 0 = rounds
      BY <2>1
    <3>. QED BY <3>1, <3>2, <3>3
  <2>9. ASSUME NEW m \in Nat, m \in G PROVE m + 1 \in G
    <3>. SUFFICES ASSUME m + 1 <= rounds
                  PROVE  /\ Holds(Heap[m + 1], n, S)
                         /\ Ordered(Key(t, Heap[m + 1]), n, rounds - (m + 1))
      OBVIOUS
    <3>1. Holds(Heap[m], n, S) /\ Ordered(Key(t, Heap[m]), n, rounds - m)
      BY <2>1, <2>9
    <3>. HIDE DEF G, rounds
    <3>2. m + 1 \in 1 .. rounds /\ m + 1 \in 0 .. rounds /\ m + 1 # 0 /\ (m + 1) - 1 = m
      BY <2>1
    <3>3. Heap[m + 1] = percolate_down(Heap[m], t, rounds - (m + 1))
      BY <2>6, <3>2
    <3>4. rounds - (m + 1) \in 0 .. (n - 1) /\ (rounds - (m + 1)) + 1 = rounds - m
      BY <2>1, <2>3, <3>2
    <3>5. Ordered(Key(t, Heap[m]), n, (rounds - (m + 1)) + 1)
      BY <3>1, <3>4
    <3>6. /\ Holds(percolate_down(Heap[m], t, rounds - (m + 1)), n, S)
          /\ Ordered(Key(t, percolate_down(Heap[m], t, rounds - (m + 1))), n, rounds - (m + 1))
      BY <3>1, <3>4, <3>5, PercolateDown
    <3>. QED BY <3>3, <3>6
  <2>. HIDE DEF G
  <2>10. Nat \subseteq G
    BY <2>8, <2>9, Induction
  <2>11. Holds(Heap[rounds], n, S) /\ Ordered(Key(t, Heap[rounds]), n, 0)
    <3>1. rounds \in G /\ rounds <= rounds /\ rounds - rounds = 0
      BY <2>1, <2>10
    <3>. QED BY <3>1 DEF G
  <2>. QED BY <2>7, <2>11
<1>. QED BY <1>2, <1>3

\* The keys depend on when the timers are due only.
LEMMA KeySame ==
  ASSUME NEW a, NEW t, NEW u, \A i \in DOMAIN a : t[a[i]].expire = u[a[i]].expire
  PROVE  Key(t, a) = Key(u, a)
BY DEF Key

\* What pop_timer does: the timer on top leaves, and the rest is a heap
\* (heap_timer.h:139-149).
LEMMA PopTopIs ==
  ASSUME NEW S, NEW t, \A x \in S : t[x].expire \in Int, NEW n \in Nat \ {0},
         NEW h, Holds(h, n, S), Ordered(Key(t, h), n, 0)
  PROVE  /\ Holds(PopTop(h, t), n - 1, S \ {h[0]})
         /\ Ordered(Key(t, PopTop(h, t)), n - 1, 0)
<1>. DEFINE last == n - 1
            R == S \ {h[0]}
            moved == [i \in 0 .. (last - 1) |-> IF i = 0 THEN h[last] ELSE h[i]]
<1>1. h \in [0 .. (n - 1) -> S] /\ Cardinality(DOMAIN h) = n /\ last \in Nat
  BY SizeOf DEF Holds
<1>2. /\ \A i \in 0 .. (last - 1) : i \in 0 .. (n - 1)
      /\ last \in 0 .. (n - 1) /\ 0 \in 0 .. (n - 1)
  OBVIOUS
<1>3. \A i, j \in 0 .. (n - 1) : h[i] = h[j] => i = j
  BY DEF Holds
<1>4. moved \in [0 .. (last - 1) -> R]
  <2>1. ASSUME NEW i \in 0 .. (last - 1) PROVE moved[i] \in R
    <3>1. CASE i = 0
      <4>1. last # 0
        BY <3>1
      <4>. QED BY <1>1, <1>2, <1>3, <3>1, <4>1
    <3>2. CASE i # 0
      BY <1>1, <1>2, <1>3, <3>2
    <3>. QED BY <3>1, <3>2
  <2>. QED BY <2>1
<1>5. Holds(moved, last, R)
  <2>1. ASSUME NEW x \in R PROVE \E i \in 0 .. (last - 1) : moved[i] = x
    <3>1. PICK i \in 0 .. (n - 1) : h[i] = x
      BY DEF Holds
    <3>2. i # 0
      BY <2>1, <3>1
    <3>3. CASE i = last
      BY <1>1, <3>1, <3>2, <3>3
    <3>4. CASE i # last
      BY <1>1, <3>1, <3>2, <3>4
    <3>. QED BY <3>3, <3>4
  <2>2. ASSUME NEW i \in 0 .. (last - 1), NEW j \in 0 .. (last - 1), moved[i] = moved[j]
        PROVE  i = j
    <3>1. i \in 0 .. (n - 1) /\ j \in 0 .. (n - 1) /\ i # last /\ j # last
      OBVIOUS
    <3>2. moved[i] = IF i = 0 THEN h[last] ELSE h[i]
      OBVIOUS
    <3>3. moved[j] = IF j = 0 THEN h[last] ELSE h[j]
      OBVIOUS
    <3>. HIDE DEF moved, last
    <3>. QED BY <1>2, <1>3, <2>2, <3>1, <3>2, <3>3
  <2>. HIDE DEF moved, last, R
  <2>. QED BY <1>4, <2>1, <2>2 DEF Holds
<1>6. CASE last = 0
  <2>1. PopTop(h, t) = moved
    BY <1>1, <1>6 DEF PopTop
  <2>2. Ordered(Key(t, moved), last, 0)
    BY <1>6 DEF Ordered
  <2>. QED BY <1>5, <2>1, <2>2
<1>7. CASE last # 0
  <2>1. PopTop(h, t) = percolate_down(moved, t, 0)
    BY <1>1, <1>7 DEF PopTop
  <2>2. Ordered(Key(t, moved), last, 0 + 1)
    <3>. SUFFICES ASSUME NEW c \in 1 .. (last - 1), Parent(c) >= 1
                  PROVE  Key(t, moved)[Parent(c)] <= Key(t, moved)[c]
      BY DEF Ordered
    <3>1. /\ Parent(c) \in 1 .. (last - 1) /\ c \in 1 .. (last - 1)
          /\ c \in 1 .. (n - 1) /\ Parent(c) >= 0
      BY ParentOf
    <3>2. Key(t, h)[Parent(c)] <= Key(t, h)[c]
      BY <3>1 DEF Ordered
    <3>3. ASSUME NEW l \in 1 .. (last - 1) PROVE Key(t, moved)[l] = Key(t, h)[l]
      <4>1. l \in DOMAIN moved /\ l \in DOMAIN h /\ moved[l] = h[l]
        BY <1>1
      <4>. HIDE DEF moved
      <4>. QED BY <4>1 DEF Key
    <3>. QED BY <3>1, <3>2, <3>3
  <2>3. \A x \in R : t[x].expire \in Int
    OBVIOUS
  <2>4. 0 \in 0 .. (last - 1)
    BY <1>1, <1>7
  <2>. HIDE DEF moved, last, R
  <2>5. /\ Holds(percolate_down(moved, t, 0), last, R)
        /\ Ordered(Key(t, percolate_down(moved, t, 0)), last, 0)
    BY <1>1, <1>5, <2>2, <2>3, <2>4, PercolateDown
  <2>. QED BY <2>1, <2>5 DEF last, R
<1>. QED BY <1>6, <1>7

-------------------------------------------------------------------------------
(***************************************************************************)
(* The inductive invariants.                                               *)
(***************************************************************************)
Types ==
  /\ capacity \in Nat /\ issued \in 0 .. MaxTimers
  /\ DOMAIN timer \subseteq 0 .. (issued - 1)
  /\ \A id \in DOMAIN timer : timer[id] \in [expire : Int, cb : BOOLEAN]
  /\ clock \in Int /\ cur \in Int
  /\ ticking \in BOOLEAN /\ running \in TimerIds \cup {None}
  /\ outcome \in [TimerIds -> Outcomes]

\* the array is a heap of the timers allocated
Kept ==
  \E n \in Nat : /\ Holds(heap, n, DOMAIN timer) /\ n <= capacity
                 /\ Ordered(Key(timer, heap), n, 0)

HeapInv == Types /\ Kept

\* a callback runs in a tick, and the timer whose it is has not been freed
Busy == running # None => ticking /\ DOMAIN timer # {}

\* the timer whose callback runs is due, so that nothing a callback adds gets before it
InTurn ==
  /\ ticking => cur <= clock
  /\ running # None =>
       /\ ticking /\ running \in DOMAIN timer /\ heap[0] = running
       /\ timer[running].expire <= cur

Known(id) == id < issued

\* what became of a timer
ToldOf(id) ==
  /\ outcome[id] # "ran again"
  /\ ~Known(id) => outcome[id] = "none"
  /\ Known(id) /\ id \notin DOMAIN timer => outcome[id] # "none"
  /\ id \in DOMAIN timer =>
       \/ id = running /\ outcome[id] = "ran"
       \/ id # running /\ timer[id].cb /\ outcome[id] = "none"
       \/ id # running /\ ~timer[id].cb /\ outcome[id] = "deleted"

Told == \A id \in TimerIds : ToldOf(id)

NoneGoesBack == Delays \subseteq Nat /\ ClockMoves \subseteq Nat

-------------------------------------------------------------------------------
\* What the steps need of the array.
LEMMA KeptIs ==
  ASSUME HeapInv
  PROVE  /\ cur_size \in Nat /\ cur_size <= capacity
         /\ Holds(heap, cur_size, DOMAIN timer) /\ Ordered(Key(timer, heap), cur_size, 0)
         /\ heap \in [0 .. (cur_size - 1) -> DOMAIN timer]
         /\ \A x \in DOMAIN timer : timer[x].expire \in Int
<1>1. PICK n \in Nat : /\ Holds(heap, n, DOMAIN timer) /\ n <= capacity
                       /\ Ordered(Key(timer, heap), n, 0)
  BY DEF HeapInv, Kept
<1>2. cur_size = n
  BY <1>1, SizeOf DEF cur_size, Holds
<1>. QED BY <1>1, <1>2 DEF Holds, HeapInv, Types

\* The timer on top is allocated, and none is due before it (heap_timer.h:150-158).
LEMMA TopIsFirst ==
  ASSUME HeapInv, ~empty
  PROVE  /\ top = heap[0] /\ heap[0] \in DOMAIN timer
         /\ \A id \in DOMAIN timer : timer[heap[0]].expire <= timer[id].expire
<1>1. /\ cur_size \in Nat \ {0} /\ Holds(heap, cur_size, DOMAIN timer)
      /\ heap \in [0 .. (cur_size - 1) -> DOMAIN timer]
      /\ Ordered(Key(timer, heap), cur_size, 0)
      /\ \A x \in DOMAIN timer : timer[x].expire \in Int
  BY KeptIs DEF empty
<1>2. 0 \in 0 .. (cur_size - 1)
  BY <1>1
<1>3. heap[0] \in DOMAIN timer
  BY <1>1, <1>2
<1>4. ASSUME NEW id \in DOMAIN timer PROVE timer[heap[0]].expire <= timer[id].expire
  <2>1. PICK i \in 0 .. (cur_size - 1) : heap[i] = id
    BY <1>1 DEF Holds
  <2>2. PICK k \in [0 .. (cur_size - 1) -> Int] : k = Key(timer, heap)
    BY <1>1, KeyIs
  <2>3. k[0] = timer[heap[0]].expire /\ k[i] = timer[id].expire
    BY <1>1, <1>2, <2>1, <2>2 DEF Key
  <2>4. k[0] <= k[i]
    BY <1>1, <2>2, RootIsLeast
  <2>. QED BY <2>3, <2>4
<1>. QED BY <1>3, <1>4 DEF top

\* The invariant holds in the initial states: the constructors heapify.
LEMMA HeapInit == Init => HeapInv
<1>. SUFFICES ASSUME Init PROVE HeapInv
  OBVIOUS
<1>0. PICK size \in 0 .. MaxInit : \E expires \in [0 .. (size - 1) -> Delays] :
        /\ issued = size
        /\ Construct(size, expires)
        /\ heap = Heapify([i \in 0 .. (size - 1) |-> i], timer)
  BY DEF Init
<1>1. PICK expires \in [0 .. (size - 1) -> Delays] :
        /\ issued = size
        /\ Construct(size, expires)
        /\ heap = Heapify([i \in 0 .. (size - 1) |-> i], timer)
  BY <1>0
<1>. DEFINE ids == 0 .. (size - 1)  h == [i \in 0 .. (size - 1) |-> i]
<1>2. /\ size \in Nat /\ size \in 0 .. MaxTimers
      /\ DOMAIN timer = ids
      /\ \A id \in ids : timer[id] \in [expire : Int, cb : BOOLEAN]
  <2>1. size \in Nat /\ size \in 0 .. MaxTimers
    BY TimeHeapAssumption
  <2>2. \A id \in ids : expires[id] \in Int
    BY TimeHeapAssumption
  <2>. QED BY <1>1, <2>1, <2>2 DEF Construct
<1>3. \A x \in ids : timer[x].expire \in Int
  BY <1>2
<1>4. Holds(h, size, ids)
  BY DEF Holds
<1>5. Holds(heap, size, ids) /\ Ordered(Key(timer, heap), size, 0)
  <2>. HIDE DEF h, ids
  <2>1. Holds(Heapify(h, timer), size, ids) /\ Ordered(Key(timer, Heapify(h, timer)), size, 0)
    BY <1>2, <1>3, <1>4, HeapifyIs
  <2>. QED BY <1>1, <2>1 DEF h
<1>6. capacity \in Nat /\ size <= capacity
  BY <1>1, TimeHeapAssumption DEF Init
<1>7. Kept
  BY <1>2, <1>5, <1>6 DEF Kept
<1>8. /\ clock \in Int /\ cur \in Int /\ ticking \in BOOLEAN /\ running \in TimerIds \cup {None}
      /\ outcome \in [TimerIds -> Outcomes]
  <2>1. clock \in Int /\ cur \in Int /\ running \in TimerIds \cup {None}
    BY DEF Init
  <2>2. ticking \in BOOLEAN
    BY DEF Init
  <2>3. outcome \in [TimerIds -> Outcomes]
    BY DEF Init, Outcomes
  <2>. QED BY <2>1, <2>2, <2>3
<1>9. issued \in 0 .. MaxTimers /\ DOMAIN timer \subseteq 0 .. (issued - 1)
  BY <1>1, <1>2
<1>. QED BY <1>1, <1>2, <1>6, <1>7, <1>8, <1>9 DEF HeapInv, Types

\* What Popped leaves of it.
LEMMA PoppedKeeps ==
  ASSUME HeapInv, Popped, ~empty, capacity' = capacity, issued' = issued
  PROVE  /\ Kept'
         /\ DOMAIN timer' = (DOMAIN timer) \ {heap[0]}
         /\ DOMAIN timer' \subseteq 0 .. (issued' - 1)
         /\ \A id \in DOMAIN timer' : /\ timer'[id] \in [expire : Int, cb : BOOLEAN]
                                      /\ timer'[id] = timer[id]
<1>. DEFINE n == cur_size  S == DOMAIN timer
<1>1. /\ n \in Nat \ {0} /\ n <= capacity /\ Holds(heap, n, S) /\ Ordered(Key(timer, heap), n, 0)
      /\ \A x \in S : timer[x].expire \in Int
  BY KeptIs DEF empty
<1>2. capacity \in Nat /\ issued \in Nat
  BY DEF HeapInv, Types
<1>3. /\ DOMAIN timer' = S \ {heap[0]}
      /\ \A id \in DOMAIN timer' : timer'[id] = timer[id]
      /\ heap' = PopTop(heap, timer)
  BY DEF Popped
<1>4. Holds(heap', n - 1, S \ {heap[0]}) /\ Ordered(Key(timer, heap'), n - 1, 0)
  <2>. HIDE DEF n, S
  <2>. QED BY <1>1, <1>3, PopTopIs
<1>5. n - 1 \in Nat /\ n - 1 <= capacity
  BY <1>1, <1>2
<1>6. Key(timer', heap') = Key(timer, heap')
  <2>1. heap' \in [0 .. ((n - 1) - 1) -> DOMAIN timer']
    BY <1>3, <1>4 DEF Holds
  <2>2. \A i \in DOMAIN heap' : timer'[heap'[i]].expire = timer[heap'[i]].expire
    BY <1>3, <2>1
  <2>. QED BY <2>2, KeySame
<1>7. Kept'
  <2>. HIDE DEF n, S
  <2>. QED BY <1>3, <1>4, <1>5, <1>6 DEF Kept
<1>. QED BY <1>3, <1>7 DEF HeapInv, Types

\* Every step keeps it.
LEMMA HeapNext == HeapInv /\ Busy /\ [Next]_vars => HeapInv'
<1>. SUFFICES ASSUME HeapInv, Busy, [Next]_vars PROVE HeapInv'
  OBVIOUS
<1>. DEFINE n == cur_size  S == DOMAIN timer
<1>1. /\ n \in Nat /\ n <= capacity
      /\ Holds(heap, n, S) /\ Ordered(Key(timer, heap), n, 0)
      /\ heap \in [0 .. (n - 1) -> S]
      /\ \A x \in S : timer[x].expire \in Int
  BY KeptIs
<1>2. /\ capacity \in Nat /\ issued \in 0 .. MaxTimers /\ issued \in Nat /\ MaxTimers \in Nat
      /\ S \subseteq 0 .. (issued - 1)
      /\ \A id \in S : timer[id] \in [expire : Int, cb : BOOLEAN]
  BY TimeHeapAssumption DEF HeapInv, Types
<1>3. /\ clock \in Int /\ cur \in Int
      /\ running \in TimerIds \cup {None}
      /\ outcome \in [TimerIds -> Outcomes]
  BY DEF HeapInv, Types
<1>4. ticking \in BOOLEAN
  BY DEF HeapInv, Types
<1>5. S \subseteq TimerIds
  BY <1>2 DEF TimerIds
<1>6. ASSUME NEW delay \in Delays, CallerRuns, add_timer(delay) PROVE HeapInv'
  <2>. DEFINE id == issued
  <2>1. /\ id \notin S /\ id \in 0 .. (MaxTimers - 1) /\ issued' = id + 1
        /\ clock + delay \in Int /\ capacity > 0
    BY <1>2, <1>3, <1>6, TimeHeapAssumption DEF add_timer, CallerRuns
  <2>2. /\ DOMAIN timer' = S \cup {id}
        /\ \A x \in S : timer'[x] = timer[x]
        /\ timer'[id] = [expire |-> clock + delay, cb |-> TRUE]
    BY <1>6, <2>1 DEF add_timer
  <2>3. /\ \A x \in S \cup {id} : timer'[x] \in [expire : Int, cb : BOOLEAN]
        /\ \A x \in S \cup {id} : timer'[x].expire \in Int
    <3>1. timer'[id] \in [expire : Int, cb : BOOLEAN]
      BY <2>1, <2>2
    <3>2. \A x \in S : timer'[x] \in [expire : Int, cb : BOOLEAN]
      BY <1>2, <2>2
    <3>. HIDE DEF S, id
    <3>. QED BY <3>1, <3>2
  <2>4. Key(timer', heap) = Key(timer, heap)
    <3>1. \A i \in DOMAIN heap : timer'[heap[i]].expire = timer[heap[i]].expire
      BY <1>1, <2>2
    <3>. QED BY <3>1, KeySame
  <2>5. PICK t : t = timer'
    OBVIOUS
  <2>6. heap' = percolate_up(heap, t, id)
    BY <1>6, <2>5 DEF add_timer
  <2>7. Holds(heap', n + 1, S \cup {id}) /\ Ordered(Key(t, heap'), n + 1, 0)
    <3>1. \A x \in S \cup {id} : t[x].expire \in Int
      BY <2>3, <2>5
    <3>2. Ordered(Key(t, heap), n, 0)
      BY <1>1, <2>4, <2>5
    <3>. HIDE DEF n, S, id
    <3>3. /\ Holds(percolate_up(heap, t, id), n + 1, S \cup {id})
          /\ Ordered(Key(t, percolate_up(heap, t, id)), n + 1, 0)
      <4>1. n \in Nat /\ id \notin S /\ Holds(heap, n, S)
        BY <1>1, <2>1
      <4>. QED BY <3>1, <3>2, <4>1, PercolateUp
    <3>. QED BY <2>6, <3>3
  <2>8. capacity' \in Nat /\ n + 1 <= capacity' /\ n + 1 \in Nat
    <3>1. capacity' = IF n >= capacity THEN 2 * capacity ELSE capacity
      BY <1>6 DEF add_timer, Grown
    <3>. HIDE DEF n
    <3>. QED BY <1>1, <1>2, <2>1, <3>1
  <2>9. Kept'
    <3>. HIDE DEF n, S, id
    <3>. QED BY <2>2, <2>5, <2>7, <2>8 DEF Kept
  <2>10. issued' \in 0 .. MaxTimers /\ DOMAIN timer' \subseteq 0 .. (issued' - 1)
    <3>. HIDE DEF S
    <3>. QED BY <1>2, <2>1, <2>2
  <2>11. UNCHANGED <<clock, ticking, cur, running, outcome>>
    BY <1>6 DEF add_timer
  <2>12. Types'
    <3>. HIDE DEF S
    <3>1. \A x \in DOMAIN timer' : timer'[x] \in [expire : Int, cb : BOOLEAN]
      BY <2>2, <2>3
    <3>2. ticking' \in BOOLEAN
      BY <1>4, <2>11
    <3>3. clock' \in Int /\ cur' \in Int /\ running' \in TimerIds \cup {None}
      BY <1>3, <2>11
    <3>4. outcome' \in [TimerIds -> Outcomes]
      BY <1>3, <2>11
    <3>. QED BY <2>8, <2>10, <3>1, <3>2, <3>3, <3>4 DEF Types
  <2>. QED BY <2>9, <2>12 DEF HeapInv
<1>7. ASSUME NEW id \in TimerIds, del_timer(id) PROVE HeapInv'
  <2>1. /\ id \in S /\ timer' = [timer EXCEPT ![id].cb = FALSE]
        /\ UNCHANGED <<heap, capacity, issued, clock, ticking, cur, running>>
        /\ outcome' = [outcome EXCEPT ![id] = IF @ = "none" THEN "deleted" ELSE @]
    BY <1>7 DEF del_timer
  <2>2. /\ DOMAIN timer' = S
        /\ \A x \in S : timer'[x] \in [expire : Int, cb : BOOLEAN]
        /\ \A x \in S : timer'[x].expire = timer[x].expire
    BY <1>2, <2>1
  <2>3. Key(timer', heap') = Key(timer, heap)
    <3>1. \A i \in DOMAIN heap : timer'[heap[i]].expire = timer[heap[i]].expire
      BY <1>1, <2>2
    <3>. QED BY <2>1, <3>1, KeySame
  <2>4. Kept'
    <3>. HIDE DEF n, S
    <3>. QED BY <1>1, <2>1, <2>2, <2>3 DEF Kept
  <2>5. outcome' \in [TimerIds -> Outcomes]
    BY <1>3, <2>1 DEF Outcomes
  <2>6. Types'
    <3>. HIDE DEF S
    <3>1. ticking' \in BOOLEAN
      BY <1>4, <2>1
    <3>2. clock' \in Int /\ cur' \in Int /\ running' \in TimerIds \cup {None}
      BY <1>3, <2>1
    <3>3. /\ capacity' \in Nat /\ issued' \in 0 .. MaxTimers
          /\ DOMAIN timer' \subseteq 0 .. (issued' - 1)
          /\ \A x \in DOMAIN timer' : timer'[x] \in [expire : Int, cb : BOOLEAN]
      BY <1>2, <2>1, <2>2
    <3>. QED BY <2>5, <3>1, <3>2, <3>3 DEF Types
  <2>. QED BY <2>4, <2>6 DEF HeapInv
<1>8. ASSUME Popped, ~empty, capacity' = capacity, issued' = issued,
             clock' = clock, ticking' = ticking, cur' = cur,
             running' \in TimerIds \cup {None}, outcome' \in [TimerIds -> Outcomes]
      PROVE  HeapInv'
  <2>1. /\ Kept' /\ DOMAIN timer' \subseteq 0 .. (issued' - 1)
        /\ \A x \in DOMAIN timer' : timer'[x] \in [expire : Int, cb : BOOLEAN]
    BY <1>8, PoppedKeeps
  <2>2. ticking' \in BOOLEAN
    BY <1>4, <1>8
  <2>3. clock' \in Int /\ cur' \in Int /\ capacity' \in Nat /\ issued' \in 0 .. MaxTimers
    BY <1>2, <1>3, <1>8
  <2>. QED BY <1>8, <2>1, <2>2, <2>3 DEF HeapInv, Types
<1>9. CASE pop_timer
  <2>1. heap[0] \in TimerIds
    BY <1>5, <1>9, TopIsFirst DEF pop_timer
  <2>2. outcome' \in [TimerIds -> Outcomes]
    BY <1>3, <1>9, <2>1 DEF pop_timer, Outcomes
  <2>3. running' \in TimerIds \cup {None}
    BY <1>3, <1>9 DEF pop_timer
  <2>. QED BY <1>8, <1>9, <2>2, <2>3 DEF pop_timer
<1>10. CASE Destroy
  <2>1. /\ DOMAIN heap' = {} /\ heap' = [i \in {} |-> 0] /\ DOMAIN timer' = {}
        /\ capacity' = 0 /\ UNCHANGED <<issued, clock, ticking, cur, running>>
    BY <1>10 DEF Destroy
  <2>2. outcome' \in [TimerIds -> Outcomes]
    BY <1>3, <1>10 DEF Destroy, Outcomes
  <2>3. Kept'
    <3>1. Holds(heap', 0, DOMAIN timer')
      BY <2>1 DEF Holds
    <3>2. Ordered(Key(timer', heap'), 0, 0)
      BY DEF Ordered
    <3>3. 0 <= capacity'
      BY <2>1
    <3>. QED BY <3>1, <3>2, <3>3 DEF Kept
  <2>4. ticking' \in BOOLEAN
    BY <1>4, <2>1
  <2>5. /\ clock' \in Int /\ cur' \in Int /\ running' \in TimerIds \cup {None}
        /\ capacity' \in Nat /\ issued' \in 0 .. MaxTimers
        /\ DOMAIN timer' \subseteq 0 .. (issued' - 1)
        /\ \A x \in DOMAIN timer' : timer'[x] \in [expire : Int, cb : BOOLEAN]
    BY <1>2, <1>3, <2>1
  <2>. QED BY <2>2, <2>3, <2>4, <2>5 DEF HeapInv, Types
<1>11. ASSUME UNCHANGED <<heap, timer, capacity, issued>>, ticking' \in BOOLEAN,
              clock' \in Int, cur' \in Int, running' \in TimerIds \cup {None},
              outcome' \in [TimerIds -> Outcomes]
       PROVE  HeapInv'
  <2>1. Kept'
    BY <1>11 DEF HeapInv, Kept
  <2>. QED BY <1>2, <1>11, <2>1 DEF HeapInv, Types
<1>12. CASE BeginTick
  <2>1. UNCHANGED <<heap, timer, capacity, issued, clock, running, outcome>>
    BY <1>12 DEF BeginTick
  <2>2. cur' = clock /\ ticking' = TRUE
    BY <1>12 DEF BeginTick
  <2>. QED BY <1>3, <1>11, <2>1, <2>2
<1>13. CASE RunTop
  <2>1. top \in TimerIds
    BY <1>5, <1>13, TopIsFirst DEF RunTop, TopDue
  <2>2. UNCHANGED <<heap, timer, capacity, issued, clock, ticking, cur>>
    BY <1>13 DEF RunTop
  <2>3. outcome' \in [TimerIds -> Outcomes]
    BY <1>3, <1>13, <2>1 DEF RunTop, Outcomes
  <2>4. running' \in TimerIds \cup {None}
    BY <1>13, <2>1 DEF RunTop
  <2>. QED BY <1>3, <1>4, <1>11, <2>2, <2>3, <2>4
<1>14. CASE CallbackReturns
  <2>0. ~empty
    <3>1. S # {}
      BY <1>14 DEF CallbackReturns, Busy
    <3>2. n # 0
      BY <1>1, <3>1 DEF Holds
    <3>. QED BY <3>2 DEF empty
  <2>1. running' \in TimerIds \cup {None}
    BY <1>14 DEF CallbackReturns
  <2>2. outcome' \in [TimerIds -> Outcomes]
    BY <1>3, <1>14 DEF CallbackReturns
  <2>. QED BY <1>8, <1>14, <2>0, <2>1, <2>2 DEF CallbackReturns
<1>15. CASE DropTop
  <2>1. running' \in TimerIds \cup {None}
    BY <1>3, <1>15 DEF DropTop
  <2>2. outcome' \in [TimerIds -> Outcomes]
    BY <1>3, <1>15 DEF DropTop
  <2>. QED BY <1>8, <1>15, <2>1, <2>2 DEF DropTop, TopDue
<1>16. CASE EndTick
  <2>1. UNCHANGED <<heap, timer, capacity, issued, clock, cur, running, outcome>>
    BY <1>16 DEF EndTick
  <2>2. ticking' \in BOOLEAN
    BY <1>16 DEF EndTick
  <2>. QED BY <1>3, <1>11, <2>1, <2>2
<1>17. ASSUME NEW d \in ClockMoves, ClockMoved(d) PROVE HeapInv'
  <2>1. UNCHANGED <<heap, timer, capacity, issued, ticking, cur, running, outcome>>
    BY <1>17 DEF ClockMoved
  <2>2. clock' \in Int
    BY <1>3, <1>17, TimeHeapAssumption DEF ClockMoved
  <2>. QED BY <1>3, <1>4, <1>11, <2>1, <2>2
<1>18. CASE UNCHANGED vars
  <2>1. UNCHANGED <<heap, timer, capacity, issued, clock, ticking, cur, running, outcome>>
    BY <1>18 DEF vars
  <2>. QED BY <1>3, <1>4, <1>11, <2>1
<1>. QED BY <1>6, <1>7, <1>9, <1>10, <1>12, <1>13, <1>14, <1>15, <1>16, <1>17, <1>18 DEF Next

\* A callback only adds and deletes; the rest waits until the tick is over.
LEMMA BusyNext == HeapInv /\ Busy /\ [Next]_vars => Busy'
<1>. SUFFICES ASSUME HeapInv, Busy, [Next]_vars, running' # None PROVE ticking' /\ DOMAIN timer' # {}
  BY DEF Busy
<1>1. ASSUME NEW delay \in Delays, add_timer(delay) PROVE ticking' /\ DOMAIN timer' # {}
  BY <1>1 DEF Busy, add_timer
<1>2. ASSUME NEW id \in TimerIds, del_timer(id) PROVE ticking' /\ DOMAIN timer' # {}
  BY <1>2 DEF Busy, del_timer
<1>3. CASE ~ticking /\ (pop_timer \/ Destroy)
  BY <1>3 DEF Busy, pop_timer, Destroy
<1>4. CASE ~ticking /\ BeginTick
  BY <1>4 DEF Busy, BeginTick
<1>5. CASE RunTop
  <2>1. ticking' /\ DOMAIN timer' = DOMAIN timer
    BY <1>5 DEF RunTop
  <2>2. heap[0] \in DOMAIN timer
    BY <1>5, TopIsFirst DEF RunTop, TopDue
  <2>. QED BY <2>1, <2>2
<1>6. CASE CallbackReturns
  BY <1>6 DEF CallbackReturns
<1>7. CASE DropTop \/ EndTick
  BY <1>7 DEF DropTop, EndTick
<1>8. ASSUME NEW d \in ClockMoves, ClockMoved(d) PROVE ticking' /\ DOMAIN timer' # {}
  BY <1>8 DEF Busy, ClockMoved
<1>9. CASE UNCHANGED vars
  BY <1>9 DEF Busy, vars
<1>. QED BY <1>1, <1>2, <1>3, <1>4, <1>5, <1>6, <1>7, <1>8, <1>9 DEF Next

\* HeapSound follows from it.
LEMMA HeapIsSound == HeapInv => HeapSound
<1>. SUFFICES ASSUME HeapInv PROVE HeapSound
  OBVIOUS
<1>. DEFINE n == cur_size
<1>1. /\ n \in Nat /\ n <= capacity
      /\ Holds(heap, n, DOMAIN timer) /\ Ordered(Key(timer, heap), n, 0)
      /\ heap \in [0 .. (n - 1) -> DOMAIN timer]
  BY KeptIs
<1>2. DOMAIN timer \subseteq TimerIds
  BY TimeHeapAssumption DEF HeapInv, Types, TimerIds
<1>3. TypeOK
  <2>1. DOMAIN heap = 0 .. (cur_size - 1) /\ \A i \in DOMAIN heap : heap[i] \in TimerIds
    BY <1>1, <1>2
  <2>. QED BY <1>2, <2>1 DEF TypeOK, HeapInv, Types
<1>4. OwnsItsTimers
  <2>. HIDE DEF n
  <2>1. {heap[i] : i \in DOMAIN heap} = DOMAIN timer
    BY <1>1 DEF Holds
  <2>2. \A i, j \in DOMAIN heap : heap[i] = heap[j] => i = j
    BY <1>1 DEF Holds
  <2>. QED BY <2>1, <2>2 DEF OwnsItsTimers
<1>5. HeapOrdered
  <2>. SUFFICES ASSUME NEW i \in (DOMAIN heap) \ {0}
                PROVE  timer[heap[Parent(i)]].expire <= timer[heap[i]].expire
    BY DEF HeapOrdered, Parent
  <2>1. i \in 1 .. (n - 1) /\ i \in DOMAIN heap
    BY <1>1
  <2>2. Parent(i) \in DOMAIN heap /\ Parent(i) >= 0
    BY <1>1, <2>1, ParentOf
  <2>3. Key(timer, heap)[Parent(i)] <= Key(timer, heap)[i]
    BY <1>1, <2>1, <2>2 DEF Ordered
  <2>. QED BY <2>1, <2>2, <2>3 DEF Key
<1>. QED BY <1>1, <1>3, <1>4, <1>5 DEF HeapSound, FitsCapacity

\* The heap's inductive invariant.
THEOREM Invariant == Spec => [](HeapInv /\ Busy)
<1>1. Init => HeapInv /\ Busy
  BY HeapInit DEF Init, Busy
<1>2. (HeapInv /\ Busy) /\ [Next]_vars => (HeapInv /\ Busy)'
  BY HeapNext, BusyNext
<1>. QED BY <1>1, <1>2, PTL DEF Spec

\* In every behaviour the array has room for, and holds, exactly the timers allocated,
\* each once, none due before its parent (heap_timer.h:81-149, 175-196).
THEOREM OwnedAndOrdered == Spec => []HeapSound
BY Invariant, HeapIsSound, PTL

\* tick() returns only when nothing due when it read the clock is left
\* (heap_timer.h:150-171): where the timer on top is not due, none is.
THEOREM NothingLeft == Spec => NothingDueLeft
<1>1. HeapInv /\ [Next]_vars =>
        [ticking /\ ~ticking' => \A id \in DOMAIN timer' : timer'[id].expire > cur]_vars
  <2>. SUFFICES ASSUME HeapInv, [Next]_vars, ticking, ~ticking'
                PROVE  \A id \in DOMAIN timer' : timer'[id].expire > cur
    OBVIOUS
  <2>1. EndTick
    BY DEF Next, add_timer, del_timer, pop_timer, Destroy, BeginTick, RunTop, CallbackReturns,
           DropTop, ClockMoved, vars
  <2>2. timer' = timer /\ ~TopDue
    BY <2>1 DEF EndTick
  <2>3. CASE empty
    <3>1. DOMAIN timer = {}
      <4>1. Holds(heap, cur_size, DOMAIN timer) /\ cur_size = 0
        BY <2>3, KeptIs DEF empty
      <4>. QED BY <4>1 DEF Holds
    <3>. QED BY <2>2, <3>1
  <2>4. CASE ~empty
    <3>1. /\ heap[0] \in DOMAIN timer /\ ~(timer[heap[0]].expire <= cur)
          /\ \A id \in DOMAIN timer : timer[heap[0]].expire <= timer[id].expire
      BY <2>2, <2>4, TopIsFirst DEF TopDue
    <3>2. cur \in Int /\ \A id \in DOMAIN timer : timer[id].expire \in Int
      BY KeptIs DEF HeapInv, Types
    <3>. QED BY <2>2, <3>1, <3>2
  <2>. QED BY <2>3, <2>4
<1>. QED BY <1>1, Invariant, PTL DEF Spec, NothingDueLeft
-------------------------------------------------------------------------------
(***************************************************************************)
(* What becomes of each timer, where neither a delay nor the clock is        *)
(* negative.                                                               *)
(***************************************************************************)
\* A step that leaves the timer on top where it is, and tick's reading of the clock.
LEMMA TurnKept ==
  ASSUME InTurn, ticking' = ticking, cur' = cur, running' = running,
         ticking => cur' <= clock',
         running # None => /\ running \in DOMAIN timer' /\ heap'[0] = heap[0]
                           /\ timer'[running].expire = timer[running].expire
  PROVE  InTurn'
BY DEF InTurn

\* A callback cannot put a timer before its own: what it adds is due later
\* (heap_timer.h:164-168).
LEMMA TurnNext == NoneGoesBack /\ HeapInv /\ InTurn /\ [Next]_vars => InTurn'
<1>. SUFFICES ASSUME NoneGoesBack, HeapInv, InTurn, [Next]_vars PROVE InTurn'
  OBVIOUS
<1>1. ASSUME NEW delay \in Delays, add_timer(delay) PROVE InTurn'
  <2>. DEFINE n == cur_size  S == DOMAIN timer  id == issued
  <2>1. /\ n \in Nat /\ Holds(heap, n, S)
        /\ \A x \in S : timer[x].expire \in Int
    BY KeptIs
  <2>2. /\ id \notin S /\ clock \in Int /\ cur \in Int /\ delay \in Nat
        /\ UNCHANGED <<clock, ticking, cur, running>>
    BY <1>1, TimeHeapAssumption DEF add_timer, HeapInv, Types, NoneGoesBack
  <2>3. /\ DOMAIN timer' = S \cup {id}
        /\ \A x \in S : timer'[x] = timer[x]
        /\ timer'[id].expire = clock + delay
    BY <1>1, <2>2 DEF add_timer
  <2>4. ASSUME running # None
        PROVE  /\ running \in DOMAIN timer' /\ heap'[0] = heap[0]
               /\ timer'[running].expire = timer[running].expire
    <3>1. /\ running \in S /\ heap[0] = running /\ timer[running].expire <= cur /\ cur <= clock
      BY <2>4 DEF InTurn
    <3>2. n # 0
      BY <2>1, <3>1 DEF Holds
    <3>3. PICK t : t = timer'
      OBVIOUS
    <3>4. t[heap[0]].expire <= t[id].expire
      BY <2>1, <2>2, <2>3, <3>1, <3>3
    <3>5. \A x \in S \cup {id} : t[x].expire \in Int
      <4>1. clock + delay \in Int
        BY <2>2
      <4>. HIDE DEF S, id
      <4>. QED BY <2>1, <2>3, <3>3, <4>1
    <3>6. heap' = percolate_up(heap, t, id)
      BY <1>1, <3>3 DEF add_timer
    <3>7. percolate_up(heap, t, id)[0] = heap[0]
      <4>. HIDE DEF n, S, id
      <4>1. StaysOnTop(t, heap, id, percolate_up(heap, t, id))
        BY <2>1, <2>2, <3>2, <3>5, PercolateUp
      <4>. QED BY <3>4, <4>1 DEF StaysOnTop
    <3>. QED BY <2>3, <3>1, <3>6, <3>7
  <2>5. ticking => cur' <= clock'
    BY <2>2 DEF InTurn
  <2>. QED BY <2>2, <2>4, <2>5, TurnKept
<1>2. ASSUME NEW id \in TimerIds, del_timer(id) PROVE InTurn'
  <2>1. /\ UNCHANGED <<heap, clock, ticking, cur, running>>
        /\ DOMAIN timer' = DOMAIN timer
        /\ timer' = [timer EXCEPT ![id].cb = FALSE]
    BY <1>2 DEF del_timer
  <2>2. ASSUME running # None
        PROVE  /\ running \in DOMAIN timer' /\ heap'[0] = heap[0]
               /\ timer'[running].expire = timer[running].expire
    <3>1. running \in DOMAIN timer /\ timer[running] \in [expire : Int, cb : BOOLEAN]
      BY <2>2 DEF InTurn, HeapInv, Types
    <3>. QED BY <2>1, <3>1
  <2>3. ticking => cur' <= clock'
    BY <2>1 DEF InTurn
  <2>. QED BY <2>1, <2>2, <2>3, TurnKept
<1>3. CASE ~ticking /\ (pop_timer \/ Destroy)
  <2>1. ~ticking' /\ running' = None
    BY <1>3 DEF InTurn, pop_timer, Destroy
  <2>. QED BY <2>1 DEF InTurn
<1>4. CASE ~ticking /\ BeginTick
  <2>1. running' = None /\ cur' = clock /\ clock' = clock /\ clock \in Int
    BY <1>4 DEF InTurn, BeginTick, HeapInv, Types
  <2>. QED BY <2>1 DEF InTurn
<1>5. CASE RunTop
  <2>1. /\ ticking /\ timer[top].expire <= cur /\ running' = top
        /\ UNCHANGED <<heap, timer, clock, ticking, cur>>
    BY <1>5 DEF RunTop, TopDue
  <2>2. top = heap[0] /\ heap[0] \in DOMAIN timer
    BY <1>5, TopIsFirst DEF RunTop, TopDue
  <2>. QED BY <2>1, <2>2 DEF InTurn
<1>6. CASE CallbackReturns \/ DropTop \/ EndTick
  <2>1. running' = None /\ UNCHANGED <<clock, cur>>
    BY <1>6 DEF CallbackReturns, DropTop, EndTick
  <2>2. ticking' => ticking
    BY <1>6 DEF CallbackReturns, DropTop, EndTick
  <2>. QED BY <2>1, <2>2 DEF InTurn
<1>7. ASSUME NEW d \in ClockMoves, ClockMoved(d) PROVE InTurn'
  <2>1. UNCHANGED <<heap, timer, ticking, cur, running>>
    BY <1>7 DEF ClockMoved
  <2>2. clock' = clock + d /\ d \in Nat /\ clock \in Int /\ cur \in Int
    BY <1>7 DEF ClockMoved, NoneGoesBack, HeapInv, Types
  <2>3. ticking => cur' <= clock'
    BY <2>1, <2>2 DEF InTurn
  <2>. QED BY <2>1, <2>3, TurnKept DEF InTurn
<1>8. CASE UNCHANGED vars
  BY <1>8 DEF InTurn, vars
<1>. QED BY <1>1, <1>2, <1>3, <1>4, <1>5, <1>6, <1>7, <1>8 DEF Next

\* What becomes of a timer that a step neither adds nor frees is what became of it,
\* unless the step says so.
LEMMA ToldNext == HeapInv /\ InTurn /\ Told /\ [Next]_vars => Told'
<1>. SUFFICES ASSUME HeapInv, InTurn, Told, [Next]_vars, NEW x \in TimerIds PROVE ToldOf(x)'
  BY DEF Told
<1>1. ASSUME NEW id \in DOMAIN timer
      PROVE  id \in TimerIds /\ Known(id) /\ ToldOf(id) /\ id # None
  <2>1. id \in TimerIds /\ Known(id) /\ id # None
    BY TimeHeapAssumption DEF HeapInv, Types, TimerIds, Known, None
  <2>. QED BY <2>1 DEF Told
<1>2. outcome \in [TimerIds -> Outcomes] /\ issued \in Nat /\ x \in Nat
  BY TimeHeapAssumption DEF HeapInv, Types, TimerIds
<1>3. ToldOf(x) /\ (x \in DOMAIN timer => Known(x)) /\ (running # None => running \in DOMAIN timer)
  BY <1>1 DEF Told, InTurn
<1>4. issued' = issued => (Known(x)' <=> Known(x))
  BY DEF Known
<1>. HIDE DEF Told
<1>5. ASSUME UNCHANGED <<timer, issued, running, outcome>> PROVE ToldOf(x)'
  BY <1>3, <1>4, <1>5 DEF ToldOf
<1>6. ASSUME NEW delay \in Delays, add_timer(delay) PROVE ToldOf(x)'
  <2>1. /\ issued' = issued + 1 /\ outcome' = outcome /\ running' = running
        /\ DOMAIN timer' = (DOMAIN timer) \cup {issued}
        /\ \A y \in (DOMAIN timer) \cup {issued} :
             timer'[y] = IF y = issued THEN [expire |-> clock + delay, cb |-> TRUE] ELSE timer[y]
    BY <1>6 DEF add_timer
  <2>2. Known(x)' <=> Known(x) \/ x = issued
    BY <1>2, <2>1 DEF Known
  <2>3. ~Known(issued)
    BY <1>2 DEF Known
  <2>4. CASE x = issued
    <3>1. x # running
      <4>1. None \notin TimerIds
        BY TimeHeapAssumption DEF None, TimerIds
      <4>. QED BY <1>1, <1>3, <2>3, <2>4, <4>1
    <3>2. timer'[x].cb
      BY <2>1, <2>4
    <3>3. outcome'[x] = "none"
      BY <1>3, <2>1, <2>3, <2>4 DEF ToldOf
    <3>4. x \in DOMAIN timer' /\ Known(x)' /\ x # running'
      BY <2>1, <2>2, <2>4, <3>1
    <3>. QED BY <3>2, <3>3, <3>4 DEF ToldOf
  <2>5. CASE x # issued
    <3>1. x \in DOMAIN timer' <=> x \in DOMAIN timer
      BY <2>1, <2>5
    <3>2. x \in DOMAIN timer => timer'[x] = timer[x]
      BY <2>1, <2>5
    <3>3. Known(x)' <=> Known(x)
      BY <2>2, <2>5
    <3>4. outcome' = outcome /\ running' = running
      BY <2>1
    <3>. QED BY <1>3, <3>1, <3>2, <3>3, <3>4 DEF ToldOf
  <2>. QED BY <2>4, <2>5
<1>7. ASSUME NEW id \in TimerIds, del_timer(id) PROVE ToldOf(x)'
  <2>1. /\ id \in DOMAIN timer /\ timer' = [timer EXCEPT ![id].cb = FALSE]
        /\ outcome' = [outcome EXCEPT ![id] = IF @ = "none" THEN "deleted" ELSE @]
        /\ issued' = issued /\ running' = running /\ DOMAIN timer' = DOMAIN timer
    BY <1>7 DEF del_timer
  <2>2. CASE x = id
    <3>1. timer[x] \in [expire : Int, cb : BOOLEAN]
      BY <2>1, <2>2 DEF HeapInv, Types
    <3>2. ~timer'[x].cb
      BY <2>1, <2>2, <3>1
    <3>3. outcome'[x] = IF outcome[x] = "none" THEN "deleted" ELSE outcome[x]
      BY <1>2, <2>1, <2>2
    <3>4. Known(x)' /\ x \in DOMAIN timer' /\ running' = running
      BY <1>1, <1>4, <2>1, <2>2
    <3>5. \/ outcome[x] = "ran" /\ x = running
          \/ outcome[x] \in {"none", "deleted"} /\ x # running
      BY <1>3, <2>1, <2>2 DEF ToldOf
    <3>6. \/ outcome'[x] = "ran" /\ x = running
          \/ outcome'[x] = "deleted" /\ x # running
      BY <3>3, <3>5
    <3>. QED BY <3>2, <3>4, <3>6 DEF ToldOf
  <2>3. CASE x # id
    <3>1. outcome'[x] = outcome[x]
      BY <1>2, <2>1, <2>3
    <3>2. x \in DOMAIN timer => timer'[x] = timer[x]
      BY <2>1, <2>3
    <3>3. (Known(x)' <=> Known(x)) /\ DOMAIN timer' = DOMAIN timer /\ running' = running
      BY <1>4, <2>1
    <3>. QED BY <1>3, <3>1, <3>2, <3>3 DEF ToldOf
  <2>. QED BY <2>2, <2>3
<1>8. ASSUME Popped, ~empty, issued' = issued, running' = None,
             x # heap[0] => outcome'[x] = outcome[x],
             outcome'[heap[0]] # "none", outcome'[heap[0]] # "ran again",
             running # None => running = heap[0]
      PROVE  ToldOf(x)'
  <2>1. heap[0] \in DOMAIN timer /\ Known(heap[0])
    BY <1>1, <1>8, TopIsFirst
  <2>2. /\ DOMAIN timer' = (DOMAIN timer) \ {heap[0]}
        /\ \A y \in DOMAIN timer' : timer'[y] = timer[y]
    BY <1>8 DEF Popped
  <2>3. CASE x = heap[0]
    <3>1. x \notin DOMAIN timer' /\ Known(x)'
      BY <1>4, <1>8, <2>1, <2>2, <2>3
    <3>. QED BY <1>8, <2>3, <3>1 DEF ToldOf
  <2>4. CASE x # heap[0]
    <3>1. outcome'[x] = outcome[x]
      BY <1>8, <2>4
    <3>2. x \in DOMAIN timer' <=> x \in DOMAIN timer
      BY <2>2, <2>4
    <3>3. x \in DOMAIN timer' => timer'[x] = timer[x]
      BY <2>2
    <3>4. x \in DOMAIN timer => x # running /\ x # running'
      BY <1>1, <1>8, <2>4
    <3>5. Known(x)' <=> Known(x)
      BY <1>4, <1>8
    <3>. QED BY <1>3, <3>1, <3>2, <3>3, <3>4, <3>5 DEF ToldOf
  <2>. QED BY <2>3, <2>4
<1>9. CASE ~ticking /\ pop_timer
  <2>1. running = None /\ running' = None /\ Popped /\ ~empty /\ issued' = issued
    BY <1>9 DEF InTurn, pop_timer
  <2>2. heap[0] \in TimerIds /\ ToldOf(heap[0])
    BY <1>1, <2>1, TopIsFirst
  <2>3. outcome' = [outcome EXCEPT ![heap[0]] = IF @ = "none" THEN "popped" ELSE @]
    BY <1>9 DEF pop_timer
  <2>4. x # heap[0] => outcome'[x] = outcome[x]
    BY <1>2, <2>3
  <2>5. outcome'[heap[0]] = IF outcome[heap[0]] = "none" THEN "popped" ELSE outcome[heap[0]]
    BY <1>2, <2>2, <2>3
  <2>6. outcome[heap[0]] # "ran again"
    BY <2>2 DEF ToldOf
  <2>7. outcome'[heap[0]] # "none" /\ outcome'[heap[0]] # "ran again"
    BY <2>5, <2>6
  <2>. QED BY <1>8, <2>1, <2>4, <2>7
<1>10. CASE ~ticking /\ Destroy
  <2>1. DOMAIN timer' = {} /\ (Known(x)' <=> Known(x))
    BY <1>4, <1>10 DEF Destroy
  <2>2. outcome'[x] = IF x \in DOMAIN timer /\ outcome[x] = "none" THEN "destroyed" ELSE outcome[x]
    BY <1>10 DEF Destroy
  <2>3. outcome'[x] # "ran again" /\ (~Known(x) => outcome'[x] = "none")
    <3>1. outcome[x] # "ran again" /\ (~Known(x) => outcome[x] = "none")
      BY <1>3 DEF ToldOf
    <3>. QED BY <1>3, <2>2, <3>1
  <2>4. Known(x) => outcome'[x] # "none"
    BY <1>3, <2>2 DEF ToldOf
  <2>. QED BY <2>1, <2>3, <2>4 DEF ToldOf
<1>11. CASE ~ticking /\ BeginTick
  BY <1>5, <1>11 DEF BeginTick
<1>12. CASE RunTop
  <2>1. /\ running = None /\ running' = top /\ timer[top].cb /\ ~empty
        /\ outcome' = [outcome EXCEPT ![top] = IF @ = "none" THEN "ran" ELSE "ran again"]
        /\ UNCHANGED <<timer, issued>>
    BY <1>12 DEF RunTop, TopDue
  <2>2. top \in DOMAIN timer /\ top \in TimerIds /\ ToldOf(top) /\ top # None /\ Known(top)
    BY <1>1, <2>1, TopIsFirst
  <2>3. CASE x = top
    <3>1. outcome[x] = "none"
      BY <2>1, <2>2, <2>3 DEF ToldOf
    <3>2. outcome'[x] = "ran"
      BY <1>2, <2>1, <2>3, <3>1
    <3>3. Known(x)' /\ x \in DOMAIN timer' /\ x = running'
      BY <1>4, <2>1, <2>2, <2>3
    <3>. QED BY <3>2, <3>3 DEF ToldOf
  <2>4. CASE x # top
    <3>1. outcome'[x] = outcome[x]
      BY <1>2, <2>1, <2>4
    <3>2. x \in DOMAIN timer => x # running /\ x # running'
      BY <1>1, <2>1, <2>4
    <3>3. timer' = timer /\ (Known(x)' <=> Known(x))
      BY <1>4, <2>1
    <3>. QED BY <1>3, <3>1, <3>2, <3>3 DEF ToldOf
  <2>. QED BY <2>3, <2>4
<1>13. CASE CallbackReturns
  <2>1. /\ running # None /\ running' = None /\ Popped /\ issued' = issued
        /\ outcome' = outcome
    BY <1>13 DEF CallbackReturns
  <2>2. running \in DOMAIN timer /\ heap[0] = running
    BY <2>1 DEF InTurn
  <2>3. ~empty
    <3>1. cur_size \in Nat /\ Holds(heap, cur_size, DOMAIN timer)
      BY KeptIs
    <3>2. cur_size # 0
      BY <2>2, <3>1 DEF Holds
    <3>. QED BY <3>2 DEF empty
  <2>4. outcome[heap[0]] = "ran"
    BY <1>1, <2>2 DEF ToldOf
  <2>5. outcome'[heap[0]] # "none" /\ outcome'[heap[0]] # "ran again"
    BY <2>1, <2>4
  <2>. QED BY <1>8, <2>1, <2>2, <2>3, <2>5
<1>14. CASE DropTop
  <2>1. /\ running = None /\ running' = None /\ Popped /\ ~empty /\ issued' = issued
        /\ outcome' = outcome /\ ~timer[top].cb
    BY <1>14 DEF DropTop, TopDue
  <2>2. top = heap[0] /\ heap[0] \in DOMAIN timer /\ ToldOf(heap[0]) /\ heap[0] # running
    BY <1>1, <2>1, TopIsFirst
  <2>3. outcome[heap[0]] = "deleted"
    BY <2>1, <2>2 DEF ToldOf
  <2>4. outcome'[heap[0]] # "none" /\ outcome'[heap[0]] # "ran again"
    BY <2>1, <2>3
  <2>. QED BY <1>8, <2>1, <2>4
<1>15. CASE EndTick
  BY <1>5, <1>15 DEF EndTick
<1>16. ASSUME NEW d \in ClockMoves, ClockMoved(d) PROVE ToldOf(x)'
  BY <1>5, <1>16 DEF ClockMoved
<1>17. CASE UNCHANGED vars
  BY <1>5, <1>17 DEF vars
<1>. QED
  BY <1>6, <1>7, <1>9, <1>10, <1>11, <1>12, <1>13, <1>14, <1>15, <1>16, <1>17 DEF Next

\* Where no timer is constructed long before it is added and the clock is not set
\* back, every timer that leaves the heap ran once, or was deleted or popped by its
\* owner before: the timer freed after a callback is the one whose callback ran
\* (heap_timer.h:164-168).
THEOREM RanOrDeleted == NoneGoesBack => (Spec => []OneOutcome)
<1>. SUFFICES ASSUME NoneGoesBack PROVE Spec => []OneOutcome
  OBVIOUS
<1>1. Init => HeapInv /\ InTurn /\ Told
  <2>. SUFFICES ASSUME Init PROVE HeapInv /\ InTurn /\ Told
    OBVIOUS
  <2>1. HeapInv
    BY HeapInit
  <2>2. InTurn
    BY DEF Init, InTurn
  <2>3. /\ \A id \in TimerIds : outcome[id] = "none"
        /\ running = None
    BY DEF Init
  <2>4. DOMAIN timer = 0 .. (issued - 1) /\ \A id \in DOMAIN timer : timer[id].cb
    BY DEF Init, Construct
  <2>5. TimerIds \subseteq Nat /\ None \notin TimerIds /\ issued \in Nat
    BY <2>1, TimeHeapAssumption DEF TimerIds, None, HeapInv, Types
  <2>6. Told
    <3>. SUFFICES ASSUME NEW id \in TimerIds
                  PROVE  /\ Known(id) => id \in DOMAIN timer
                         /\ id \in DOMAIN timer => timer[id].cb /\ id # running
      BY <2>3 DEF Told, ToldOf
    <3>. QED BY <2>3, <2>4, <2>5 DEF Known
  <2>. QED BY <2>1, <2>2, <2>6
<1>2. (HeapInv /\ InTurn /\ Told) /\ [Next]_vars => (InTurn /\ Told)'
  BY TurnNext, ToldNext
<1>3. (HeapInv /\ Busy) /\ Told => OneOutcome
  BY DEF OneOutcome, Told, ToldOf, Known
<1>. QED BY <1>1, <1>2, <1>3, Invariant, PTL DEF Spec
===============================================================================
