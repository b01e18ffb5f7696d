----------------------- MODULE PriorityQueueTimerProofs -----------------------
(***************************************************************************)
(* QueueSound and NothingDueLeft hold in every behaviour of                *)
(* PriorityQueueTimer, for any number of timers and any delays and         *)
(* movements of the clock.                                                 *)
(***************************************************************************)
EXTENDS PriorityQueueTimer, FiniteSetTheorems, WellFoundedInduction, TLAPS

(***************************************************************************)
(* Trees in an array.  k gives the slots 0 .. n - 1 their keys.  Here a    *)
(* removal may put an element in the middle that is to go up or down, so   *)
(* nothing is known of the slot at but that what was there before was      *)
(* between its parent and its children.                                    *)
(***************************************************************************)
Parent(c) == (c - 1) \div 2

Ordered(k, n) == \A c \in 1 .. (n - 1) : k[Parent(c)] <= k[c]

Loose(k, n, at) ==
  \A c \in 1 .. (n - 1) :
    /\ c # at /\ Parent(c) # at => k[Parent(c)] <= k[c]
    /\ Parent(c) = at /\ at # 0 => k[Parent(at)] <= k[c]

\* what is in the slot is not due before its parent, not after its children
AboveFits(k, at)    == at = 0 \/ k[Parent(at)] <= k[at]
BelowFits(k, n, at) == \A c \in 1 .. (n - 1) : Parent(c) = at => k[at] <= k[c]

Swapped(a, i, j) == [a EXCEPT ![i] = a[j], ![j] = a[i]]

\* when the elements below n are due
Key(h, n) == [i \in 0 .. (n - 1) |-> h[i].expires]

\* N elements, of which those below n are the timers of S, each with its index and
\* the due time it was given
Kept(h, N, n, S, D) ==
  /\ h \in [0 .. (N - 1) -> Node]
  /\ \A i \in 0 .. (n - 1) : h[i].index = i /\ h[i].id \in S /\ h[i].expires = D[h[i].id]
  /\ \A id \in S : \E i \in 0 .. (n - 1) : h[i].id = id
  /\ \A i, j \in 0 .. (n - 1) : h[i].id = h[j].id => i = j

\* heap and place of a loop over the elements below n
States(N, n, S, D) ==
  {s \in [heap : [0 .. (N - 1) -> Node], at : 0 .. (n - 1)] : Kept(s.heap, N, n, S, D)}

\* what a loop leaves after each of its rounds
IsLoop(f, x, F, N) == \A n \in 0 .. N : f[n] = IF n = 0 THEN x ELSE F[f[n - 1]]

-------------------------------------------------------------------------------
\* Induction, for a set: the numbers are well-founded.
LEMMA Induction ==
  ASSUME NEW S, 0 \in S, \A n \in Nat : n \in S => n + 1 \in S
  PROVE  Nat \subseteq S
<1>. DEFINE T == Nat \ S
<1>1. SUFFICES ASSUME T # {} PROVE FALSE
  OBVIOUS
<1>2. PICK m \in T : \A n \in T : ~(<<n, m>> \in OpToRel(<, Nat))
  <2>1. T \subseteq Nat
    OBVIOUS
  <2>. QED BY <1>1, <2>1, NatLessThanWellFounded, WFMin
<1>3. \A n \in T : ~(n < m)
  BY <1>2 DEF OpToRel
<1>4. m \in Nat /\ m # 0 /\ m - 1 \in Nat
  OBVIOUS
<1>5. m - 1 \in S
  BY <1>3, <1>4
<1>6. (m - 1) + 1 \in S
  BY <1>4, <1>5
<1>. QED BY <1>4, <1>6

\* A loop of N rounds, each a function of what the round before left, has a result
\* after every round.
LEMMA Rounds ==
  ASSUME NEW S, NEW x \in S, NEW F \in [S -> S], NEW N \in Nat
  PROVE  \E f \in [0 .. N -> S] : IsLoop(f, x, F, N)
<1>. USE DEF IsLoop
<1>. DEFINE Is(f, m) == f \in [0 .. m -> S] /\ IsLoop(f, x, F, m)
            T == {m \in Nat : \E f : Is(f, m)}
<1>1. 0 \in T
  <2>1. Is([n \in 0 .. 0 |-> x], 0)
    OBVIOUS
  <2>. QED BY <2>1
<1>2. ASSUME NEW m \in Nat, m \in T PROVE m + 1 \in T
  <2>1. PICK f : Is(f, m)
    BY <1>2
  <2>. DEFINE g == [n \in 0 .. (m + 1) |-> IF n <= m THEN f[n] ELSE F[f[m]]]
  <2>2. f[m] \in S /\ F[f[m]] \in S
    BY <2>1
  <2>3. ASSUME NEW n \in 0 .. (m + 1)
        PROVE  g[n] \in S /\ g[n] = IF n = 0 THEN x ELSE F[g[n - 1]]
    <3>1. CASE n = 0
      BY <2>1, <3>1
    <3>2. CASE n # 0 /\ n <= m
      <4>1. n \in 0 .. m /\ n - 1 \in 0 .. (m + 1) /\ n - 1 <= m
        BY <3>2
      <4>2. g[n] = f[n] /\ g[n - 1] = f[n - 1]
        BY <4>1
      <4>3. f[n] = F[f[n - 1]] /\ f[n] \in S
        BY <2>1, <3>2, <4>1
      <4>. QED BY <3>2, <4>2, <4>3
    <3>3. CASE n = m + 1
      <4>1. n - 1 = m /\ m \in 0 .. (m + 1) /\ ~(n <= m) /\ n # 0
        BY <3>3
      <4>. QED BY <2>2, <3>3, <4>1
    <3>. QED BY <3>1, <3>2, <3>3
  <2>4. Is(g, m + 1)
    BY <2>3
  <2>. HIDE DEF Is, g
  <2>. QED BY <2>4
<1>. HIDE DEF Is
<1>3. Nat \subseteq T
  BY <1>1, <1>2, Induction
<1>4. \E f : Is(f, N)
  BY <1>3
<1>. QED BY <1>4 DEF Is

\* The children of p are 2p + 1 and 2p + 2.
LEMMA ParentOf ==
  /\ \A c \in Nat \ {0} : Parent(c) \in Nat /\ Parent(c) < c
  /\ \A c \in Nat \ {0}, p \in Nat : Parent(c) = p <=> (c = 2 * p + 1 \/ c = 2 * p + 2)
BY DEF Parent

\* A slot that has a parent.
LEMMA ParentIn ==
  ASSUME NEW n \in Nat, NEW c \in 1 .. (n - 1)
  PROVE  c \in 0 .. (n - 1) /\ Parent(c) \in 0 .. (n - 1) /\ Parent(c) < c
<1>1. c \in Nat \ {0} /\ c <= n - 1
  OBVIOUS
<1>2. Parent(c) \in Nat /\ Parent(c) < c
  BY <1>1, ParentOf
<1>. QED BY <1>1, <1>2

\* The child due first goes up, where it is not due before the parent it gets, and
\* what takes its place is not due before its own.
LEMMA DownStep ==
  ASSUME NEW n \in Nat, NEW k \in [0 .. (n - 1) -> Int], NEW at \in 0 .. (n - 1),
         Loose(k, n, at), NEW j \in 1 .. (n - 1), Parent(j) = at, k[j] < k[at],
         \A c \in 1 .. (n - 1) : Parent(c) = at => k[j] <= k[c],
         NEW s, s = Swapped(k, at, j)
  PROVE  Loose(s, n, j) /\ AboveFits(s, j)
<1>1. at < j
  BY ParentOf
<1>2. /\ s[at] = k[j] /\ s[j] = k[at]
      /\ \A m \in 0 .. (n - 1) : m # at /\ m # j => s[m] = k[m]
  BY <1>1 DEF Swapped
<1>3. ASSUME NEW c \in 1 .. (n - 1), c # j, Parent(c) # j
      PROVE  s[Parent(c)] <= s[c]
  <2>. DEFINE p == Parent(c)
  <2>1. p \in 0 .. (n - 1) /\ p < c
    BY ParentIn
  <2>2. CASE p = at
    <3>1. c # at /\ k[j] <= k[c]
      BY <2>1, <2>2
    <3>. QED BY <1>2, <1>3, <2>2, <3>1
  <2>3. CASE c = at
    <3>1. at # 0
      BY <2>3
    <3>2. k[Parent(at)] <= k[j]
      BY <3>1 DEF Loose
    <3>3. s[p] = k[p] /\ s[c] = k[j]
      BY <1>2, <1>3, <2>1, <2>3
    <3>. QED BY <2>3, <3>2, <3>3
  <2>4. CASE p # at /\ c # at
    <3>1. k[p] <= k[c]
      BY <2>4 DEF Loose
    <3>2. s[p] = k[p] /\ s[c] = k[c]
      BY <1>2, <1>3, <2>1, <2>4
    <3>. QED BY <3>1, <3>2
  <2>. QED BY <2>2, <2>3, <2>4
<1>4. ASSUME NEW c \in 1 .. (n - 1), Parent(c) = j
      PROVE  s[Parent(j)] <= s[c]
  <2>1. j < c
    BY <1>4, ParentOf
  <2>2. c # at /\ Parent(c) # at
    BY <1>1, <1>4, <2>1
  <2>3. k[j] <= k[c]
    BY <1>4, <2>2 DEF Loose
  <2>4. s[c] = k[c]
    BY <1>1, <1>2, <2>1
  <2>. QED BY <1>2, <2>3, <2>4
<1>5. AboveFits(s, j)
  BY <1>2 DEF AboveFits
<1>. QED BY <1>3, <1>4, <1>5 DEF Loose

\* An element due before its parent goes up, and is not due after the children it gets.
LEMMA UpStep ==
  ASSUME NEW n \in Nat, NEW k \in [0 .. (n - 1) -> Int], NEW at \in 1 .. (n - 1),
         Loose(k, n, at), BelowFits(k, n, at), k[at] < k[Parent(at)],
         NEW s, s = Swapped(k, Parent(at), at)
  PROVE  Loose(s, n, Parent(at)) /\ BelowFits(s, n, Parent(at))
<1>1. PICK p \in 0 .. (n - 1) : p = Parent(at)
  BY ParentOf
<1>2. p < at
  BY <1>1, ParentOf
<1>3. /\ s[at] = k[p] /\ s[p] = k[at]
      /\ \A m \in 0 .. (n - 1) : m # at /\ m # p => s[m] = k[m]
  BY <1>1, <1>2 DEF Swapped
<1>4. ASSUME NEW c \in 1 .. (n - 1), c # p, Parent(c) # p
      PROVE  s[Parent(c)] <= s[c]
  <2>1. PICK r \in 0 .. (n - 1) : r = Parent(c)
    BY ParentIn
  <2>2. r < c /\ c # at
    BY <1>1, <1>4, <2>1, ParentOf
  <2>3. CASE r = at
    <3>1. Parent(c) = at /\ at # 0
      BY <2>1, <2>3
    <3>2. k[Parent(at)] <= k[c]
      BY <3>1 DEF Loose
    <3>. QED BY <1>1, <1>3, <1>4, <2>1, <2>2, <2>3, <3>2
  <2>4. CASE r # at
    <3>1. k[r] <= k[c]
      BY <2>1, <2>2, <2>4 DEF Loose
    <3>2. s[r] = k[r] /\ s[c] = k[c]
      BY <1>3, <1>4, <2>1, <2>2, <2>4
    <3>. QED BY <2>1, <3>1, <3>2
  <2>. QED BY <2>3, <2>4
<1>5. ASSUME NEW c \in 1 .. (n - 1), Parent(c) = p
      PROVE  /\ s[p] <= s[c]
             /\ p # 0 => s[Parent(p)] <= s[c]
  <2>1. c # p /\ p < c
    BY <1>5, ParentOf
  <2>2. c # at => k[p] <= k[c]
    BY <1>1, <1>2, <1>5 DEF Loose
  <2>3. s[c] = IF c = at THEN k[p] ELSE k[c]
    BY <1>3, <2>1
  <2>4. k[p] <= s[c] /\ s[p] = k[at] /\ k[at] < k[p]
    BY <1>1, <1>3, <2>2, <2>3
  <2>5. s[c] \in Int /\ k[p] \in Int /\ k[at] \in Int
    BY <2>3
  <2>6. ASSUME p # 0 PROVE s[Parent(p)] <= s[c]
    <3>1. PICK q \in 0 .. (n - 1) : q = Parent(p)
      BY <2>6, ParentOf
    <3>2. q < p
      BY <2>6, <3>1, ParentOf
    <3>3. k[q] <= k[p]
      BY <1>1, <1>2, <2>6, <3>1, <3>2 DEF Loose
    <3>4. s[q] = k[q]
      BY <1>2, <1>3, <3>2
    <3>. QED BY <2>4, <2>5, <3>1, <3>3, <3>4
  <2>. QED BY <2>4, <2>5, <2>6
<1>. QED BY <1>1, <1>4, <1>5 DEF Loose, BelowFits

\* An element that fits above and below is in its place.
LEMMA Stops ==
  ASSUME NEW n \in Nat, NEW k, NEW at \in 0 .. (n - 1),
         Loose(k, n, at), AboveFits(k, at), BelowFits(k, n, at)
  PROVE  Ordered(k, n)
BY DEF Loose, AboveFits, BelowFits, Ordered

\* In an order every place is loose, and what is there fits.
LEMMA OrderedIsLoose ==
  ASSUME NEW n \in Nat, NEW k \in [0 .. (n - 1) -> Int], Ordered(k, n), NEW at \in 0 .. (n - 1)
  PROVE  Loose(k, n, at) /\ AboveFits(k, at) /\ BelowFits(k, n, at)
<1>1. AboveFits(k, at) /\ BelowFits(k, n, at)
  BY DEF AboveFits, BelowFits, Ordered
<1>2. ASSUME NEW c \in 1 .. (n - 1), Parent(c) = at, at # 0 PROVE k[Parent(at)] <= k[c]
  <2>1. Parent(at) \in 0 .. (n - 1)
    BY <1>2, ParentOf
  <2>2. k[Parent(at)] <= k[at] /\ k[at] <= k[c]
    BY <1>2 DEF Ordered
  <2>. QED BY <2>1, <2>2
<1>. QED BY <1>1, <1>2 DEF Loose, Ordered

\* The root is due first.
LEMMA RootIsLeast ==
  ASSUME NEW n \in Nat, NEW k \in [0 .. (n - 1) -> Int], Ordered(k, n)
  PROVE  \A i \in 0 .. (n - 1) : k[0] <= k[i]
<1>. DEFINE S == {m \in Nat : \A i \in 0 .. m : i < n => k[0] <= k[i]}
<1>1. 0 \in S
  OBVIOUS
<1>2. ASSUME NEW m \in Nat, m \in S PROVE m + 1 \in S
  <2>. SUFFICES ASSUME NEW i \in 0 .. (m + 1), i < n PROVE k[0] <= k[i]
    OBVIOUS
  <2>1. CASE i <= m
    BY <2>1, <1>2
  <2>2. CASE i = m + 1
    <3>1. i \in 1 .. (n - 1) /\ Parent(i) \in 0 .. m /\ Parent(i) < n
      BY <2>2, ParentOf
    <3>2. k[0] <= k[Parent(i)]
      BY <3>1, <1>2
    <3>3. k[Parent(i)] <= k[i]
      BY <3>1 DEF Ordered
    <3>4. k[0] \in Int /\ k[Parent(i)] \in Int /\ k[i] \in Int
      BY <3>1
    <3>. QED BY <3>2, <3>3, <3>4
  <2>. QED BY <2>1, <2>2
<1>. HIDE DEF S
<1>3. Nat \subseteq S
  BY <1>1, <1>2, Induction
<1>4. ASSUME NEW i \in 0 .. (n - 1) PROVE k[0] <= k[i]
  <2>1. i \in S /\ i \in 0 .. i /\ i < n
    BY <1>3
  <2>. QED BY <2>1 DEF S
<1>. QED BY <1>4
-------------------------------------------------------------------------------
(***************************************************************************)
(* The loops, over the first n of N elements.                              *)
(***************************************************************************)
\* When elements are due.
LEMMA KeyIs ==
  ASSUME NEW N \in Nat, NEW n \in 0 .. N, NEW h \in [0 .. (N - 1) -> Node]
  PROVE  /\ Key(h, n) \in [0 .. (n - 1) -> Int]
         /\ \A c \in 0 .. (n - 1) : Key(h, n)[c] = h[c].expires
<1>1. \A c \in 0 .. (n - 1) : h[c] \in Node
  OBVIOUS
<1>. QED BY <1>1 DEF Key, Node

\* A swap of two elements keeps the timers and their indices, and swaps the keys
\* (priority_queue_timer.cpp:45-47).
LEMMA SwapKept ==
  ASSUME NEW N \in Nat, NEW n \in 0 .. N, NEW S, NEW D, NEW h, Kept(h, N, n, S, D),
         NEW i \in 0 .. (n - 1), NEW j \in 0 .. (n - 1), i # j,
         NEW r, r = SwapIndexed(h, i, j)
  PROVE  Kept(r, N, n, S, D) /\ Key(r, n) = Swapped(Key(h, n), i, j)
<1>1. /\ h \in [0 .. (N - 1) -> Node] /\ i \in 0 .. (N - 1) /\ j \in 0 .. (N - 1)
      /\ h[i] \in Node /\ h[j] \in Node
  BY DEF Kept
<1>2. PICK x, y : x = [h[j] EXCEPT !.index = i] /\ y = [h[i] EXCEPT !.index = j]
  OBVIOUS
<1>3. /\ x \in Node /\ x.index = i /\ x.id = h[j].id /\ x.expires = h[j].expires
      /\ y \in Node /\ y.index = j /\ y.id = h[i].id /\ y.expires = h[i].expires
  BY <1>1, <1>2 DEF Node
<1>4. r = [h EXCEPT ![i] = x, ![j] = y]
  BY <1>2 DEF SwapIndexed
<1>5. /\ r \in [0 .. (N - 1) -> Node] /\ r[i] = x /\ r[j] = y
      /\ \A m \in 0 .. (N - 1) : m # i /\ m # j => r[m] = h[m]
  BY <1>1, <1>3, <1>4
<1>. DEFINE o(m) == IF m = i THEN j ELSE IF m = j THEN i ELSE m
<1>6. ASSUME NEW m \in 0 .. (n - 1)
      PROVE  /\ o(m) \in 0 .. (n - 1) /\ o(o(m)) = m /\ r[m].index = m
             /\ r[m].id = h[o(m)].id /\ r[m].expires = h[o(m)].expires
  <2>1. m \in 0 .. (N - 1) /\ h[m].index = m
    BY DEF Kept
  <2>. QED BY <1>3, <1>5, <2>1
<1>. HIDE DEF o
<1>a. /\ \A l \in 0 .. (n - 1) : h[l].id \in S /\ h[l].expires = D[h[l].id]
      /\ \A l, m \in 0 .. (n - 1) : h[l].id = h[m].id => l = m
  BY DEF Kept
<1>7. ASSUME NEW m \in 0 .. (n - 1)
      PROVE  r[m].index = m /\ r[m].id \in S /\ r[m].expires = D[r[m].id]
  <2>1. h[o(m)].id \in S /\ h[o(m)].expires = D[h[o(m)].id]
    BY <1>6, <1>a
  <2>. QED BY <1>6, <2>1
<1>8. ASSUME NEW id \in S PROVE \E m \in 0 .. (n - 1) : r[m].id = id
  <2>1. PICK m \in 0 .. (n - 1) : h[m].id = id
    BY DEF Kept
  <2>2. o(m) \in 0 .. (n - 1) /\ r[o(m)].id = id
    BY <1>6, <2>1
  <2>. QED BY <2>2
<1>9. ASSUME NEW l \in 0 .. (n - 1), NEW m \in 0 .. (n - 1), r[l].id = r[m].id PROVE l = m
  <2>1. o(l) \in 0 .. (n - 1) /\ o(m) \in 0 .. (n - 1) /\ h[o(l)].id = h[o(m)].id
    BY <1>6, <1>9
  <2>2. o(l) = o(m)
    BY <1>a, <2>1
  <2>. QED BY <1>6, <2>2
<1>10. Key(r, n) = Swapped(Key(h, n), i, j)
  <2>1. ASSUME NEW m \in 0 .. (n - 1) PROVE r[m].expires = Swapped(Key(h, n), i, j)[m]
    BY <1>6 DEF Swapped, Key, o
  <2>. QED BY <2>1 DEF Swapped, Key
<1>. QED BY <1>5, <1>7, <1>8, <1>9, <1>10 DEF Kept

\* The states of the loops.
LEMMA StateIs ==
  ASSUME NEW N, NEW n, NEW S, NEW D, NEW h, Kept(h, N, n, S, D), NEW at \in 0 .. (n - 1)
  PROVE  [heap |-> h, at |-> at] \in States(N, n, S, D)
<1>1. h \in [0 .. (N - 1) -> Node]
  BY DEF Kept
<1>. QED BY <1>1 DEF States

\* what a round of siftdown does to the keys: the child due first goes up
DownSwaps(k, n, at, j, s) ==
  /\ j \in 1 .. (n - 1) /\ Parent(j) = at /\ k[j] < k[at]
  /\ \A c \in 1 .. (n - 1) : Parent(c) = at => k[j] <= k[c]
  /\ s = Swapped(k, at, j)

\* siftdown goes on while a child is due before the element, with the one due first
\* (priority_queue_timer.cpp:28-49).
LEMMA DownRoundIs ==
  ASSUME NEW N \in Nat, NEW n \in 0 .. N, NEW S, NEW D, NEW s \in States(N, n, S, D),
         NEW r, r = DownRound(s, n)
  PROVE  /\ r \in States(N, n, S, D)
         /\ \/ r = s /\ BelowFits(Key(s.heap, n), n, s.at)
            \/ DownSwaps(Key(s.heap, n), n, s.at, r.at, Key(r.heap, n))
<1>1. PICK h \in [0 .. (N - 1) -> Node], at \in 0 .. (n - 1) :
        s = [heap |-> h, at |-> at] /\ Kept(h, N, n, S, D)
  BY DEF States
<1>2. PICK k \in [0 .. (n - 1) -> Int] : k = Key(h, n)
  BY KeyIs
<1>3. \A c \in 0 .. (n - 1) : h[c].expires = k[c]
  BY <1>2, KeyIs
<1>4. PICK j1 : j1 = 2 * at + 1
  OBVIOUS
<1>5. j1 \in Nat /\ \A c \in 1 .. (n - 1) : Parent(c) = at <=> c = j1 \/ c = j1 + 1
  BY <1>4, ParentOf
<1>6. PICK j : j = LeastChild(h, at, n)
  OBVIOUS
<1>7. r = IF j1 < n /\ h[j].expires < h[at].expires
          THEN [heap |-> SwapIndexed(h, at, j), at |-> j] ELSE s
  BY <1>1, <1>4, <1>6 DEF DownRound, Less
<1>8. CASE ~(j1 < n)
  <2>1. r = s
    BY <1>7, <1>8
  <2>2. BelowFits(k, n, at)
    BY <1>5, <1>8 DEF BelowFits
  <2>. QED BY <1>1, <1>2, <2>1, <2>2
<1>9. CASE j1 < n
  <2>1. j = IF j1 + 1 < n /\ ~(h[j1].expires < h[j1 + 1].expires) THEN j1 + 1 ELSE j1
    BY <1>4, <1>6 DEF LeastChild, Less
  <2>2. /\ j \in 1 .. (n - 1) /\ (j = j1 \/ j = j1 + 1)
        /\ k[j] <= k[j1] /\ (j1 + 1 < n => k[j] <= k[j1 + 1])
    <3>1. j1 \in 1 .. (n - 1) /\ (j1 + 1 < n => j1 + 1 \in 1 .. (n - 1))
      BY <1>4, <1>9
    <3>2. h[j1].expires = k[j1] /\ k[j1] \in Int
      BY <1>3, <3>1
    <3>3. j1 + 1 < n => h[j1 + 1].expires = k[j1 + 1] /\ k[j1 + 1] \in Int
      BY <1>3, <3>1
    <3>4. CASE j1 + 1 < n /\ ~(h[j1].expires < h[j1 + 1].expires)
      <4>1. j = j1 + 1
        BY <2>1, <3>4
      <4>2. k[j1 + 1] <= k[j1]
        BY <3>2, <3>3, <3>4
      <4>. QED BY <3>1, <3>3, <3>4, <4>1, <4>2
    <3>5. CASE ~(j1 + 1 < n /\ ~(h[j1].expires < h[j1 + 1].expires))
      <4>1. j = j1
        BY <2>1, <3>5
      <4>2. j1 + 1 < n => k[j1] <= k[j1 + 1]
        BY <3>2, <3>3, <3>5
      <4>. QED BY <3>1, <3>2, <4>1, <4>2
    <3>. QED BY <3>4, <3>5
  <2>3. Parent(j) = at /\ \A c \in 1 .. (n - 1) : Parent(c) = at => k[j] <= k[c]
    <3>1. Parent(j) = at
      BY <1>5, <2>2
    <3>2. ASSUME NEW c \in 1 .. (n - 1), Parent(c) = at PROVE k[j] <= k[c]
      <4>1. c = j1 \/ c = j1 + 1
        BY <1>5, <3>2
      <4>2. c < n
        OBVIOUS
      <4>. QED BY <2>2, <4>1, <4>2
    <3>. QED BY <3>1, <3>2
  <2>4. j \in 0 .. (n - 1) /\ j # at /\ h[j].expires = k[j] /\ h[at].expires = k[at]
    <3>1. j \in Nat \ {0} /\ j \in 0 .. (n - 1) /\ Parent(j) < j
      BY <2>2, ParentOf
    <3>2. j # at
      BY <2>3, <3>1
    <3>. QED BY <1>3, <3>1, <3>2
  <2>5. CASE k[j] < k[at]
    <3>1. r = [heap |-> SwapIndexed(h, at, j), at |-> j]
      BY <1>7, <1>9, <2>4, <2>5
    <3>2. PICK g : g = SwapIndexed(h, at, j)
      OBVIOUS
    <3>3. Kept(g, N, n, S, D) /\ Key(g, n) = Swapped(k, at, j)
      BY <1>1, <1>2, <2>4, <3>2, SwapKept
    <3>4. r.heap = g /\ r.at = j /\ r \in States(N, n, S, D)
      BY StateIs, <2>4, <3>1, <3>2, <3>3
    <3>. QED BY <1>1, <1>2, <2>2, <2>3, <2>5, <3>3, <3>4 DEF DownSwaps
  <2>6. CASE ~(k[j] < k[at])
    <3>1. r = s
      BY <1>7, <2>4, <2>6
    <3>2. BelowFits(k, n, at)
      <4>1. \A c \in 1 .. (n - 1) : Parent(c) = at => k[at] <= k[c]
        BY <2>2, <2>3, <2>6
      <4>. QED BY <4>1 DEF BelowFits
    <3>. QED BY <1>1, <1>2, <3>1, <3>2
  <2>. QED BY <2>5, <2>6
<1>. QED BY <1>8, <1>9

\* siftup goes on while the element is due before its parent
\* (priority_queue_timer.cpp:55-66).
LEMMA UpRoundIs ==
  ASSUME NEW N \in Nat, NEW n \in 0 .. N, NEW S, NEW D, NEW s \in States(N, n, S, D),
         NEW r, r = UpRound(s)
  PROVE  /\ r \in States(N, n, S, D)
         /\ \/ r = s /\ AboveFits(Key(s.heap, n), s.at)
            \/ /\ s.at \in 1 .. (n - 1) /\ r.at = Parent(s.at)
               /\ Key(s.heap, n)[s.at] < Key(s.heap, n)[Parent(s.at)]
               /\ Key(r.heap, n) = Swapped(Key(s.heap, n), Parent(s.at), s.at)
<1>1. PICK h \in [0 .. (N - 1) -> Node], at \in 0 .. (n - 1) :
        s = [heap |-> h, at |-> at] /\ Kept(h, N, n, S, D)
  BY DEF States
<1>2. PICK k \in [0 .. (n - 1) -> Int] : k = Key(h, n)
  BY KeyIs
<1>3. \A c \in 0 .. (n - 1) : h[c].expires = k[c]
  BY <1>2, KeyIs
<1>4. CASE at = 0
  <2>1. r = s
    BY <1>1, <1>4 DEF UpRound
  <2>. QED BY <1>1, <1>2, <1>4, <2>1 DEF AboveFits
<1>5. CASE at # 0
  <2>1. PICK p : p = Parent(at)
    OBVIOUS
  <2>2. p \in 0 .. (n - 1) /\ p # at /\ at \in 1 .. (n - 1)
    <3>1. at \in Nat \ {0} /\ at \in 1 .. (n - 1)
      BY <1>5
    <3>2. Parent(at) \in Nat /\ Parent(at) < at
      BY <3>1, ParentOf
    <3>. QED BY <2>1, <3>1, <3>2
  <2>3. r = IF k[at] < k[p] THEN [heap |-> SwapIndexed(h, p, at), at |-> p] ELSE s
    BY <1>1, <1>3, <1>5, <2>1, <2>2 DEF UpRound, Less, Parent
  <2>4. CASE k[at] < k[p]
    <3>1. PICK g : g = SwapIndexed(h, p, at)
      OBVIOUS
    <3>2. Kept(g, N, n, S, D) /\ Key(g, n) = Swapped(k, p, at)
      BY <1>1, <1>2, <2>2, <3>1, SwapKept
    <3>3. r.heap = g /\ r.at = p /\ r \in States(N, n, S, D)
      BY StateIs, <2>2, <2>3, <2>4, <3>1, <3>2
    <3>. QED BY <1>1, <1>2, <2>1, <2>2, <2>4, <3>2, <3>3
  <2>5. CASE ~(k[at] < k[p])
    <3>1. AboveFits(k, at)
      BY <2>1, <2>2, <2>5 DEF AboveFits
    <3>. QED BY <1>1, <1>2, <2>3, <2>5, <3>1
  <2>. QED BY <2>4, <2>5
<1>. QED BY <1>4, <1>5

\* after m rounds of siftdown from slot i: it has not moved the element, or the
\* element is where it fits above; and it has stopped or gone down m times
DownGood(N, n, S, D, i, start, s, m) ==
  /\ s \in States(N, n, S, D)
  /\ \/ s = start
     \/ s.at > i /\ Loose(Key(s.heap, n), n, s.at) /\ AboveFits(Key(s.heap, n), s.at)
  /\ s.at >= i + m \/ BelowFits(Key(s.heap, n), n, s.at)

LEMMA DownGoes ==
  ASSUME NEW N \in Nat, NEW n \in 0 .. N, NEW S, NEW D, NEW i \in 0 .. (n - 1), NEW m \in Nat,
         NEW start \in States(N, n, S, D), start.at = i, Loose(Key(start.heap, n), n, i),
         NEW s, DownGood(N, n, S, D, i, start, s, m),
         NEW r, r = DownRound(s, n)
  PROVE  DownGood(N, n, S, D, i, start, r, m + 1)
<1>1. s \in States(N, n, S, D)
  BY DEF DownGood
<1>2. PICK h \in [0 .. (N - 1) -> Node], at \in 0 .. (n - 1) : s = [heap |-> h, at |-> at]
  BY <1>1 DEF States
<1>3. PICK k \in [0 .. (n - 1) -> Int] : k = Key(h, n)
  BY KeyIs
<1>4. r \in States(N, n, S, D)
  BY <1>1, DownRoundIs
<1>5. \/ r = s /\ BelowFits(k, n, at)
      \/ DownSwaps(k, n, at, r.at, Key(r.heap, n))
  <2>1. \/ r = s /\ BelowFits(Key(s.heap, n), n, s.at)
        \/ DownSwaps(Key(s.heap, n), n, s.at, r.at, Key(r.heap, n))
    BY <1>1, DownRoundIs
  <2>. QED BY <1>2, <1>3, <2>1
<1>6. Loose(k, n, at) /\ at >= i
  BY <1>2, <1>3 DEF DownGood
<1>7. CASE r = s /\ BelowFits(k, n, at)
  BY <1>2, <1>3, <1>7 DEF DownGood
<1>8. CASE DownSwaps(k, n, at, r.at, Key(r.heap, n))
  <2>1. PICK j, g : j = r.at /\ g = Key(r.heap, n)
    OBVIOUS
  <2>2. /\ j \in 1 .. (n - 1) /\ Parent(j) = at /\ k[j] < k[at]
        /\ \A c \in 1 .. (n - 1) : Parent(c) = at => k[j] <= k[c]
        /\ g = Swapped(k, at, j)
    BY <1>8, <2>1 DEF DownSwaps
  <2>3. Loose(g, n, j) /\ AboveFits(g, j)
    <3>1. n \in Nat
      OBVIOUS
    <3>. QED BY <1>6, <2>2, <3>1, DownStep
  <2>4. j > at
    <3>1. j \in Nat \ {0} /\ Parent(j) < j
      BY <2>2, ParentOf
    <3>. QED BY <2>2, <3>1
  <2>5. ~BelowFits(k, n, at)
    <3>1. j \in 0 .. (n - 1)
      BY <2>2
    <3>2. ~(k[at] <= k[j])
      BY <2>2, <3>1
    <3>. QED BY <2>2, <3>2 DEF BelowFits
  <2>6. at >= i + m
    BY <1>2, <1>3, <2>5 DEF DownGood
  <2>7. j >= i + (m + 1) /\ j > i
    BY <1>6, <2>2, <2>4, <2>6
  <2>. QED BY <1>4, <2>1, <2>3, <2>7 DEF DownGood
<1>. QED BY <1>5, <1>7, <1>8

\* What siftdown does: it moves nothing, and then no child is due before the element,
\* or it puts the elements below n in order (priority_queue_timer.cpp:25-51).
LEMMA SiftDownIs ==
  ASSUME NEW N \in Nat, NEW n \in 0 .. N, NEW S, NEW D, NEW h, Kept(h, N, n, S, D),
         NEW i \in 0 .. (n - 1), Loose(Key(h, n), n, i),
         NEW r, r = SiftDown(h, i, n)
  PROVE  /\ r \in States(N, n, S, D)
         /\ \/ r = [heap |-> h, at |-> i] /\ BelowFits(Key(h, n), n, i)
            \/ r.at > i /\ Ordered(Key(r.heap, n), n)
<1>. DEFINE start == [heap |-> h, at |-> i]
            W == States(N, n, S, D)
            F == [s \in W |-> DownRound(s, n)]
            Down[k \in 0 .. n] == IF k = 0 THEN start ELSE DownRound(Down[k - 1], n)
            G == {k \in Nat : k <= n => DownGood(N, n, S, D, i, start, Down[k], k)}
<1>1. start \in W
  BY StateIs
<1>2. F \in [W -> W]
  <2>1. ASSUME NEW s \in W PROVE DownRound(s, n) \in W
    BY DownRoundIs
  <2>. HIDE DEF W
  <2>. QED BY <2>1
<1>3. \E f : f = [k \in 0 .. n |-> IF k = 0 THEN start ELSE DownRound(f[k - 1], n)]
  <2>1. PICK f \in [0 .. n -> W] : \A k \in 0 .. n : f[k] = IF k = 0 THEN start ELSE F[f[k - 1]]
    <3>. HIDE DEF F, start, W, Down, G
    <3>1. \E f \in [0 .. n -> W] : IsLoop(f, start, F, n)
      BY <1>1, <1>2, Rounds
    <3>. QED BY <3>1 DEF IsLoop
  <2>2. ASSUME NEW k \in 0 .. n
        PROVE  f[k] = IF k = 0 THEN start ELSE DownRound(f[k - 1], n)
    <3>1. CASE k = 0
      BY <2>1, <3>1
    <3>2. CASE k # 0
      <4>1. k - 1 \in 0 .. n
        BY <3>2
      <4>2. f[k - 1] \in W
        BY <2>1, <4>1
      <4>3. F[f[k - 1]] = DownRound(f[k - 1], n)
        <5>. HIDE DEF W
        <5>. QED BY <4>2
      <4>4. f[k] = F[f[k - 1]]
        <5>. HIDE DEF F, start
        <5>. QED BY <2>1, <3>2
      <4>. QED BY <3>2, <4>3, <4>4
    <3>. QED BY <3>1, <3>2
  <2>3. f = [k \in 0 .. n |-> IF k = 0 THEN start ELSE DownRound(f[k - 1], n)]
    <3>. HIDE DEF F, start, W
    <3>. QED BY <2>1, <2>2
  <2>. QED BY <2>3
<1>4. Down = [k \in 0 .. n |-> IF k = 0 THEN start ELSE DownRound(Down[k - 1], n)]
  BY <1>3 DEF Down
<1>5. r = Down[n]
  BY DEF SiftDown
<1>6. start.at = i /\ start.heap = h
  OBVIOUS
<1>. HIDE DEF Down, start, F
<1>7. 0 \in G
  <2>1. Down[0] = start
    BY <1>4
  <2>. QED BY <1>1, <1>6, <2>1 DEF DownGood
<1>8. ASSUME NEW m \in Nat, m \in G PROVE m + 1 \in G
  <2>. SUFFICES ASSUME m + 1 <= n PROVE DownGood(N, n, S, D, i, start, Down[m + 1], m + 1)
    OBVIOUS
  <2>1. DownGood(N, n, S, D, i, start, Down[m], m)
    BY <1>8
  <2>2. Down[m + 1] = DownRound(Down[m], n)
    BY <1>4
  <2>. HIDE DEF G
  <2>. QED BY <1>1, <1>6, <2>1, <2>2, DownGoes
<1>. HIDE DEF G
<1>9. Nat \subseteq G
  BY <1>7, <1>8, Induction
<1>10. DownGood(N, n, S, D, i, start, r, n)
  BY <1>5, <1>9 DEF G
<1>11. r \in W
  BY <1>10 DEF DownGood
<1>12. PICK g \in [0 .. (N - 1) -> Node], at \in 0 .. (n - 1) : r = [heap |-> g, at |-> at]
  BY <1>11 DEF States
<1>13. BelowFits(Key(g, n), n, at)
  BY <1>10, <1>12 DEF DownGood
<1>14. CASE r = start
  BY <1>6, <1>11, <1>12, <1>13, <1>14 DEF start
<1>15. CASE r # start
  <2>1. at > i /\ Loose(Key(g, n), n, at) /\ AboveFits(Key(g, n), at)
    BY <1>10, <1>12, <1>15 DEF DownGood
  <2>2. Ordered(Key(g, n), n)
    BY <1>13, <2>1, Stops
  <2>. QED BY <1>11, <1>12, <2>1, <2>2
<1>. QED BY <1>14, <1>15

\* after m rounds of siftup from slot j: the element fits below, and it has stopped
\* or gone up m times
UpGood(N, n, S, D, j, s, m) ==
  /\ s \in States(N, n, S, D)
  /\ Loose(Key(s.heap, n), n, s.at) /\ BelowFits(Key(s.heap, n), n, s.at)
  /\ s.at + m <= j \/ AboveFits(Key(s.heap, n), s.at)

LEMMA UpGoes ==
  ASSUME NEW N \in Nat, NEW n \in 0 .. N, NEW S, NEW D, NEW j \in 0 .. (n - 1), NEW m \in Nat,
         NEW s, UpGood(N, n, S, D, j, s, m),
         NEW r, r = UpRound(s)
  PROVE  UpGood(N, n, S, D, j, r, m + 1)
<1>1. s \in States(N, n, S, D)
  BY DEF UpGood
<1>2. PICK h \in [0 .. (N - 1) -> Node], at \in 0 .. (n - 1) : s = [heap |-> h, at |-> at]
  BY <1>1 DEF States
<1>3. PICK k \in [0 .. (n - 1) -> Int] : k = Key(h, n)
  BY KeyIs
<1>4. r \in States(N, n, S, D)
  BY <1>1, UpRoundIs
<1>5. \/ r = s /\ AboveFits(k, at)
      \/ /\ at \in 1 .. (n - 1) /\ r.at = Parent(at) /\ k[at] < k[Parent(at)]
         /\ Key(r.heap, n) = Swapped(k, Parent(at), at)
  <2>1. \/ r = s /\ AboveFits(Key(s.heap, n), s.at)
        \/ /\ s.at \in 1 .. (n - 1) /\ r.at = Parent(s.at)
           /\ Key(s.heap, n)[s.at] < Key(s.heap, n)[Parent(s.at)]
           /\ Key(r.heap, n) = Swapped(Key(s.heap, n), Parent(s.at), s.at)
    BY <1>1, UpRoundIs
  <2>. QED BY <1>2, <1>3, <2>1
<1>6. /\ Loose(k, n, at) /\ BelowFits(k, n, at)
      /\ at + m <= j \/ AboveFits(k, at)
  BY <1>2, <1>3 DEF UpGood
<1>7. CASE r = s /\ AboveFits(k, at)
  BY <1>2, <1>3, <1>6, <1>7 DEF UpGood
<1>8. CASE /\ at \in 1 .. (n - 1) /\ r.at = Parent(at) /\ k[at] < k[Parent(at)]
           /\ Key(r.heap, n) = Swapped(k, Parent(at), at)
  <2>1. PICK p, g : p = r.at /\ g = Key(r.heap, n)
    OBVIOUS
  <2>2. p = Parent(at) /\ p \in Nat /\ p < at
    BY <1>8, <2>1, ParentOf
  <2>3. Loose(g, n, p) /\ BelowFits(g, n, p)
    <3>1. n \in Nat /\ at \in 1 .. (n - 1) /\ k[at] < k[Parent(at)]
      BY <1>8
    <3>2. g = Swapped(k, Parent(at), at)
      BY <1>8, <2>1
    <3>3. Loose(g, n, Parent(at)) /\ BelowFits(g, n, Parent(at))
      BY <1>6, <3>1, <3>2, UpStep
    <3>. QED BY <2>2, <3>3
  <2>4. ~AboveFits(k, at)
    <3>1. k[p] \in Int /\ k[at] \in Int /\ at # 0
      BY <1>8, <2>2
    <3>. QED BY <1>8, <2>2, <3>1 DEF AboveFits
  <2>5. p + (m + 1) <= j
    BY <1>6, <2>2, <2>4
  <2>. QED BY <1>4, <2>1, <2>3, <2>5 DEF UpGood
<1>. QED BY <1>5, <1>7, <1>8

\* What siftup does with an element that fits below: it puts the elements in order
\* (priority_queue_timer.cpp:53-67).
LEMMA SiftUpIs ==
  ASSUME NEW N \in Nat, NEW n \in 0 .. N, NEW S, NEW D, NEW h, Kept(h, N, n, S, D),
         NEW j \in 0 .. (n - 1), Loose(Key(h, n), n, j), BelowFits(Key(h, n), n, j),
         NEW r, r = SiftUp(h, j)
  PROVE  Kept(r, N, n, S, D) /\ Ordered(Key(r, n), n)
<1>. DEFINE start == [heap |-> h, at |-> j]
            W == States(N, n, S, D)
            F == [s \in W |-> UpRound(s)]
            Up[k \in 0 .. j] == IF k = 0 THEN start ELSE UpRound(Up[k - 1])
            G == {k \in Nat : k <= j => UpGood(N, n, S, D, j, Up[k], k)}
<1>1. start \in W
  BY StateIs
<1>2. F \in [W -> W]
  <2>1. ASSUME NEW s \in W PROVE UpRound(s) \in W
    BY UpRoundIs
  <2>. HIDE DEF W
  <2>. QED BY <2>1
<1>3. \E f : f = [k \in 0 .. j |-> IF k = 0 THEN start ELSE UpRound(f[k - 1])]
  <2>1. PICK f \in [0 .. j -> W] : \A k \in 0 .. j : f[k] = IF k = 0 THEN start ELSE F[f[k - 1]]
    <3>. HIDE DEF F, start, W, Up, G
    <3>1. \E f \in [0 .. j -> W] : IsLoop(f, start, F, j)
      BY <1>1, <1>2, Rounds
    <3>. QED BY <3>1 DEF IsLoop
  <2>2. ASSUME NEW k \in 0 .. j
        PROVE  f[k] = IF k = 0 THEN start ELSE UpRound(f[k - 1])
    <3>1. CASE k = 0
      BY <2>1, <3>1
    <3>2. CASE k # 0
      <4>1. k - 1 \in 0 .. j
        BY <3>2
      <4>2. f[k - 1] \in W
        BY <2>1, <4>1
      <4>3. F[f[k - 1]] = UpRound(f[k - 1])
        <5>. HIDE DEF W
        <5>. QED BY <4>2
      <4>4. f[k] = F[f[k - 1]]
        <5>. HIDE DEF F, start
        <5>. QED BY <2>1, <3>2
      <4>. QED BY <3>2, <4>3, <4>4
    <3>. QED BY <3>1, <3>2
  <2>3. f = [k \in 0 .. j |-> IF k = 0 THEN start ELSE UpRound(f[k - 1])]
    <3>. HIDE DEF F, start, W
    <3>. QED BY <2>1, <2>2
  <2>. QED BY <2>3
<1>4. Up = [k \in 0 .. j |-> IF k = 0 THEN start ELSE UpRound(Up[k - 1])]
  BY <1>3 DEF Up
<1>5. r = Up[j].heap
  BY DEF SiftUp
<1>6. start.at = j /\ start.heap = h
  OBVIOUS
<1>. HIDE DEF Up, start, F
<1>7. 0 \in G
  <2>1. Up[0] = start
    BY <1>4
  <2>. QED BY <1>1, <1>6, <2>1 DEF UpGood
<1>8. ASSUME NEW m \in Nat, m \in G PROVE m + 1 \in G
  <2>. SUFFICES ASSUME m + 1 <= j PROVE UpGood(N, n, S, D, j, Up[m + 1], m + 1)
    OBVIOUS
  <2>1. UpGood(N, n, S, D, j, Up[m], m)
    BY <1>8
  <2>2. Up[m + 1] = UpRound(Up[m])
    BY <1>4
  <2>. HIDE DEF G
  <2>. QED BY <2>1, <2>2, UpGoes
<1>. HIDE DEF G
<1>9. Nat \subseteq G
  BY <1>7, <1>8, Induction
<1>10. PICK s : s = Up[j]
  OBVIOUS
<1>11. UpGood(N, n, S, D, j, s, j)
  BY <1>9, <1>10 DEF G
<1>12. PICK g \in [0 .. (N - 1) -> Node], at \in 0 .. (n - 1) :
         s = [heap |-> g, at |-> at] /\ Kept(g, N, n, S, D)
  BY <1>11 DEF UpGood, States
<1>13. /\ Loose(Key(g, n), n, at) /\ BelowFits(Key(g, n), n, at)
       /\ at + j <= j \/ AboveFits(Key(g, n), at)
  BY <1>11, <1>12 DEF UpGood
<1>14. AboveFits(Key(g, n), at)
  <2>1. at + j <= j => at = 0
    OBVIOUS
  <2>. QED BY <1>13, <2>1 DEF AboveFits
<1>15. Ordered(Key(g, n), n)
  BY <1>13, <1>14, Stops
<1>. QED BY <1>5, <1>10, <1>12, <1>15

-------------------------------------------------------------------------------
(***************************************************************************)
(* What add_timer, cancel_timer and update do to the heap.                 *)
(***************************************************************************)
\* A vector's size.
LEMMA SizeOf ==
  ASSUME NEW N \in Nat, NEW h \in [0 .. (N - 1) -> Node]
  PROVE  Size(h) = N /\ DOMAIN h = 0 .. (N - 1)
BY FS_Interval DEF Size

\* The vector without its last element (priority_queue_timer.cpp:102).
LEMMA PopBackIs ==
  ASSUME NEW n \in Nat, NEW S, NEW D, NEW h, Kept(h, n + 1, n, S, D), NEW r, r = PopBack(h)
  PROVE  Kept(r, n, n, S, D) /\ Key(r, n) = Key(h, n)
<1>1. h \in [0 .. n -> Node] /\ Size(h) = n + 1 /\ DOMAIN h = 0 .. n
  BY SizeOf DEF Kept
<1>2. (DOMAIN h) \ {Size(h) - 1} = 0 .. (n - 1)
  BY <1>1
<1>3. r = [i \in 0 .. (n - 1) |-> h[i]]
  BY <1>2 DEF PopBack
<1>4. r \in [0 .. (n - 1) -> Node] /\ \A i \in 0 .. (n - 1) : r[i] = h[i]
  BY <1>1, <1>3
<1>5. Key(r, n) = Key(h, n)
  BY <1>4 DEF Key
<1>6. /\ \A i \in 0 .. (n - 1) : h[i].index = i /\ h[i].id \in S /\ h[i].expires = D[h[i].id]
      /\ \A id \in S : \E i \in 0 .. (n - 1) : h[i].id = id
      /\ \A i, j \in 0 .. (n - 1) : h[i].id = h[j].id => i = j
  BY DEF Kept
<1>7. Kept(r, n, n, S, D)
  BY <1>4, <1>6 DEF Kept
<1>. QED BY <1>5, <1>7

\* The last element comes to where one goes; it may be due before its parent, or
\* after its children, there (priority_queue_timer.cpp:95-96).
LEMMA SwapIntoIs ==
  ASSUME NEW n \in Nat, NEW S, NEW D, NEW h, Kept(h, n + 1, n + 1, S, D),
         Ordered(Key(h, n + 1), n + 1), NEW i \in 0 .. (n - 1),
         NEW r, r = SwapInto(h, i, n)
  PROVE  Kept(r, n + 1, n, S \ {h[i].id}, D) /\ Loose(Key(r, n), n, i)
<1>1. /\ h \in [0 .. n -> Node] /\ i \in 0 .. n /\ n \in 0 .. n /\ i # n
      /\ h[i] \in Node /\ h[n] \in Node
  BY DEF Kept
<1>2. PICK x : x = [h[n] EXCEPT !.index = i]
  OBVIOUS
<1>3. x \in Node /\ x.index = i /\ x.id = h[n].id /\ x.expires = h[n].expires
  BY <1>1, <1>2 DEF Node
<1>4. r = [h EXCEPT ![n] = h[i], ![i] = x]
  BY <1>2 DEF SwapInto
<1>5. /\ r \in [0 .. n -> Node] /\ r[i] = x
      /\ \A m \in 0 .. (n - 1) : m # i => r[m] = h[m]
  BY <1>1, <1>3, <1>4
<1>. DEFINE o(m) == IF m = i THEN n ELSE m
<1>6. ASSUME NEW m \in 0 .. (n - 1)
      PROVE  /\ o(m) \in 0 .. n /\ o(m) # i /\ r[m].index = m
             /\ r[m].id = h[o(m)].id /\ r[m].expires = h[o(m)].expires
  <2>1. m \in 0 .. n /\ h[m].index = m
    BY DEF Kept
  <2>. QED BY <1>1, <1>3, <1>5, <2>1
<1>7. ASSUME NEW m \in 0 .. (n - 1)
      PROVE  r[m].index = m /\ r[m].id \in S \ {h[i].id} /\ r[m].expires = D[r[m].id]
  <2>. HIDE DEF o
  <2>1. h[o(m)].id \in S /\ h[o(m)].expires = D[h[o(m)].id] /\ h[o(m)].id # h[i].id
    BY <1>1, <1>6 DEF Kept
  <2>. QED BY <1>6, <2>1
<1>8. ASSUME NEW id \in S \ {h[i].id} PROVE \E m \in 0 .. (n - 1) : r[m].id = id
  <2>1. PICK m \in 0 .. n : h[m].id = id
    BY DEF Kept
  <2>2. m # i
    BY <2>1
  <2>3. CASE m = n
    BY <1>3, <1>5, <2>1, <2>3
  <2>4. CASE m # n
    BY <1>5, <2>1, <2>2, <2>4
  <2>. QED BY <2>3, <2>4
<1>9. ASSUME NEW l \in 0 .. (n - 1), NEW m \in 0 .. (n - 1), r[l].id = r[m].id PROVE l = m
  <2>1. o(l) = o(m)
    <3>. HIDE DEF o
    <3>1. o(l) \in 0 .. n /\ o(m) \in 0 .. n /\ h[o(l)].id = h[o(m)].id
      BY <1>6, <1>9
    <3>2. \A a, b \in 0 .. n : h[a].id = h[b].id => a = b
      BY DEF Kept
    <3>. QED BY <3>1, <3>2
  <2>. QED BY <2>1
<1>10. Kept(r, n + 1, n, S \ {h[i].id}, D)
  BY <1>5, <1>7, <1>8, <1>9 DEF Kept
<1>11. PICK k \in [0 .. n -> Int], s \in [0 .. (n - 1) -> Int] : k = Key(h, n + 1) /\ s = Key(r, n)
  <2>1. n + 1 \in 0 .. (n + 1) /\ n \in 0 .. (n + 1) /\ (n + 1) - 1 = n
    OBVIOUS
  <2>. QED BY <1>1, <1>5, <2>1, KeyIs
<1>12. ASSUME NEW m \in 0 .. (n - 1), m # i PROVE s[m] = k[m]
  <2>1. s[m] = r[m].expires
    BY <1>11 DEF Key
  <2>2. k[m] = h[m].expires
    BY <1>11 DEF Key
  <2>3. r[m] = h[m]
    BY <1>5, <1>12
  <2>. QED BY <2>1, <2>2, <2>3
<1>13. \A c \in 1 .. n : k[Parent(c)] <= k[c]
  BY <1>11 DEF Ordered
<1>14. ASSUME NEW c \in 1 .. (n - 1), c # i, Parent(c) # i PROVE s[Parent(c)] <= s[c]
  <2>1. Parent(c) \in 0 .. (n - 1) /\ c \in 0 .. (n - 1)
    BY ParentIn
  <2>2. c \in 1 .. n
    OBVIOUS
  <2>3. k[Parent(c)] <= k[c]
    BY <1>13, <2>2
  <2>4. s[Parent(c)] = k[Parent(c)] /\ s[c] = k[c]
    BY <1>12, <1>14, <2>1
  <2>. QED BY <2>3, <2>4, Zenon
<1>15. ASSUME NEW c \in 1 .. (n - 1), Parent(c) = i, i # 0 PROVE s[Parent(i)] <= s[c]
  <2>1. i < c /\ c \in 1 .. n
    <3>1. Parent(c) < c
      BY ParentIn
    <3>. QED BY <1>15, <3>1
  <2>2. PICK p \in 0 .. (n - 1) : p = Parent(i) /\ p < i
    <3>1. Parent(i) \in Nat /\ Parent(i) < i
      BY <1>15, ParentOf
    <3>. QED BY <3>1
  <2>3. k[p] <= k[i] /\ k[i] <= k[c]
    <3>1. i \in 1 .. n
      BY <1>15
    <3>. QED BY <1>13, <1>15, <2>1, <2>2, <3>1
  <2>4. k[p] \in Int /\ k[i] \in Int /\ k[c] \in Int
    BY <1>1
  <2>. QED BY <1>12, <2>1, <2>2, <2>3, <2>4
<1>. QED BY <1>10, <1>11, <1>14, <1>15 DEF Loose

\* cancel_timer takes the element at i out, whatever i is, and keeps the rest in
\* order: what comes to its place goes down or else up
\* (priority_queue_timer.cpp:91-102).
LEMMA RemoveIs ==
  ASSUME NEW n \in Nat, NEW S, NEW D, NEW h, Kept(h, n + 1, n + 1, S, D),
         Ordered(Key(h, n + 1), n + 1), NEW i \in 0 .. n,
         NEW r, r = Remove(h, i)
  PROVE  Kept(r, n, n, S \ {h[i].id}, D) /\ Ordered(Key(r, n), n)
<1>1. h \in [0 .. n -> Node] /\ Size(h) - 1 = n /\ n \in 0 .. (n + 1)
  BY SizeOf DEF Kept
<1>2. CASE i = n
  <2>1. r = PopBack(h)
    BY <1>1, <1>2 DEF Remove
  <2>2. Kept(h, n + 1, n, S \ {h[n].id}, D)
    <3>1. \A m \in 0 .. (n - 1) : m \in 0 .. n /\ h[m].id # h[n].id
      BY DEF Kept
    <3>2. \A id \in S \ {h[n].id} : \E m \in 0 .. (n - 1) : h[m].id = id
      <4>1. SUFFICES ASSUME NEW id \in S \ {h[n].id} PROVE \E m \in 0 .. (n - 1) : h[m].id = id
        OBVIOUS
      <4>2. PICK m \in 0 .. n : h[m].id = id
        BY DEF Kept
      <4>3. m # n
        BY <4>2
      <4>. QED BY <4>2, <4>3
    <3>3. \A m \in 0 .. (n - 1) : /\ h[m].index = m /\ h[m].id \in S \ {h[n].id}
                                  /\ h[m].expires = D[h[m].id]
      BY <3>1 DEF Kept
    <3>4. \A l, m \in 0 .. (n - 1) : h[l].id = h[m].id => l = m
      BY <3>1 DEF Kept
    <3>. QED BY <1>1, <3>2, <3>3, <3>4 DEF Kept
  <2>3. Kept(r, n, n, S \ {h[i].id}, D) /\ Key(r, n) = Key(h, n)
    BY <1>2, <2>1, <2>2, PopBackIs
  <2>4. Ordered(Key(h, n), n)
    <3>1. \A c \in 1 .. (n - 1) : /\ c \in 0 .. (n - 1) /\ Parent(c) \in 0 .. (n - 1)
                                  /\ c \in 0 .. n /\ Parent(c) \in 0 .. n /\ c \in 1 .. n
      <4>1. ASSUME NEW c \in 1 .. (n - 1)
            PROVE  c \in 0 .. (n - 1) /\ Parent(c) \in 0 .. (n - 1)
        BY ParentIn
      <4>2. \A x \in 0 .. (n - 1) : x \in 0 .. n
        OBVIOUS
      <4>. QED BY <4>1, <4>2
    <3>2. (n + 1) - 1 = n
      OBVIOUS
    <3>3. \A c \in 0 .. (n - 1) : Key(h, n)[c] = Key(h, n + 1)[c]
      BY <3>2 DEF Key
    <3>4. \A c \in 1 .. n : Key(h, n + 1)[Parent(c)] <= Key(h, n + 1)[c]
      BY <3>2 DEF Ordered
    <3>. QED BY <3>1, <3>3, <3>4 DEF Ordered
  <2>. QED BY <2>3, <2>4
<1>3. CASE i # n
  <2>1. PICK T : T = S \ {h[i].id}
    OBVIOUS
  <2>2. PICK g : g = SwapInto(h, i, n)
    OBVIOUS
  <2>3. i \in 0 .. (n - 1)
    BY <1>3
  <2>4. Kept(g, n + 1, n, T, D) /\ Loose(Key(g, n), n, i)
    BY <2>1, <2>2, <2>3, SwapIntoIs
  <2>5. PICK d : d = SiftDown(g, i, n)
    OBVIOUS
  <2>6. /\ d \in States(n + 1, n, T, D)
        /\ \/ d = [heap |-> g, at |-> i] /\ BelowFits(Key(g, n), n, i)
           \/ d.at > i /\ Ordered(Key(d.heap, n), n)
    <3>1. n + 1 \in Nat
      OBVIOUS
    <3>. QED BY <1>1, <2>3, <2>4, <2>5, <3>1, SiftDownIs
  <2>7. r = PopBack(IF d.at > i THEN d.heap ELSE SiftUp(d.heap, i))
    BY <1>1, <1>3, <2>2, <2>5 DEF Remove
  <2>8. PICK f : f = IF d.at > i THEN d.heap ELSE SiftUp(d.heap, i)
    OBVIOUS
  <2>9. Kept(f, n + 1, n, T, D) /\ Ordered(Key(f, n), n)
    <3>1. CASE d.at > i /\ Ordered(Key(d.heap, n), n)
      <4>1. Kept(d.heap, n + 1, n, T, D)
        BY <2>6 DEF States
      <4>. QED BY <2>8, <3>1, <4>1
    <3>2. CASE d = [heap |-> g, at |-> i] /\ BelowFits(Key(g, n), n, i)
      <4>1. ~(i > i)
        BY <2>3
      <4>2. f = SiftUp(g, i)
        BY <2>8, <3>2, <4>1
      <4>3. n + 1 \in Nat
        OBVIOUS
      <4>. QED BY <1>1, <2>3, <2>4, <3>2, <4>2, <4>3, SiftUpIs
    <3>. QED BY <2>6, <3>1, <3>2
  <2>10. Kept(r, n, n, T, D) /\ Key(r, n) = Key(f, n)
    BY <2>7, <2>8, <2>9, PopBackIs
  <2>. QED BY <2>1, <2>9, <2>10
<1>. QED BY <1>2, <1>3

\* update takes the front out and keeps the rest in order
\* (priority_queue_timer.cpp:119-123).
LEMMA RemoveFrontIs ==
  ASSUME NEW n \in Nat, NEW S, NEW D, NEW h, Kept(h, n + 1, n + 1, S, D),
         Ordered(Key(h, n + 1), n + 1),
         NEW r, r = RemoveFront(h)
  PROVE  Kept(r, n, n, S \ {h[0].id}, D) /\ Ordered(Key(r, n), n)
<1>1. /\ h \in [0 .. n -> Node] /\ Size(h) - 1 = n /\ n \in 0 .. (n + 1)
      /\ 0 \in 0 .. n /\ h[0] \in Node
  BY SizeOf DEF Kept
<1>2. PICK g : g = SwapInto(h, 0, n)
  OBVIOUS
<1>3. PICK d : d = SiftDown(g, 0, n)
  OBVIOUS
<1>4. r = PopBack(d.heap)
  BY <1>1, <1>2, <1>3 DEF RemoveFront
<1>5. CASE n = 0
  <2>1. d = [heap |-> g, at |-> 0]
    <3>. DEFINE start == [heap |-> g, at |-> 0]
                Down[k \in 0 .. n] == IF k = 0 THEN start ELSE DownRound(Down[k - 1], n)
    <3>1. \E f : f = [k \in 0 .. n |-> IF k = 0 THEN start ELSE DownRound(f[k - 1], n)]
      <4>1. [k \in 0 .. n |-> start]
              = [k \in 0 .. n |-> IF k = 0 THEN start
                                  ELSE DownRound([l \in 0 .. n |-> start][k - 1], n)]
        <5>1. \A k \in 0 .. n : k = 0
          BY <1>5
        <5>. HIDE DEF start
        <5>. QED BY <5>1
      <4>. QED BY <4>1
    <3>2. Down = [k \in 0 .. n |-> IF k = 0 THEN start ELSE DownRound(Down[k - 1], n)]
      BY <3>1 DEF Down
    <3>3. d = Down[n]
      BY <1>3 DEF SiftDown
    <3>. HIDE DEF Down, start
    <3>4. d = start
      BY <1>5, <3>2, <3>3
    <3>. QED BY <3>4 DEF start
  <2>2. g \in [0 .. n -> Node]
    <3>1. [h[n] EXCEPT !.index = 0] \in Node
      BY <1>1, <1>5 DEF Node
    <3>. QED BY <1>1, <1>2, <1>5, <3>1 DEF SwapInto
  <2>3. Kept(g, n + 1, n, S \ {h[0].id}, D)
    <3>1. \A id \in S : id = h[0].id
      BY <1>5 DEF Kept
    <3>2. \A m \in 0 .. (n - 1) : FALSE
      BY <1>5
    <3>3. (n + 1) - 1 = n
      OBVIOUS
    <3>. QED BY <2>2, <3>1, <3>2, <3>3 DEF Kept
  <2>4. Kept(r, n, n, S \ {h[0].id}, D)
    BY <1>4, <2>1, <2>3, PopBackIs
  <2>5. Ordered(Key(r, n), n)
    BY <1>5 DEF Ordered
  <2>. QED BY <2>4, <2>5
<1>6. CASE n # 0
  <2>1. PICK T : T = S \ {h[0].id}
    OBVIOUS
  <2>2. 0 \in 0 .. (n - 1) /\ n + 1 \in Nat
    BY <1>6
  <2>3. Kept(g, n + 1, n, T, D) /\ Loose(Key(g, n), n, 0)
    BY <1>2, <2>1, <2>2, SwapIntoIs
  <2>4. /\ d \in States(n + 1, n, T, D)
        /\ \/ d = [heap |-> g, at |-> 0] /\ BelowFits(Key(g, n), n, 0)
           \/ d.at > 0 /\ Ordered(Key(d.heap, n), n)
    BY <1>1, <1>3, <2>2, <2>3, SiftDownIs
  <2>5. Ordered(Key(d.heap, n), n)
    <3>1. CASE d = [heap |-> g, at |-> 0] /\ BelowFits(Key(g, n), n, 0)
      <4>1. AboveFits(Key(g, n), 0) /\ d.heap = g
        BY <3>1 DEF AboveFits
      <4>. QED BY <2>2, <2>3, <3>1, <4>1, Stops
    <3>. QED BY <2>4, <3>1
  <2>6. Kept(d.heap, n + 1, n, T, D)
    BY <2>4 DEF States
  <2>7. Kept(r, n, n, T, D) /\ Key(r, n) = Key(d.heap, n)
    BY <1>4, <2>6, PopBackIs
  <2>. QED BY <2>1, <2>5, <2>7
<1>. QED BY <1>5, <1>6

\* the same due times for the timers of S
Agree(E, D, S) == \A id \in S : E[id] = D[id]

\* add_timer puts the new node behind the last and lets it rise
\* (priority_queue_timer.cpp:69-82).
LEMMA PushIs ==
  ASSUME NEW n \in Nat, NEW S, NEW D, NEW h, Kept(h, n, n, S, D), Ordered(Key(h, n), n),
         NEW w \in [0 .. n -> Node], \A i \in 0 .. (n - 1) : w[i] = h[i],
         w[n].index = n, w[n].id \notin S,
         NEW E, E[w[n].id] = w[n].expires, Agree(E, D, S),
         NEW r, r = SiftUp(w, n)
  PROVE  Kept(r, n + 1, n + 1, S \cup {w[n].id}, E) /\ Ordered(Key(r, n + 1), n + 1)
<1>2. PICK fresh \in Node : fresh = w[n]
  OBVIOUS
<1>1. h \in [0 .. (n - 1) -> Node]
  BY DEF Kept
<1>3. PICK T : T = S \cup {fresh.id}
  OBVIOUS
<1>4. /\ w \in [0 .. n -> Node] /\ w[n] = fresh /\ n \in 0 .. n
      /\ \A i \in 0 .. n : i # n => i \in 0 .. (n - 1) /\ w[i] = h[i]
  BY <1>1, <1>2
<1>5. ASSUME NEW i \in 0 .. n
      PROVE  w[i].index = i /\ w[i].id \in T /\ w[i].expires = E[w[i].id]
  <2>1. CASE i = n
    BY <1>2, <1>3, <1>4, <2>1
  <2>2. CASE i # n
    <3>1. i \in 0 .. (n - 1) /\ w[i] = h[i]
      BY <1>4, <2>2
    <3>2. h[i].index = i /\ h[i].id \in S /\ h[i].expires = D[h[i].id]
      BY <3>1 DEF Kept
    <3>3. E[h[i].id] = D[h[i].id]
      BY <3>2 DEF Agree
    <3>. QED BY <1>3, <3>1, <3>2, <3>3
  <2>. QED BY <2>1, <2>2
<1>6. ASSUME NEW id \in T PROVE \E i \in 0 .. n : w[i].id = id
  <2>1. CASE id = fresh.id
    BY <1>4, <2>1
  <2>2. CASE id \in S
    <3>1. PICK i \in 0 .. (n - 1) : h[i].id = id
      BY <2>2 DEF Kept
    <3>2. i \in 0 .. n /\ i # n
      OBVIOUS
    <3>. QED BY <1>4, <3>1, <3>2
  <2>. QED BY <1>3, <2>1, <2>2
<1>7. ASSUME NEW i \in 0 .. n, NEW j \in 0 .. n, w[i].id = w[j].id PROVE i = j
  <2>1. \A l \in 0 .. n : l # n => w[l].id # fresh.id
    BY <1>2, <1>4 DEF Kept
  <2>2. CASE i = n \/ j = n
    BY <1>4, <1>7, <2>1, <2>2
  <2>3. CASE i # n /\ j # n
    <3>1. i \in 0 .. (n - 1) /\ j \in 0 .. (n - 1) /\ h[i].id = h[j].id
      BY <1>4, <1>7, <2>3
    <3>. QED BY <3>1 DEF Kept
  <2>. QED BY <2>2, <2>3
<1>8. n + 1 \in Nat /\ (n + 1) - 1 = n /\ n + 1 \in 0 .. (n + 1)
  OBVIOUS
<1>9. Kept(w, n + 1, n + 1, T, E)
  BY <1>4, <1>5, <1>6, <1>7, <1>8 DEF Kept
<1>10. PICK k \in [0 .. (n - 1) -> Int], s \in [0 .. n -> Int] : k = Key(h, n) /\ s = Key(w, n + 1)
  <2>1. n \in 0 .. n
    OBVIOUS
  <2>2. Key(h, n) \in [0 .. (n - 1) -> Int]
    BY <1>1, <2>1, KeyIs
  <2>3. Key(w, n + 1) \in [0 .. n -> Int]
    BY <1>4, <1>8, KeyIs
  <2>. QED BY <2>2, <2>3
<1>11. \A c \in 1 .. n : Parent(c) \in 0 .. (n - 1)
  <2>1. \A c \in 1 .. n : c \in Nat \ {0}
    OBVIOUS
  <2>2. \A c \in 1 .. n : Parent(c) \in Nat /\ Parent(c) < c
    BY <2>1, ParentOf
  <2>. QED BY <2>2
<1>12. Loose(s, n + 1, n) /\ BelowFits(s, n + 1, n)
  <2>1. \A c \in 1 .. n : Parent(c) # n
    BY <1>11
  <2>2. ASSUME NEW c \in 1 .. n, c # n PROVE s[Parent(c)] <= s[c]
    <3>1. c \in 0 .. (n - 1) /\ c \in 1 .. (n - 1) /\ Parent(c) \in 0 .. (n - 1)
      BY <1>11, <2>2
    <3>2. k[Parent(c)] <= k[c]
      BY <1>10, <3>1 DEF Ordered
    <3>3. \A l \in 0 .. (n - 1) : s[l] = k[l]
      <4>1. \A l \in 0 .. (n - 1) : l \in 0 .. n /\ l # n
        OBVIOUS
      <4>. QED BY <1>4, <1>10, <4>1 DEF Key
    <3>. QED BY <3>1, <3>2, <3>3
  <2>. QED BY <1>8, <2>1, <2>2 DEF Loose, BelowFits
<1>13. Kept(r, n + 1, n + 1, T, E) /\ Ordered(Key(r, n + 1), n + 1)
  BY <1>4, <1>8, <1>9, <1>10, <1>12, SiftUpIs
<1>. QED BY <1>2, <1>3, <1>13

-------------------------------------------------------------------------------
(***************************************************************************)
(* The inductive invariant.  QueueSound is one, but for a timer that was   *)
(* not added yet: it must not have left.                                   *)
(***************************************************************************)
\* the timers that neither were cancelled nor came due
Live == {id \in TimerIds : id < counter /\ left[id] = "no"}

\* the heap holds N timers, in order
HeapIs(N) == Kept(heap, N, N, Live, due) /\ Ordered(Key(heap, N), N)

Types ==
  /\ counter \in 0 .. MaxTimers
  /\ clock \in Int /\ seen \in Int
  /\ updating \in BOOLEAN /\ crashed \in BOOLEAN
  /\ running \in TimerIds \cup {None}
  /\ due \in [TimerIds -> Int]
  /\ left \in [TimerIds -> {"no", "cancelled", "popped"}]

NotYet == \A id \in TimerIds : id >= counter => left[id] = "no"

IInv == Types /\ NotYet /\ \E N \in Nat : HeapIs(N)

\* The invariant is what the run checks.
LEMMA Sound == IInv => QueueSound
<1>. SUFFICES ASSUME IInv PROVE QueueSound
  OBVIOUS
<1>1. PICK n \in Nat : HeapIs(n)
  BY DEF IInv
<1>2. heap \in [0 .. (n - 1) -> Node] /\ Size(heap) = n
  BY <1>1, SizeOf DEF HeapIs, Kept
<1>3. TypeOK
  BY <1>2 DEF IInv, Types, TypeOK
<1>4. HeapOrdered
  <2>. SUFFICES ASSUME NEW i \in 1 .. (n - 1)
                PROVE  heap[Parent(i)].expires <= heap[i].expires
    BY <1>2 DEF HeapOrdered, Parent
  <2>1. Key(heap, n)[Parent(i)] <= Key(heap, n)[i]
    BY <1>1 DEF HeapIs, Ordered
  <2>2. Parent(i) \in 0 .. (n - 1)
    <3>1. i \in Nat \ {0} /\ Parent(i) \in Nat /\ Parent(i) < i
      BY ParentOf
    <3>. QED BY <3>1
  <2>. QED BY <2>1, <2>2 DEF Key
<1>5. IndexExact
  BY <1>1, <1>2 DEF HeapIs, Kept, IndexExact
<1>6. MembersExact
  <2>1. {heap[i].id : i \in DOMAIN heap} = Live
    BY <1>1, <1>2 DEF HeapIs, Kept
  <2>2. \A i, j \in DOMAIN heap : heap[i].id = heap[j].id => i = j
    BY <1>1, <1>2 DEF HeapIs, Kept
  <2>3. \A i \in DOMAIN heap : heap[i].expires = due[heap[i].id]
    BY <1>1, <1>2 DEF HeapIs, Kept
  <2>. QED BY <2>1, <2>2, <2>3 DEF MembersExact, Live
<1>. QED BY <1>3, <1>4, <1>5, <1>6 DEF QueueSound

\* A step that leaves heap and timers alone.
LEMMA Untouched ==
  ASSUME IInv, UNCHANGED <<heap, counter, due, left>>, Types'
  PROVE  IInv'
<1>1. PICK n \in Nat : HeapIs(n)
  BY DEF IInv
<1>2. HeapIs(n)'
  BY <1>1 DEF HeapIs, Live
<1>3. NotYet'
  BY DEF IInv, NotYet
<1>. QED BY <1>2, <1>3 DEF IInv

\* The timer in slot i leaves.
LEMMA Leaves ==
  ASSUME IInv, NEW n \in Nat, HeapIs(n + 1), NEW i \in 0 .. n,
         Kept(heap', n, n, Live \ {heap[i].id}, due), Ordered(Key(heap', n), n),
         NEW how \in {"cancelled", "popped"}, left' = [left EXCEPT ![heap[i].id] = how],
         UNCHANGED <<counter, due>>, Types'
  PROVE  IInv'
<1>1. heap[i].id \in Live /\ heap[i].id \in TimerIds
  BY DEF HeapIs, Kept, Live
<1>2. PICK id \in TimerIds : id = heap[i].id /\ id \in Live
  BY <1>1
<1>3. left \in [TimerIds -> {"no", "cancelled", "popped"}] /\ counter \in Nat /\ id < counter
  BY <1>2, QueueAssumption DEF IInv, Types, Live
<1>4. Live' = Live \ {id}
  <2>1. \A x \in TimerIds : left'[x] = IF x = id THEN how ELSE left[x]
    BY <1>2, <1>3
  <2>2. how # "no" /\ counter' = counter
    OBVIOUS
  <2>. QED BY <2>1, <2>2 DEF Live
<1>5. NotYet'
  <2>1. \A x \in TimerIds : x >= counter => x # id
    BY <1>3 DEF TimerIds
  <2>. QED BY <1>2, <1>3, <2>1 DEF NotYet, IInv
<1>6. HeapIs(n)'
  BY <1>2, <1>4 DEF HeapIs
<1>. QED BY <1>5, <1>6 DEF IInv

LEMMA AddTimerKeeps ==
  ASSUME IInv, NEW ms_time \in Delays, NEW cb \in CbKinds, AddTimer(ms_time, cb) PROVE IInv'
<1>1. PICK n \in Nat : HeapIs(n)
  BY DEF IInv
<1>2. heap \in [0 .. (n - 1) -> Node] /\ Size(heap) = n
  BY <1>1, SizeOf DEF HeapIs, Kept
<1>3. PICK id : id = counter
  OBVIOUS
<1>4. PICK e \in Int : e = clock + ms_time
  BY QueueAssumption DEF IInv, Types
<1>5. id \in TimerIds /\ id \in Nat /\ id + 1 \in 0 .. MaxTimers /\ cb \in BOOLEAN
  BY <1>3, QueueAssumption DEF AddTimer, IInv, Types, TimerIds
<1>6. PICK fresh \in Node : fresh = [id |-> id, expires |-> e, index |-> n, cb |-> cb]
  BY <1>4, <1>5 DEF Node
<1>7. fresh.id = id /\ fresh.expires = e /\ fresh.index = n
  BY <1>6
<1>8. /\ heap' = SiftUp([i \in 0 .. n |-> IF i = n THEN fresh ELSE heap[i]], n)
      /\ due' = [due EXCEPT ![id] = e] /\ counter' = id + 1 /\ left' = left
      /\ UNCHANGED <<clock, updating, seen, running, crashed>>
  BY <1>2, <1>3, <1>4, <1>6 DEF AddTimer
<1>9. id \notin Live /\ \A x \in Live : due'[x] = due[x]
  <2>1. id \notin Live /\ Live \subseteq TimerIds
    BY <1>3, <1>5 DEF Live
  <2>. QED BY <1>8, <2>1 DEF IInv, Types
<1>10. due'[id] = e
  BY <1>5, <1>8 DEF IInv, Types
<1>11. PICK E, g : E = due' /\ g = heap'
  OBVIOUS
<1>12. Kept(g, n + 1, n + 1, Live \cup {id}, E) /\ Ordered(Key(g, n + 1), n + 1)
  <2>1. Kept(heap, n, n, Live, due) /\ Ordered(Key(heap, n), n)
    BY <1>1 DEF HeapIs
  <2>2. Agree(E, due, Live)
    BY <1>9, <1>11 DEF Agree
  <2>3. PICK w : w = [i \in 0 .. n |-> IF i = n THEN fresh ELSE heap[i]]
    OBVIOUS
  <2>4. w \in [0 .. n -> Node] /\ w[n] = fresh /\ \A i \in 0 .. (n - 1) : w[i] = heap[i]
    BY <1>2, <2>3
  <2>5. g = SiftUp(w, n)
    BY <1>8, <1>11, <2>3
  <2>6. /\ w[n].index = n /\ w[n].id = id /\ w[n].id \notin Live
        /\ E[w[n].id] = w[n].expires
    BY <1>7, <1>9, <1>10, <1>11, <2>4
  <2>7. Kept(g, n + 1, n + 1, Live \cup {w[n].id}, E) /\ Ordered(Key(g, n + 1), n + 1)
    BY <2>1, <2>2, <2>4, <2>5, <2>6, PushIs
  <2>. QED BY <2>6, <2>7
<1>13. Live' = Live \cup {id}
  <2>1. left[id] = "no" /\ id \in TimerIds
    BY <1>3, <1>5 DEF IInv, NotYet
  <2>2. \A x \in TimerIds : x < id + 1 <=> x < id \/ x = id
    BY <1>5 DEF TimerIds
  <2>. QED BY <1>3, <1>8, <2>1, <2>2 DEF Live
<1>14. HeapIs(n + 1)'
  BY <1>11, <1>12, <1>13 DEF HeapIs
<1>15. Types'
  BY <1>4, <1>5, <1>8 DEF IInv, Types
<1>16. NotYet'
  <2>1. \A x \in TimerIds : x >= id + 1 => x >= id
    BY <1>5 DEF TimerIds
  <2>. QED BY <1>3, <1>8, <2>1 DEF IInv, NotYet
<1>. QED BY <1>14, <1>15, <1>16 DEF IInv

\* The index of the element that the search found is its place, so that it is the one
\* removed (priority_queue_timer.cpp:84-107).
LEMMA CancelTimerKeeps ==
  ASSUME IInv, NEW id \in TimerIds, CancelTimer(id) PROVE IInv'
<1>1. PICK N \in Nat : HeapIs(N)
  BY DEF IInv
<1>2. heap \in [0 .. (N - 1) -> Node] /\ DOMAIN heap = 0 .. (N - 1)
  BY <1>1, SizeOf DEF HeapIs, Kept
<1>3. PICK idx \in DOMAIN heap : heap[idx].id = id /\ heap' = Remove(heap, heap[idx].index)
  BY DEF CancelTimer
<1>4. heap[idx].index = idx /\ idx \in 0 .. (N - 1)
  BY <1>1, <1>2 DEF HeapIs, Kept
<1>5. PICK n \in Nat : N = n + 1
  <2>1. N - 1 \in Nat /\ N = (N - 1) + 1
    BY <1>4
  <2>. QED BY <2>1
<1>6. HeapIs(n + 1) /\ idx \in 0 .. n
  BY <1>1, <1>4, <1>5
<1>7. PICK g : g = heap'
  OBVIOUS
<1>8. g = Remove(heap, idx)
  BY <1>3, <1>4, <1>7
<1>9. Kept(g, n, n, Live \ {heap[idx].id}, due) /\ Ordered(Key(g, n), n)
  BY <1>6, <1>8, RemoveIs DEF HeapIs
<1>10. /\ left' = [left EXCEPT ![heap[idx].id] = "cancelled"]
       /\ UNCHANGED <<counter, clock, updating, seen, running, crashed, due>>
  BY <1>3 DEF CancelTimer
<1>11. Types'
  BY <1>10 DEF IInv, Types
<1>. QED BY <1>6, <1>7, <1>9, <1>10, <1>11, Leaves

\* The front leaves, whoever's callback is called then
\* (priority_queue_timer.cpp:114-127).
LEMMA PopAndCallKeeps == ASSUME IInv, PopAndCall PROVE IInv'
<1>1. PICK N \in Nat : HeapIs(N)
  BY DEF IInv
<1>2. heap \in [0 .. (N - 1) -> Node] /\ DOMAIN heap = 0 .. (N - 1) /\ Size(heap) = N
  BY <1>1, SizeOf DEF HeapIs, Kept
<1>3. N # 0
  BY <1>2 DEF PopAndCall, FrontDue
<1>4. PICK n \in Nat : N = n + 1
  <2>1. N - 1 \in Nat /\ N = (N - 1) + 1
    BY <1>3
  <2>. QED BY <2>1
<1>5. HeapIs(n + 1) /\ 0 \in 0 .. n /\ heap[0] \in Node
  BY <1>1, <1>2, <1>4
<1>6. PICK g : g = heap'
  OBVIOUS
<1>7. Kept(g, n, n, Live \ {heap[0].id}, due) /\ Ordered(Key(g, n), n)
  <2>1. g = RemoveFront(heap)
    BY <1>6 DEF PopAndCall
  <2>. QED BY <1>5, <2>1, RemoveFrontIs DEF HeapIs
<1>8. /\ left' = [left EXCEPT ![heap[0].id] = "popped"]
      /\ UNCHANGED <<counter, clock, updating, seen, due>>
  BY DEF PopAndCall
<1>9. /\ heap[0].cb \in BOOLEAN /\ heap[0].id \in TimerIds
      /\ n # 0 => g[0].cb \in BOOLEAN /\ g[0].id \in TimerIds
  <2>1. heap[0].cb \in BOOLEAN /\ heap[0].id \in TimerIds
    BY <1>5 DEF Node
  <2>2. n # 0 => g[0] \in Node
    BY <1>7 DEF Kept
  <2>. QED BY <2>1, <2>2 DEF Node
<1>10. running' \in TimerIds \cup {None} /\ crashed' \in BOOLEAN
  <2>1. CASE N > 1
    <3>1. n # 0
      BY <1>4, <2>1
    <3>2. running' = (IF g[0].cb THEN g[0].id ELSE None) /\ crashed' = FALSE
      BY <1>2, <1>6, <2>1 DEF PopAndCall
    <3>. QED BY <1>9, <3>1, <3>2
  <2>2. CASE N = 1
    <3>1. \/ running' = (IF heap[0].cb THEN heap[0].id ELSE None) /\ crashed' = FALSE
          \/ running' = None /\ crashed' = heap[0].cb
      BY <1>2, <2>2 DEF PopAndCall
    <3>. QED BY <1>9, <3>1
  <2>. QED BY <1>3, <2>1, <2>2
<1>11. Types'
  BY <1>8, <1>10 DEF IInv, Types
<1>. QED BY <1>5, <1>6, <1>7, <1>8, <1>11, Leaves

\* IInv holds in every state that can be reached, with any number of timers, delays
\* and movements of the clock.
THEOREM Invariant == Spec => []IInv
<1>1. Init => IInv
  <2>. SUFFICES ASSUME Init PROVE IInv
    OBVIOUS
  <2>1. Types /\ NotYet
    <3>1. /\ counter = 0 /\ 0 \in 0 .. MaxTimers /\ clock = 0 /\ seen = 0
          /\ running = None
      BY QueueAssumption DEF Init
    <3>a. updating \in BOOLEAN /\ crashed \in BOOLEAN
      BY DEF Init
    <3>2. /\ due \in [TimerIds -> Int]
          /\ left \in [TimerIds -> {"no", "cancelled", "popped"}]
          /\ \A id \in TimerIds : left[id] = "no"
      BY DEF Init
    <3>. QED BY <3>1, <3>a, <3>2 DEF Types, NotYet
  <2>2. Live = {}
    BY DEF Init, Live, TimerIds
  <2>3. heap \in [0 .. (0 - 1) -> Node]
    BY DEF Init
  <2>4. HeapIs(0)
    BY <2>2, <2>3 DEF HeapIs, Kept, Ordered
  <2>. QED BY <2>1, <2>4 DEF IInv
<1>2. IInv /\ [Next]_vars => IInv'
  <2>. SUFFICES ASSUME IInv, [Next]_vars PROVE IInv'
    OBVIOUS
  <2>1. ASSUME NEW ms_time \in Delays, NEW cb \in CbKinds, AddTimer(ms_time, cb) PROVE IInv'
    BY <2>1, AddTimerKeeps
  <2>2. ASSUME NEW id \in TimerIds, CancelTimer(id) PROVE IInv'
    BY <2>2, CancelTimerKeeps
  <2>3. CASE BeginUpdate
    <3>1. Types'
      BY <2>3 DEF IInv, Types, BeginUpdate
    <3>. QED BY <2>3, <3>1, Untouched DEF BeginUpdate
  <2>4. CASE PopAndCall
    BY <2>4, PopAndCallKeeps
  <2>5. CASE CallbackReturns
    <3>1. Types'
      BY <2>5 DEF IInv, Types, CallbackReturns
    <3>. QED BY <2>5, <3>1, Untouched DEF CallbackReturns
  <2>6. CASE EndUpdate
    <3>1. Types'
      BY <2>6 DEF IInv, Types, EndUpdate
    <3>. QED BY <2>6, <3>1, Untouched DEF EndUpdate
  <2>7. ASSUME NEW d \in ClockMoves, ClockMoved(d) PROVE IInv'
    <3>1. clock + d \in Int
      BY QueueAssumption DEF IInv, Types
    <3>2. Types'
      BY <2>7, <3>1 DEF IInv, Types, ClockMoved
    <3>. QED BY <2>7, <3>2, Untouched DEF ClockMoved
  <2>8. CASE UNCHANGED vars
    <3>1. Types'
      BY <2>8 DEF IInv, Types, vars
    <3>. QED BY <2>8, <3>1, Untouched DEF vars
  <2>. QED BY <2>1, <2>2, <2>3, <2>4, <2>5, <2>6, <2>7, <2>8 DEF Next
<1>. QED BY <1>1, <1>2, PTL DEF Spec

\* The heap is in order, every index is the element's place and the members are the
\* timers that neither were cancelled nor came due, after any adds, cancels from the
\* middle and re-entrant callbacks (priority_queue_timer.cpp:25-129).
THEOREM QueueStaysSound == Spec => []QueueSound
BY Invariant, Sound, PTL

\* When update returns nothing in the heap was due when it read the clock
\* (priority_queue_timer.cpp:109-129).
THEOREM UpdateDrains == Spec => NothingDueLeft
<1>1. IInv /\ [Next]_vars
        => [updating /\ ~updating' => \A i \in DOMAIN heap' : heap'[i].expires > seen]_vars
  <2>. SUFFICES ASSUME IInv, [Next]_vars, updating, ~updating', NEW i \in DOMAIN heap'
                PROVE  heap'[i].expires > seen
    OBVIOUS
  <2>1. EndUpdate
    BY DEF Next, vars, AddTimer, CancelTimer, BeginUpdate, PopAndCall, CallbackReturns, ClockMoved
  <2>2. PICK n \in Nat : HeapIs(n)
    BY DEF IInv
  <2>3. heap \in [0 .. (n - 1) -> Node] /\ heap' = heap /\ i \in 0 .. (n - 1) /\ seen \in Int
    BY <2>1, <2>2 DEF HeapIs, Kept, EndUpdate, IInv, Types
  <2>4. PICK k \in [0 .. (n - 1) -> Int] : k = Key(heap, n)
    <3>1. n \in 0 .. n
      OBVIOUS
    <3>. QED BY <2>3, <3>1, KeyIs
  <2>5. 0 \in 0 .. (n - 1) /\ k[0] = heap[0].expires /\ k[i] = heap[i].expires
    BY <2>3, <2>4 DEF Key
  <2>6. ~(heap[0].expires <= seen)
    BY <2>1, <2>3 DEF EndUpdate, FrontDue
  <2>7. k[0] <= k[i]
    BY <2>2, <2>3, <2>4, RootIsLeast DEF HeapIs
  <2>. QED BY <2>3, <2>5, <2>6, <2>7
<1>. QED BY <1>1, Invariant, PTL DEF Spec, NothingDueLeft
===============================================================================
