---------------------------- MODULE ContainersProofs ----------------------------
(***************************************************************************)
(* FindExact, SearchExact and ArraysApart hold in every behaviour of Trie,  *)
(* for any characters, keys, statuses and blocks of memory; TreeFinds in    *)
(* every behaviour of HashTree, for any keys, values and SIZE above 1; and  *)
(* ScanIsCurrent in every behaviour of Epoller, for any descriptors, length *)
(* of the array and size of an event.                                       *)
(***************************************************************************)
EXTENDS Containers, FiniteSetTheorems, SequenceTheorems, WellFoundedInduction, TLAPS

(***************************************************************************)
(* The tree in a memory of nodes nd and index entries ix, of which N nodes  *)
(* are made.  What the operators of Trie say of node and index is said here *)
(* of any memory: during the move of an array it is said of the memory as   *)
(* it is once pIndex is stored.                                             *)
(***************************************************************************)
NodeRec  == [pIndex : Nat, status : Statuses \cup {None}, size : 0 .. Cardinality(Chars)]
EntryRec == [pNode : 0 .. (MaxNode - 1), ch : Chars \cup {None}]

Memory(nd, ix) ==
  nd \in [0 .. (MaxNode - 1) -> NodeRec] /\ ix \in [0 .. (MaxIndex - 1) -> EntryRec]

\* the array of a node, and its entries by their place there
ArrayOf(nd, n)    == Entries(nd[n].pIndex, nd[n].size)
Places(nd, n)     == 0 .. (nd[n].size - 1)
Entry(nd, ix, n, d) == ix[nd[n].pIndex + d]

\* Every child is a node made, with one parent, and a character of its own there.
Tree(nd, ix, N) ==
  /\ N \in 1 .. MaxNode
  /\ \A n \in 0 .. (N - 1) : ArrayOf(nd, n) \subseteq 1 .. (MaxIndex - 1)
  /\ \A n \in 0 .. (N - 1) : \A d \in Places(nd, n) :
       Entry(nd, ix, n, d).ch \in Chars /\ Entry(nd, ix, n, d).pNode \in 1 .. (N - 1)
  /\ \A n \in 0 .. (N - 1) : \A d, e \in Places(nd, n) :
       Entry(nd, ix, n, d).ch = Entry(nd, ix, n, e).ch => d = e
  /\ \A n, m \in 0 .. (N - 1) : \A d \in Places(nd, n), e \in Places(nd, m) :
       Entry(nd, ix, n, d).pNode = Entry(nd, ix, m, e).pNode => n = m /\ d = e

\* GetNextNode, and Find with all that it comes by
Hop(nd, ix, n, ch) ==
  LET hits == {x \in DOMAIN ix : /\ x \in nd[n].pIndex .. (nd[n].pIndex + nd[n].size - 1)
                                 /\ ix[x].ch = ch}
  IN IF hits = {} THEN None ELSE ix[Min(hits)].pNode

WalkOf(nd, ix, key) ==
  LET walk[i \in 0 .. Len(key)] ==
        IF i = 0 THEN 0
        ELSE IF walk[i - 1] = None THEN None ELSE Hop(nd, ix, walk[i - 1], key[i])
  IN walk

\* where each character leads, from each of N nodes
Hops(nd, ix, N) == [p \in (0 .. (N - 1)) \X Chars |-> Hop(nd, ix, p[1], p[2])]

Forest(H, N) ==
  /\ N \in Nat \ {0}
  /\ H \in [(0 .. (N - 1)) \X Chars -> {None} \cup 1 .. (N - 1)]
  /\ \A p, q \in (0 .. (N - 1)) \X Chars : H[p] = H[q] /\ H[p] # None => p = q

IsWalk(w, H, N, key) ==
  /\ w \in [0 .. Len(key) -> {None} \cup 0 .. (N - 1)]
  /\ w[0] = 0
  /\ \A i \in 1 .. Len(key) :
       w[i] = IF w[i - 1] = None THEN None ELSE H[<<w[i - 1], key[i]>>]

\* what a loop leaves after each of its rounds
IsLoop(f, x, F, N) == \A n \in 0 .. N : f[n] = IF n = 0 THEN x ELSE F[n][f[n - 1]]

-------------------------------------------------------------------------------
\* Induction, for a set: the numbers are well-founded.
LEMMA Induction ==
  ASSUME NEW S, 0 \in S, \A n \in Nat : n \in S => n + 1 \in S
  PROVE  Nat \subseteq S
<1>. DEFINE T == Nat \ S
<1>1. SUFFICES ASSUME T # {} PROVE FALSE
  OBVIOUS
<1>2. PICK m \in T : \A n \in T : ~(<<n, m>> \in OpToRel(<, Nat))
  <2>1. T \subseteq Nat
    OBVIOUS
  <2>. QED BY <1>1, <2>1, NatLessThanWellFounded, WFMin
<1>3. \A n \in T : ~(n < m)
  BY <1>2 DEF OpToRel
<1>4. m \in Nat /\ m # 0 /\ m - 1 \in Nat
  OBVIOUS
<1>5. m - 1 \in S
  BY <1>3, <1>4
<1>6. (m - 1) + 1 \in S
  BY <1>4, <1>5
<1>. QED BY <1>4, <1>6

\* A loop of N rounds, each a function of its number and of what the round before
\* left, has a result after every round.
LEMMA Rounds ==
  ASSUME NEW S, NEW x \in S, NEW F \in [Nat -> [S -> S]], NEW N \in Nat
  PROVE  \E f \in [0 .. N -> S] : IsLoop(f, x, F, N)
<1>. USE DEF IsLoop
<1>. DEFINE Is(f, m) == f \in [0 .. m -> S] /\ IsLoop(f, x, F, m)
            T == {m \in Nat : \E f : Is(f, m)}
<1>1. 0 \in T
  <2>1. Is([n \in 0 .. 0 |-> x], 0)
    OBVIOUS
  <2>. QED BY <2>1
<1>2. ASSUME NEW m \in Nat, m \in T PROVE m + 1 \in T
  <2>1. PICK f : Is(f, m)
    BY <1>2
  <2>. DEFINE g == [n \in 0 .. (m + 1) |-> IF n <= m THEN f[n] ELSE F[m + 1][f[m]]]
  <2>2. f[m] \in S /\ F[m + 1][f[m]] \in S
    BY <2>1
  <2>3. ASSUME NEW n \in 0 .. (m + 1)
        PROVE  g[n] \in S /\ g[n] = IF n = 0 THEN x ELSE F[n][g[n - 1]]
    <3>1. CASE n = 0
      BY <2>1, <3>1
    <3>2. CASE n # 0 /\ n <= m
      <4>1. n \in 0 .. m /\ n - 1 \in 0 .. (m + 1) /\ n - 1 <= m
        BY <3>2
      <4>2. g[n] = f[n] /\ g[n - 1] = f[n - 1]
        BY <4>1
      <4>3. f[n] = F[n][f[n - 1]] /\ f[n] \in S
        BY <2>1, <3>2, <4>1
      <4>. QED BY <3>2, <4>2, <4>3
    <3>3. CASE n = m + 1
      <4>1. n - 1 = m /\ m \in 0 .. (m + 1) /\ ~(n <= m) /\ n # 0
        BY <3>3
      <4>. QED BY <2>2, <3>3, <4>1
    <3>. QED BY <3>1, <3>2, <3>3
  <2>4. Is(g, m + 1)
    BY <2>3
  <2>. HIDE DEF Is, g
  <2>. QED BY <2>4
<1>. HIDE DEF Is
<1>3. Nat \subseteq T
  BY <1>1, <1>2, Induction
<1>4. \E f : Is(f, N)
  BY <1>3
<1>. QED BY <1>4 DEF Is

-------------------------------------------------------------------------------
(***************************************************************************)
(* Walks.                                                                  *)
(***************************************************************************)
\* Every set of numbers has a least one.
LEMMA LeastIn ==
  ASSUME NEW S, S \subseteq Nat, S # {}
  PROVE  Min(S) \in S /\ \A n \in S : Min(S) <= n
<1>1. PICK m \in S : \A n \in S : ~(<<n, m>> \in OpToRel(<, Nat))
  BY NatLessThanWellFounded, WFMin
<1>2. \A n \in S : ~(n < m)
  BY <1>1 DEF OpToRel
<1>3. \A n \in S : m <= n
  BY <1>2
<1>. QED BY <1>3 DEF Min

\* In any memory GetNextNode gives a node or NULL.
LEMMA HopType ==
  ASSUME NEW nd, NEW ix, Memory(nd, ix), NEW n, NEW ch
  PROVE  Hop(nd, ix, n, ch) \in {None} \cup 0 .. (MaxNode - 1)
<1>. DEFINE hits == {x \in DOMAIN ix : /\ x \in nd[n].pIndex .. (nd[n].pIndex + nd[n].size - 1)
                                       /\ ix[x].ch = ch}
<1>1. hits \subseteq DOMAIN ix /\ DOMAIN ix = 0 .. (MaxIndex - 1) /\ MaxIndex \in Nat
  BY TrieAssumption DEF Memory
<1>2. Hop(nd, ix, n, ch) = IF hits = {} THEN None ELSE ix[Min(hits)].pNode
  BY DEF Hop
<1>. HIDE DEF hits
<1>3. ASSUME hits # {} PROVE ix[Min(hits)].pNode \in 0 .. (MaxNode - 1)
  <2>1. hits \subseteq Nat
    BY <1>1
  <2>2. Min(hits) \in 0 .. (MaxIndex - 1)
    BY <1>1, <1>3, <2>1, LeastIn
  <2>. QED BY <2>2 DEF Memory, EntryRec
<1>. QED BY <1>2, <1>3

\* GetNextNode finds the entry with the character (trie.h:250-267).
LEMMA HopIs ==
  ASSUME NEW nd, NEW ix, Memory(nd, ix), NEW N, Tree(nd, ix, N), NEW n \in 0 .. (N - 1),
         NEW ch
  PROVE  /\ \A d \in Places(nd, n) :
              Entry(nd, ix, n, d).ch = ch => Hop(nd, ix, n, ch) = Entry(nd, ix, n, d).pNode
         /\ (\A d \in Places(nd, n) : Entry(nd, ix, n, d).ch # ch) => Hop(nd, ix, n, ch) = None
<1>. DEFINE hits == {x \in DOMAIN ix : /\ x \in nd[n].pIndex .. (nd[n].pIndex + nd[n].size - 1)
                                       /\ ix[x].ch = ch}
<1>1. /\ DOMAIN ix = 0 .. (MaxIndex - 1) /\ MaxIndex \in Nat /\ MaxNode \in Nat /\ N \in 1 .. MaxNode
      /\ ArrayOf(nd, n) \subseteq 1 .. (MaxIndex - 1)
  BY TrieAssumption DEF Memory, Tree
<1>2. nd[n] \in NodeRec
  BY <1>1 DEF Memory
<1>3. nd[n].pIndex \in Nat /\ nd[n].size \in Int
  BY <1>2 DEF NodeRec
<1>4. hits = {x \in ArrayOf(nd, n) : ix[x].ch = ch}
  BY <1>1 DEF ArrayOf, Entries
<1>5. Hop(nd, ix, n, ch) = IF hits = {} THEN None ELSE ix[Min(hits)].pNode
  BY DEF Hop
<1>. HIDE DEF hits
<1>6. ASSUME NEW x \in ArrayOf(nd, n)
      PROVE  \E d \in Places(nd, n) : x = nd[n].pIndex + d /\ Entry(nd, ix, n, d) = ix[x]
  <2>1. x - nd[n].pIndex \in Places(nd, n) /\ x = nd[n].pIndex + (x - nd[n].pIndex)
    BY <1>3, <1>6 DEF ArrayOf, Entries, Places
  <2>. QED BY <2>1 DEF Entry
<1>7. ASSUME NEW d \in Places(nd, n), Entry(nd, ix, n, d).ch = ch
      PROVE  Hop(nd, ix, n, ch) = Entry(nd, ix, n, d).pNode
  <2>. DEFINE x == nd[n].pIndex + d
  <2>1. x \in ArrayOf(nd, n) /\ ix[x] = Entry(nd, ix, n, d) /\ x \in Int
    BY <1>3 DEF ArrayOf, Entries, Places, Entry
  <2>2. ASSUME NEW y \in hits PROVE y = x
    <3>1. PICK e \in Places(nd, n) : y = nd[n].pIndex + e /\ Entry(nd, ix, n, e) = ix[y]
      BY <1>4, <1>6
    <3>2. ix[y].ch = ch
      BY <1>4
    <3>3. e = d
      BY <1>7, <3>1, <3>2 DEF Tree
    <3>. QED BY <3>1, <3>3
  <2>3. x \in hits
    BY <1>4, <1>7, <2>1
  <2>. HIDE DEF x
  <2>4. hits = {x}
    BY <2>2, <2>3
  <2>5. Min(hits) = x
    BY <2>1, <2>4 DEF Min
  <2>. QED BY <1>5, <2>1, <2>3, <2>5
<1>8. ASSUME \A d \in Places(nd, n) : Entry(nd, ix, n, d).ch # ch PROVE hits = {}
  BY <1>4, <1>6, <1>8
<1>. QED BY <1>5, <1>7, <1>8

\* Where GetNextNode leads there is an entry.
LEMMA HopFrom ==
  ASSUME NEW nd, NEW ix, Memory(nd, ix), NEW N, Tree(nd, ix, N), NEW n \in 0 .. (N - 1),
         NEW ch, Hop(nd, ix, n, ch) # None
  PROVE  \E d \in Places(nd, n) : /\ Entry(nd, ix, n, d).ch = ch
                                  /\ Hop(nd, ix, n, ch) = Entry(nd, ix, n, d).pNode
                                  /\ Entry(nd, ix, n, d).pNode \in 1 .. (N - 1)
<1>1. PICK d \in Places(nd, n) : Entry(nd, ix, n, d).ch = ch
  BY HopIs
<1>2. Hop(nd, ix, n, ch) = Entry(nd, ix, n, d).pNode
  BY <1>1, HopIs
<1>3. Entry(nd, ix, n, d).pNode \in 1 .. (N - 1)
  BY DEF Tree
<1>. QED BY <1>1, <1>2, <1>3

\* No two characters of no two nodes lead to the same node.
LEMMA TreeHops ==
  ASSUME NEW nd, NEW ix, Memory(nd, ix), NEW N, Tree(nd, ix, N)
  PROVE  Forest(Hops(nd, ix, N), N)
<1>1. N \in Nat \ {0}
  BY TrieAssumption DEF Tree
<1>2. ASSUME NEW n \in 0 .. (N - 1), NEW ch \in Chars
      PROVE  Hop(nd, ix, n, ch) \in {None} \cup 1 .. (N - 1)
  BY HopFrom
<1>3. ASSUME NEW n \in 0 .. (N - 1), NEW c \in Chars, NEW m \in 0 .. (N - 1), NEW d \in Chars,
             Hop(nd, ix, n, c) = Hop(nd, ix, m, d), Hop(nd, ix, n, c) # None
      PROVE  n = m /\ c = d
  <2>1. PICK x \in Places(nd, n) : /\ Entry(nd, ix, n, x).ch = c
                                   /\ Hop(nd, ix, n, c) = Entry(nd, ix, n, x).pNode
    BY <1>3, HopFrom
  <2>2. PICK y \in Places(nd, m) : /\ Entry(nd, ix, m, y).ch = d
                                   /\ Hop(nd, ix, m, d) = Entry(nd, ix, m, y).pNode
    BY <1>3, HopFrom
  <2>3. n = m /\ x = y
    <3>1. Entry(nd, ix, n, x).pNode = Entry(nd, ix, m, y).pNode
      BY <1>3, <2>1, <2>2
    <3>. QED BY <3>1 DEF Tree
  <2>. QED BY <2>1, <2>2, <2>3
<1>4. ASSUME NEW p \in (0 .. (N - 1)) \X Chars
      PROVE  /\ p[1] \in 0 .. (N - 1) /\ p[2] \in Chars /\ p = <<p[1], p[2]>>
             /\ Hops(nd, ix, N)[p] = Hop(nd, ix, p[1], p[2])
  BY DEF Hops
<1>5. Hops(nd, ix, N) \in [(0 .. (N - 1)) \X Chars -> {None} \cup 1 .. (N - 1)]
  BY <1>2, <1>4 DEF Hops
<1>6. ASSUME NEW p \in (0 .. (N - 1)) \X Chars, NEW q \in (0 .. (N - 1)) \X Chars,
             Hops(nd, ix, N)[p] = Hops(nd, ix, N)[q], Hops(nd, ix, N)[p] # None
      PROVE  p = q
  <2>1. p[1] = q[1] /\ p[2] = q[2]
    BY <1>3, <1>4, <1>6
  <2>. QED BY <1>4, <2>1
<1>. QED BY <1>1, <1>5, <1>6 DEF Forest

\* The walk of Find takes one hop for each character of the key (trie.h:415-430).
LEMMA WalkIs ==
  ASSUME NEW nd, NEW ix, Memory(nd, ix), NEW key \in Seq(Chars)
  PROVE  IsWalk(WalkOf(nd, ix, key), Hops(nd, ix, MaxNode), MaxNode, key)
<1>. DEFINE N == MaxNode
            W == {None} \cup 0 .. (N - 1)
            L == Len(key)
            F == [k \in Nat |-> [s \in W |-> IF s # None /\ k \in 1 .. L
                                             THEN Hop(nd, ix, s, key[k]) ELSE None]]
            walk[i \in 0 .. L] ==
              IF i = 0 THEN 0
              ELSE IF walk[i - 1] = None THEN None ELSE Hop(nd, ix, walk[i - 1], key[i])
            G == {i \in Nat : i <= L => walk[i] \in W}
<1>1. N \in Nat \ {0} /\ 0 \in W /\ None \in W /\ L \in Nat /\ None \notin 0 .. (N - 1)
  BY LenProperties, TrieAssumption DEF None
<1>2. ASSUME NEW s \in W, s # None, NEW k \in 1 .. L
      PROVE  /\ key[k] \in Chars /\ Hop(nd, ix, s, key[k]) = Hops(nd, ix, N)[<<s, key[k]>>]
             /\ Hop(nd, ix, s, key[k]) \in W
  <2>1. key[k] \in Chars /\ s \in 0 .. (N - 1)
    BY <1>2, ElementOfSeq
  <2>2. Hop(nd, ix, s, key[k]) = Hops(nd, ix, N)[<<s, key[k]>>]
    BY <2>1 DEF Hops
  <2>3. Hop(nd, ix, s, key[k]) \in W
    <3>. HIDE DEF L, F, walk, G
    <3>. QED BY HopType
  <2>. QED BY <1>1, <2>1, <2>2, <2>3
<1>3. F \in [Nat -> [W -> W]]
  <2>. HIDE DEF W
  <2>. QED BY <1>1, <1>2
<1>4. \E f : f = [i \in 0 .. L |-> IF i = 0 THEN 0
                   ELSE IF f[i - 1] = None THEN None ELSE Hop(nd, ix, f[i - 1], key[i])]
  <2>1. PICK f \in [0 .. L -> W] :
          \A k \in 0 .. L : f[k] = IF k = 0 THEN 0 ELSE F[k][f[k - 1]]
    <3>. HIDE DEF F, W, G, walk, L
    <3>1. \E f \in [0 .. L -> W] : IsLoop(f, 0, F, L)
      BY <1>1, <1>3, Rounds
    <3>. QED BY <3>1 DEF IsLoop
  <2>2. ASSUME NEW k \in 1 .. L
        PROVE  f[k] = IF f[k - 1] = None THEN None ELSE Hop(nd, ix, f[k - 1], key[k])
    <3>1. k - 1 \in 0 .. L /\ k \in Nat /\ k # 0 /\ k \in 0 .. L
      BY <1>1
    <3>2. f[k - 1] \in W
      BY <2>1, <3>1
    <3>3. F[k][f[k - 1]] = IF f[k - 1] = None THEN None ELSE Hop(nd, ix, f[k - 1], key[k])
      <4>. HIDE DEF W, L
      <4>. QED BY <3>1, <3>2
    <3>4. f[k] = F[k][f[k - 1]]
      <4>. HIDE DEF F
      <4>. QED BY <2>1, <3>1
    <3>. QED BY <3>3, <3>4
  <2>3. f[0] = 0
    <3>. HIDE DEF F
    <3>. QED BY <1>1, <2>1
  <2>4. f = [i \in 0 .. L |-> IF i = 0 THEN 0
               ELSE IF f[i - 1] = None THEN None ELSE Hop(nd, ix, f[i - 1], key[i])]
    <3>. HIDE DEF F, L, W
    <3>. QED BY <1>1, <2>1, <2>2, <2>3
  <2>. QED BY <2>4
<1>5. walk = [i \in 0 .. L |-> IF i = 0 THEN 0
                ELSE IF walk[i - 1] = None THEN None ELSE Hop(nd, ix, walk[i - 1], key[i])]
  <2>. HIDE DEF L, F, W
  <2>. QED BY <1>4 DEF walk
<1>6. WalkOf(nd, ix, key) = walk
  BY DEF WalkOf
<1>. HIDE DEF walk, W, F, L
<1>7. /\ walk[0] = 0
      /\ \A i \in 1 .. L :
           walk[i] = IF walk[i - 1] = None THEN None ELSE Hop(nd, ix, walk[i - 1], key[i])
  BY <1>1, <1>5
<1>8. 0 \in G
  BY <1>1, <1>7
<1>9. ASSUME NEW i \in Nat, i \in G PROVE i + 1 \in G
  <2>. SUFFICES ASSUME i + 1 <= L PROVE walk[i + 1] \in W
    OBVIOUS
  <2>1. i + 1 \in 1 .. L /\ (i + 1) - 1 = i /\ walk[i] \in W
    BY <1>1, <1>9
  <2>2. walk[i + 1] = IF walk[i] = None THEN None ELSE Hop(nd, ix, walk[i], key[i + 1])
    <3>. HIDE DEF G
    <3>. QED BY <1>7, <2>1
  <2>3. CASE walk[i] = None
    BY <1>1, <2>2, <2>3
  <2>4. CASE walk[i] # None
    <3>1. Hop(nd, ix, walk[i], key[i + 1]) \in W
      <4>. HIDE DEF G
      <4>. QED BY <1>2, <2>1, <2>4
    <3>. QED BY <2>2, <2>4, <3>1
  <2>. QED BY <2>3, <2>4
<1>. HIDE DEF G
<1>10. \A i \in 0 .. L : walk[i] \in W
  <2>1. Nat \subseteq G
    BY <1>8, <1>9, Induction
  <2>. QED BY <1>1, <2>1 DEF G
<1>11. walk \in [0 .. L -> W]
  BY <1>5, <1>10
<1>12. ASSUME NEW i \in 1 .. L
       PROVE  walk[i] = IF walk[i - 1] = None THEN None
                        ELSE Hops(nd, ix, N)[<<walk[i - 1], key[i]>>]
  <2>1. i - 1 \in 0 .. L /\ walk[i - 1] \in W
    BY <1>1, <1>10
  <2>. QED BY <1>2, <1>7, <2>1
<1>. QED BY <1>6, <1>7, <1>11, <1>12 DEF IsWalk, W, L

\* Where two walks meet the keys were the same so far: each node has one key.
LEMMA OneKey ==
  ASSUME NEW H, NEW N, Forest(H, N), NEW k1 \in Seq(Chars), NEW k2 \in Seq(Chars),
         NEW w1, IsWalk(w1, H, N, k1), NEW w2, IsWalk(w2, H, N, k2)
  PROVE  \A i \in 0 .. Len(k1), j \in 0 .. Len(k2) :
           w1[i] = w2[j] /\ w1[i] # None => i = j /\ \A l \in 1 .. i : k1[l] = k2[l]
<1>. DEFINE Meet(i, j) == w1[i] = w2[j] /\ w1[i] # None
            Same(i, j) == i = j /\ \A l \in 1 .. i : k1[l] = k2[l]
            G == {i \in Nat : i <= Len(k1) => \A j \in 0 .. Len(k2) : Meet(i, j) => Same(i, j)}
<1>1. /\ N \in Nat \ {0} /\ Len(k1) \in Nat /\ Len(k2) \in Nat
      /\ k1 \in [1 .. Len(k1) -> Chars] /\ k2 \in [1 .. Len(k2) -> Chars]
      /\ H \in [(0 .. (N - 1)) \X Chars -> {None} \cup 1 .. (N - 1)]
      /\ None \notin 0 .. (N - 1)
  BY LenProperties DEF Forest, None
\* a step behind the root's
<1>2. ASSUME NEW k \in Seq(Chars), NEW w, IsWalk(w, H, N, k), NEW i \in 1 .. Len(k), w[i] # None
      PROVE  /\ i - 1 \in 0 .. Len(k) /\ w[i - 1] \in 0 .. (N - 1) /\ k[i] \in Chars
             /\ w[i - 1] # None
             /\ w[i] = H[<<w[i - 1], k[i]>>] /\ w[i] \in 1 .. (N - 1)
  <2>1. Len(k) \in Nat /\ k[i] \in Chars
    BY LenProperties, ElementOfSeq
  <2>2. i - 1 \in 0 .. Len(k)
    BY <2>1
  <2>3. w[i - 1] # None /\ w[i] = H[<<w[i - 1], k[i]>>]
    BY <1>2 DEF IsWalk
  <2>4. w[i - 1] \in 0 .. (N - 1)
    BY <1>2, <2>2, <2>3 DEF IsWalk
  <2>. QED BY <1>1, <1>2, <2>1, <2>2, <2>3, <2>4
<1>3. w1[0] = 0 /\ w2[0] = 0
  BY DEF IsWalk
<1>4. 0 \in G
  <2>. SUFFICES ASSUME NEW j \in 0 .. Len(k2), Meet(0, j) PROVE Same(0, j)
    OBVIOUS
  <2>1. CASE j = 0
    BY <2>1
  <2>2. CASE j # 0
    <3>1. j \in 1 .. Len(k2) /\ w2[j] = 0 /\ w2[j] # None
      BY <1>1, <1>3, <2>2 DEF None
    <3>2. w2[j] \in 1 .. (N - 1)
      <4>. HIDE DEF Meet, Same, G
      <4>. QED BY <1>2, <3>1
    <3>3. FALSE
      <4>. HIDE DEF Meet, Same, G
      <4>. QED BY <1>1, <3>1, <3>2
    <3>. QED BY <3>3
  <2>. QED BY <2>1, <2>2
<1>5. ASSUME NEW i \in Nat, i \in G PROVE i + 1 \in G
  <2>. SUFFICES ASSUME i + 1 <= Len(k1), NEW j \in 0 .. Len(k2), Meet(i + 1, j)
                PROVE  Same(i + 1, j)
    OBVIOUS
  <2>1. i + 1 \in 1 .. Len(k1) /\ (i + 1) - 1 = i
    BY <1>1
  <2>2. /\ w1[i] \in 0 .. (N - 1) /\ k1[i + 1] \in Chars /\ w1[i] # None
        /\ w1[i + 1] = H[<<w1[i], k1[i + 1]>>] /\ w1[i + 1] \in 1 .. (N - 1)
    BY <1>2, <2>1
  <2>3. j # 0
    <3>1. w1[i + 1] = w2[j]
      OBVIOUS
    <3>. HIDE DEF Meet, Same, G
    <3>. QED BY <1>1, <1>3, <2>2, <3>1
  <2>4. j \in 1 .. Len(k2) /\ w2[j] # None
    BY <1>1, <2>3
  <2>5. /\ j - 1 \in 0 .. Len(k2) /\ w2[j - 1] \in 0 .. (N - 1) /\ k2[j] \in Chars
        /\ w2[j] = H[<<w2[j - 1], k2[j]>>]
    BY <1>2, <2>4
  <2>6. <<w1[i], k1[i + 1]>> = <<w2[j - 1], k2[j]>>
    <3>1. PICK p \in (0 .. (N - 1)) \X Chars : p = <<w1[i], k1[i + 1]>>
      BY <2>2
    <3>2. PICK q \in (0 .. (N - 1)) \X Chars : q = <<w2[j - 1], k2[j]>>
      BY <2>5
    <3>3. H[p] = H[q] /\ H[p] # None
      BY <2>2, <2>5, <3>1, <3>2
    <3>. QED BY <3>1, <3>2, <3>3 DEF Forest
  <2>7. w1[i] = w2[j - 1] /\ k1[i + 1] = k2[j]
    BY <2>6
  <2>8. Same(i, j - 1)
    BY <1>1, <1>5, <2>2, <2>5, <2>7
  <2>. QED BY <1>1, <2>7, <2>8
<1>. HIDE DEF G, Meet, Same
<1>6. Nat \subseteq G
  BY <1>4, <1>5, Induction
<1>7. ASSUME NEW i \in 0 .. Len(k1), NEW j \in 0 .. Len(k2), Meet(i, j) PROVE Same(i, j)
  <2>1. i \in G /\ i <= Len(k1)
    BY <1>1, <1>6
  <2>. QED BY <1>7, <2>1 DEF G
<1>. QED BY <1>7 DEF Meet, Same

\* There is one walk for a key.
LEMMA OneWalk ==
  ASSUME NEW H, NEW N, NEW key \in Seq(Chars),
         NEW v, IsWalk(v, H, N, key), NEW w, IsWalk(w, H, N, key)
  PROVE  v = w
<1>. DEFINE G == {i \in Nat : i <= Len(key) => v[i] = w[i]}
<1>1. Len(key) \in Nat
  BY LenProperties
<1>2. 0 \in G
  BY DEF IsWalk
<1>3. ASSUME NEW i \in Nat, i \in G PROVE i + 1 \in G
  <2>. SUFFICES ASSUME i + 1 <= Len(key) PROVE v[i + 1] = w[i + 1]
    OBVIOUS
  <2>1. i + 1 \in 1 .. Len(key) /\ (i + 1) - 1 = i /\ v[i] = w[i]
    BY <1>1, <1>3
  <2>. HIDE DEF G
  <2>2. PICK m \in 1 .. Len(key) : m = i + 1 /\ m - 1 = i
    BY <2>1
  <2>3. /\ v[m] = IF v[m - 1] = None THEN None ELSE H[<<v[m - 1], key[m]>>]
        /\ w[m] = IF w[m - 1] = None THEN None ELSE H[<<w[m - 1], key[m]>>]
    BY DEF IsWalk
  <2>. QED BY <2>1, <2>2, <2>3
<1>. HIDE DEF G
<1>4. \A i \in 0 .. Len(key) : v[i] = w[i]
  <2>1. Nat \subseteq G
    BY <1>2, <1>3, Induction
  <2>. QED BY <1>1, <2>1 DEF G
<1>. QED BY <1>4 DEF IsWalk

\* The walk of a key begins with those of its beginnings.
LEMMA WalkOfPart ==
  ASSUME NEW H, NEW N, NEW key \in Seq(Chars), NEW m \in 0 .. Len(key),
         NEW w, IsWalk(w, H, N, key), NEW v, IsWalk(v, H, N, SubSeq(key, 1, m))
  PROVE  v[m] = w[m]
<1>. DEFINE u == [i \in 0 .. m |-> w[i]]
            part == SubSeq(key, 1, m)
<1>1. Len(key) \in Nat
  BY LenProperties
<1>2. part \in Seq(Chars) /\ Len(part) = m /\ \A i \in 1 .. m : part[i] = key[i]
  <2>1. \A i \in 1 .. m : key[i] \in Chars
    BY <1>1, ElementOfSeq
  <2>. QED BY <1>1, <2>1, SubSeqProperties
<1>. HIDE DEF part
<1>3. u \in [0 .. m -> {None} \cup 0 .. (N - 1)] /\ u[0] = 0
  BY <1>1 DEF IsWalk
<1>4. ASSUME NEW i \in 1 .. m
      PROVE  u[i] = IF u[i - 1] = None THEN None ELSE H[<<u[i - 1], part[i]>>]
  <2>1. i \in 1 .. Len(key) /\ i \in 0 .. m /\ i - 1 \in 0 .. m
    BY <1>1
  <2>. QED BY <1>2, <2>1 DEF IsWalk
<1>. HIDE DEF u
<1>5. IsWalk(u, H, N, part)
  BY <1>2, <1>3, <1>4 DEF IsWalk
<1>6. u = v
  BY <1>2, <1>5, OneWalk DEF part
<1>. QED BY <1>6 DEF u

\* In a tree walks keep to the nodes made.
LEMMA TreeWalk ==
  ASSUME NEW nd, NEW ix, Memory(nd, ix), NEW N, Tree(nd, ix, N), NEW key \in Seq(Chars)
  PROVE  IsWalk(WalkOf(nd, ix, key), Hops(nd, ix, N), N, key)
<1>. DEFINE w == WalkOf(nd, ix, key)
            G == {i \in Nat : i <= Len(key) => w[i] \in {None} \cup 0 .. (N - 1)}
<1>1. Len(key) \in Nat /\ N \in 1 .. MaxNode /\ MaxNode \in Nat
  BY LenProperties, TrieAssumption DEF Tree
<1>2. IsWalk(w, Hops(nd, ix, MaxNode), MaxNode, key)
  BY WalkIs
<1>. HIDE DEF w
<1>3. ASSUME NEW n \in 0 .. (N - 1), NEW ch \in Chars
      PROVE  /\ Hops(nd, ix, MaxNode)[<<n, ch>>] = Hops(nd, ix, N)[<<n, ch>>]
             /\ Hops(nd, ix, N)[<<n, ch>>] \in {None} \cup 0 .. (N - 1)
  <2>1. n \in 0 .. (MaxNode - 1)
    BY <1>1
  <2>2. Hops(nd, ix, MaxNode)[<<n, ch>>] = Hop(nd, ix, n, ch)
    BY <2>1 DEF Hops
  <2>3. Hops(nd, ix, N)[<<n, ch>>] = Hop(nd, ix, n, ch)
    BY DEF Hops
  <2>4. Hop(nd, ix, n, ch) \in {None} \cup 0 .. (N - 1)
    BY HopFrom
  <2>. QED BY <2>2, <2>3, <2>4
<1>4. ASSUME NEW i \in 1 .. Len(key), w[i - 1] \in {None} \cup 0 .. (N - 1)
      PROVE  /\ w[i] = IF w[i - 1] = None THEN None ELSE Hops(nd, ix, N)[<<w[i - 1], key[i]>>]
             /\ w[i] \in {None} \cup 0 .. (N - 1)
  <2>1. key[i] \in Chars
    BY ElementOfSeq
  <2>2. w[i] = IF w[i - 1] = None THEN None ELSE Hops(nd, ix, MaxNode)[<<w[i - 1], key[i]>>]
    BY <1>2 DEF IsWalk
  <2>. QED BY <1>3, <1>4, <2>1, <2>2
<1>5. 0 \in G
  BY <1>1, <1>2 DEF IsWalk
<1>6. ASSUME NEW i \in Nat, i \in G PROVE i + 1 \in G
  <2>. SUFFICES ASSUME i + 1 <= Len(key) PROVE w[i + 1] \in {None} \cup 0 .. (N - 1)
    OBVIOUS
  <2>1. i + 1 \in 1 .. Len(key) /\ (i + 1) - 1 = i /\ w[i] \in {None} \cup 0 .. (N - 1)
    BY <1>1, <1>6
  <2>. HIDE DEF G
  <2>. QED BY <1>4, <2>1
<1>. HIDE DEF G
<1>7. \A i \in 0 .. Len(key) : w[i] \in {None} \cup 0 .. (N - 1)
  <2>1. Nat \subseteq G
    BY <1>5, <1>6, Induction
  <2>. QED BY <1>1, <2>1 DEF G
<1>8. w \in [0 .. Len(key) -> {None} \cup 0 .. (N - 1)] /\ w[0] = 0
  BY <1>2, <1>7 DEF IsWalk
<1>9. \A i \in 1 .. Len(key) : i - 1 \in 0 .. Len(key)
  BY <1>1
<1>10. IsWalk(w, Hops(nd, ix, N), N, key)
  BY <1>4, <1>7, <1>8, <1>9 DEF IsWalk
<1>. QED BY <1>10 DEF w

\* What a walk in a tree is, step by step.
LEMMA WalkSteps ==
  ASSUME NEW nd, NEW ix, Memory(nd, ix), NEW N, Tree(nd, ix, N), NEW key \in Seq(Chars)
  PROVE  /\ WalkOf(nd, ix, key) \in [0 .. Len(key) -> {None} \cup 0 .. (N - 1)]
         /\ WalkOf(nd, ix, key)[0] = 0
         /\ \A i \in 1 .. Len(key) :
              /\ key[i] \in Chars /\ i - 1 \in 0 .. Len(key)
              /\ WalkOf(nd, ix, key)[i] =
                   IF WalkOf(nd, ix, key)[i - 1] = None THEN None
                   ELSE Hop(nd, ix, WalkOf(nd, ix, key)[i - 1], key[i])
<1>. DEFINE w == WalkOf(nd, ix, key)
<1>1. IsWalk(w, Hops(nd, ix, N), N, key)
  BY TreeWalk
<1>. HIDE DEF w
<1>2. w \in [0 .. Len(key) -> {None} \cup 0 .. (N - 1)] /\ w[0] = 0
  BY <1>1 DEF IsWalk
<1>3. ASSUME NEW i \in 1 .. Len(key)
      PROVE  /\ key[i] \in Chars /\ i - 1 \in 0 .. Len(key)
             /\ w[i] = IF w[i - 1] = None THEN None ELSE Hop(nd, ix, w[i - 1], key[i])
  <2>1. key[i] \in Chars /\ i - 1 \in 0 .. Len(key)
    BY ElementOfSeq, LenProperties
  <2>2. w[i - 1] # None => Hops(nd, ix, N)[<<w[i - 1], key[i]>>] = Hop(nd, ix, w[i - 1], key[i])
    BY <1>2, <2>1 DEF Hops
  <2>3. w[i] = IF w[i - 1] = None THEN None ELSE Hops(nd, ix, N)[<<w[i - 1], key[i]>>]
    BY <1>1 DEF IsWalk
  <2>. QED BY <2>1, <2>2, <2>3
<1>. QED BY <1>2, <1>3 DEF w

\* In a tree two keys that come to the same node are the same so far.
LEMMA OneKeyThere ==
  ASSUME NEW nd, NEW ix, Memory(nd, ix), NEW N, Tree(nd, ix, N),
         NEW k1 \in Seq(Chars), NEW k2 \in Seq(Chars),
         NEW i \in 0 .. Len(k1), NEW j \in 0 .. Len(k2),
         WalkOf(nd, ix, k1)[i] = WalkOf(nd, ix, k2)[j], WalkOf(nd, ix, k1)[i] # None
  PROVE  i = j /\ \A l \in 1 .. i : k1[l] = k2[l]
<1>. DEFINE w1 == WalkOf(nd, ix, k1)
            w2 == WalkOf(nd, ix, k2)
            H  == Hops(nd, ix, N)
<1>1. Forest(H, N) /\ IsWalk(w1, H, N, k1) /\ IsWalk(w2, H, N, k2)
  BY TreeHops, TreeWalk
<1>2. w1[i] = w2[j] /\ w1[i] # None
  OBVIOUS
<1>. HIDE DEF w1, w2, H
<1>. QED BY <1>1, <1>2, OneKey

\* Where GetNextNode does the same the walks are the same.
LEMMA SameWalks ==
  ASSUME NEW nd, NEW ix, Memory(nd, ix), NEW N, Tree(nd, ix, N),
         NEW nd2, NEW ix2, Memory(nd2, ix2), Tree(nd2, ix2, N),
         \A n \in 0 .. (N - 1), ch \in Chars : Hop(nd2, ix2, n, ch) = Hop(nd, ix, n, ch),
         NEW key \in Seq(Chars)
  PROVE  WalkOf(nd2, ix2, key) = WalkOf(nd, ix, key)
<1>1. Hops(nd2, ix2, N) = Hops(nd, ix, N)
  BY DEF Hops
<1>2. /\ IsWalk(WalkOf(nd, ix, key), Hops(nd, ix, N), N, key)
      /\ IsWalk(WalkOf(nd2, ix2, key), Hops(nd2, ix2, N), N, key)
  BY TreeWalk
<1>. QED BY <1>1, <1>2, OneWalk

-------------------------------------------------------------------------------
(***************************************************************************)
(* Trees that change.                                                      *)
(***************************************************************************)
\* An array may move: what counts is the entries in it.
LEMMA SameEntries ==
  ASSUME NEW nd, NEW ix, Memory(nd, ix), NEW N, Tree(nd, ix, N),
         NEW nd2, NEW ix2, Memory(nd2, ix2),
         \A n \in 0 .. (N - 1) : /\ nd2[n].size = nd[n].size
                                 /\ ArrayOf(nd2, n) \subseteq 1 .. (MaxIndex - 1),
         \A n \in 0 .. (N - 1) : \A d \in Places(nd, n) :
           Entry(nd2, ix2, n, d) = Entry(nd, ix, n, d)
  PROVE  /\ Tree(nd2, ix2, N)
         /\ \A n \in 0 .. (N - 1), ch \in Chars : Hop(nd2, ix2, n, ch) = Hop(nd, ix, n, ch)
<1>1. \A n \in 0 .. (N - 1) : Places(nd2, n) = Places(nd, n)
  BY DEF Places
<1>2. Tree(nd2, ix2, N)
  BY <1>1 DEF Tree
<1>3. ASSUME NEW n \in 0 .. (N - 1), NEW ch \in Chars
      PROVE  Hop(nd2, ix2, n, ch) = Hop(nd, ix, n, ch)
  <2>1. CASE \E d \in Places(nd, n) : Entry(nd, ix, n, d).ch = ch
    <3>1. PICK d \in Places(nd, n) : Entry(nd, ix, n, d).ch = ch
      BY <2>1
    <3>2. d \in Places(nd2, n) /\ Entry(nd2, ix2, n, d).ch = ch
      BY <1>1, <3>1
    <3>3. Hop(nd, ix, n, ch) = Entry(nd, ix, n, d).pNode
      BY <3>1, HopIs
    <3>4. Hop(nd2, ix2, n, ch) = Entry(nd2, ix2, n, d).pNode
      BY <1>2, <3>2, HopIs
    <3>. QED BY <3>3, <3>4
  <2>2. CASE \A d \in Places(nd, n) : Entry(nd, ix, n, d).ch # ch
    <3>1. \A d \in Places(nd2, n) : Entry(nd2, ix2, n, d).ch # ch
      BY <1>1, <2>2
    <3>2. Hop(nd, ix, n, ch) = None
      BY <2>2, HopIs
    <3>3. Hop(nd2, ix2, n, ch) = None
      BY <1>2, <3>1, HopIs
    <3>. QED BY <3>2, <3>3
  <2>. QED BY <2>1, <2>2
<1>. QED BY <1>2, <1>3

\* The node N is made a child of cur, by the character c: cur's array has one entry
\* more, at its end, whatever else moved.
ChildAdded(nd, ix, nd2, ix2, N, cur, c) ==
  /\ N + 1 <= MaxNode /\ cur \in 0 .. (N - 1) /\ c \in Chars /\ Hop(nd, ix, cur, c) = None
  /\ \A n \in 0 .. N : ArrayOf(nd2, n) \subseteq 1 .. (MaxIndex - 1)
  /\ nd2[N].size = 0 /\ nd2[cur].size = nd[cur].size + 1
  /\ \A n \in 0 .. (N - 1) : n # cur => nd2[n].size = nd[n].size
  /\ \A n \in 0 .. (N - 1) : \A d \in Places(nd, n) :
       Entry(nd2, ix2, n, d) = Entry(nd, ix, n, d)
  /\ Entry(nd2, ix2, cur, nd[cur].size) = [pNode |-> N, ch |-> c]

\* The next node, made a child, goes where no character of its parent led
\* (trie.h:311-323).
LEMMA OneChildMore ==
  ASSUME NEW nd, NEW ix, Memory(nd, ix), NEW N, Tree(nd, ix, N),
         NEW nd2, NEW ix2, Memory(nd2, ix2), NEW cur, NEW c,
         ChildAdded(nd, ix, nd2, ix2, N, cur, c)
  PROVE  /\ Tree(nd2, ix2, N + 1)
         /\ \A n \in 0 .. (N - 1), ch \in Chars :
              Hop(nd2, ix2, n, ch) = IF n = cur /\ ch = c THEN N ELSE Hop(nd, ix, n, ch)
         /\ \A ch \in Chars : Hop(nd2, ix2, N, ch) = None
<1>. USE DEF ChildAdded
<1>. DEFINE last == nd[cur].size
            Old(n, d) == n \in 0 .. (N - 1) /\ d \in Places(nd, n)
            New(n, d) == n = cur /\ d = last
            E(n, d)   == Entry(nd, ix, n, d)
            E2(n, d)  == Entry(nd2, ix2, n, d)
<1>1. N \in 1 .. MaxNode /\ MaxNode \in Nat /\ N + 1 \in 1 .. MaxNode /\ (N + 1) - 1 = N
  BY TrieAssumption DEF Tree
<1>2. \A n \in 0 .. (N - 1) : nd[n].size \in Int /\ nd[n].size >= 0
  <2>1. \A n \in 0 .. (N - 1) : nd[n] \in NodeRec
    BY <1>1 DEF Memory
  <2>. QED BY <2>1 DEF NodeRec
<1>3. ASSUME NEW n \in 0 .. N, NEW d \in Places(nd2, n) PROVE Old(n, d) \/ New(n, d)
  <2>1. n # N
    <3>1. Places(nd2, N) = {}
      BY DEF Places
    <3>. QED BY <3>1
  <2>2. n \in 0 .. (N - 1)
    BY <1>1, <2>1
  <2>3. CASE n = cur
    BY <1>2, <2>2, <2>3 DEF Places
  <2>4. CASE n # cur
    BY <2>2, <2>4 DEF Places
  <2>. QED BY <2>3, <2>4
<1>4. ASSUME NEW n, NEW d, Old(n, d)
      PROVE  /\ E2(n, d) = E(n, d) /\ d \in Places(nd2, n) /\ n \in 0 .. N
             /\ E(n, d).ch \in Chars /\ E(n, d).pNode \in 1 .. (N - 1)
  <2>1. d \in Places(nd2, n)
    BY <1>2, <1>4 DEF Places
  <2>. QED BY <1>1, <1>4, <2>1 DEF Tree
<1>5. E2(cur, last).ch = c /\ E2(cur, last).pNode = N /\ last \in Places(nd2, cur) /\ cur \in 0 .. N
  <2>1. last \in Places(nd2, cur)
    BY <1>2 DEF Places
  <2>. QED BY <1>1, <2>1
<1>6. ASSUME NEW d \in Places(nd, cur) PROVE E(cur, d).ch # c
  <2>1. E(cur, d).ch = c => E(cur, d).pNode = None
    BY HopIs
  <2>2. E(cur, d).pNode \in 1 .. (N - 1)
    BY <1>4
  <2>. QED BY <2>1, <2>2 DEF None
<1>7. \A n \in 0 .. (N - 1) : \A d, e \in Places(nd, n) : E(n, d).ch = E(n, e).ch => d = e
  BY DEF Tree
<1>8. \A n, m \in 0 .. (N - 1) : \A d \in Places(nd, n), e \in Places(nd, m) :
        E(n, d).pNode = E(m, e).pNode => n = m /\ d = e
  BY DEF Tree
<1>. HIDE DEF E, E2
<1>9. ASSUME NEW n \in 0 .. N, NEW d \in Places(nd2, n)
      PROVE  E2(n, d).ch \in Chars /\ E2(n, d).pNode \in 1 .. N
  <2>1. CASE Old(n, d)
    BY <1>1, <1>4, <2>1
  <2>2. CASE New(n, d)
    BY <1>1, <1>5, <2>2
  <2>. QED BY <1>3, <2>1, <2>2
<1>10. ASSUME NEW n \in 0 .. N, NEW d \in Places(nd2, n), NEW e \in Places(nd2, n),
              E2(n, d).ch = E2(n, e).ch
       PROVE  d = e
  <2>1. CASE Old(n, d) /\ Old(n, e)
    BY <1>4, <1>7, <1>10, <2>1
  <2>2. CASE Old(n, d) /\ New(n, e)
    BY <1>4, <1>5, <1>6, <1>10, <2>2
  <2>3. CASE New(n, d) /\ Old(n, e)
    BY <1>4, <1>5, <1>6, <1>10, <2>3
  <2>4. CASE New(n, d) /\ New(n, e)
    BY <2>4
  <2>. QED BY <1>3, <2>1, <2>2, <2>3, <2>4
<1>11. ASSUME NEW n \in 0 .. N, NEW m \in 0 .. N, NEW d \in Places(nd2, n), NEW e \in Places(nd2, m),
              E2(n, d).pNode = E2(m, e).pNode
       PROVE  n = m /\ d = e
  <2>1. CASE Old(n, d) /\ Old(m, e)
    <3>1. E(n, d).pNode = E(m, e).pNode
      BY <1>4, <1>11, <2>1
    <3>. QED BY <1>8, <2>1, <3>1
  <2>2. CASE Old(n, d) /\ New(m, e)
    <3>1. E(n, d).pNode = N /\ E(n, d).pNode \in 1 .. (N - 1)
      BY <1>4, <1>5, <1>11, <2>2
    <3>. QED BY <1>1, <3>1
  <2>3. CASE New(n, d) /\ Old(m, e)
    <3>1. E(m, e).pNode = N /\ E(m, e).pNode \in 1 .. (N - 1)
      BY <1>4, <1>5, <1>11, <2>3
    <3>. QED BY <1>1, <3>1
  <2>4. CASE New(n, d) /\ New(m, e)
    BY <2>4
  <2>. QED BY <1>3, <2>1, <2>2, <2>3, <2>4
<1>12. Tree(nd2, ix2, N + 1)
  BY <1>1, <1>9, <1>10, <1>11 DEF Tree, E2
<1>13. ASSUME NEW ch \in Chars PROVE Hop(nd2, ix2, N, ch) = None
  <2>1. Places(nd2, N) = {}
    BY DEF Places
  <2>2. N \in 0 .. ((N + 1) - 1)
    BY <1>1
  <2>. QED BY <1>12, <2>1, <2>2, HopIs
<1>14. ASSUME NEW n \in 0 .. (N - 1), NEW ch \in Chars
       PROVE  Hop(nd2, ix2, n, ch) = IF n = cur /\ ch = c THEN N ELSE Hop(nd, ix, n, ch)
  <2>. n \in 0 .. ((N + 1) - 1)
    BY <1>1
  <2>1. \A d \in Places(nd2, n) : E2(n, d).ch = ch => Hop(nd2, ix2, n, ch) = E2(n, d).pNode
    BY <1>12, HopIs DEF E2
  <2>2. (\A d \in Places(nd2, n) : E2(n, d).ch # ch) => Hop(nd2, ix2, n, ch) = None
    BY <1>12, HopIs DEF E2
  <2>3. CASE n = cur /\ ch = c
    BY <1>5, <2>1, <2>3
  <2>4. CASE ~(n = cur /\ ch = c)
    <3>1. CASE \E d \in Places(nd, n) : E(n, d).ch = ch
      <4>1. PICK d \in Places(nd, n) : E(n, d).ch = ch
        BY <3>1
      <4>2. Hop(nd, ix, n, ch) = E(n, d).pNode
        BY <4>1, HopIs DEF E
      <4>3. d \in Places(nd2, n) /\ E2(n, d) = E(n, d)
        BY <1>4
      <4>. QED BY <2>1, <2>4, <4>1, <4>2, <4>3
    <3>2. CASE \A d \in Places(nd, n) : E(n, d).ch # ch
      <4>1. Hop(nd, ix, n, ch) = None
        BY <3>2, HopIs DEF E
      <4>2. ASSUME NEW d \in Places(nd2, n) PROVE E2(n, d).ch # ch
        <5>1. CASE Old(n, d)
          BY <1>4, <3>2, <5>1
        <5>2. CASE New(n, d)
          BY <1>5, <2>4, <5>2
        <5>. QED BY <1>1, <1>3, <5>1, <5>2
      <4>. QED BY <2>2, <2>4, <4>1, <4>2
    <3>. QED BY <3>1, <3>2
  <2>. QED BY <2>3, <2>4
<1>. QED BY <1>12, <1>13, <1>14

\* Walks lead where they led, or where they led nowhere to the new child.
LEMMA GrownWalks ==
  ASSUME NEW nd, NEW ix, Memory(nd, ix), NEW N, Tree(nd, ix, N),
         NEW nd2, NEW ix2, Memory(nd2, ix2), Tree(nd2, ix2, N + 1),
         NEW cur, NEW c, Hop(nd, ix, cur, c) = None,
         \A n \in 0 .. (N - 1), ch \in Chars :
           Hop(nd2, ix2, n, ch) = IF n = cur /\ ch = c THEN N ELSE Hop(nd, ix, n, ch),
         \A ch \in Chars : Hop(nd2, ix2, N, ch) = None,
         NEW key \in Seq(Chars)
  PROVE  \A i \in 0 .. Len(key) :
           \/ WalkOf(nd2, ix2, key)[i] = WalkOf(nd, ix, key)[i]
           \/ WalkOf(nd, ix, key)[i] = None /\ WalkOf(nd2, ix2, key)[i] = N
<1>. DEFINE v == WalkOf(nd, ix, key)
            w == WalkOf(nd2, ix2, key)
            Fine(i) == w[i] = v[i] \/ (v[i] = None /\ w[i] = N)
            G == {i \in Nat : i <= Len(key) => Fine(i)}
<1>1. Len(key) \in Nat /\ N \in 1 .. MaxNode /\ MaxNode \in Nat
  BY LenProperties, TrieAssumption DEF Tree
<1>2. /\ v \in [0 .. Len(key) -> {None} \cup 0 .. (N - 1)] /\ v[0] = 0
      /\ \A i \in 1 .. Len(key) :
           /\ key[i] \in Chars /\ i - 1 \in 0 .. Len(key)
           /\ v[i] = IF v[i - 1] = None THEN None ELSE Hop(nd, ix, v[i - 1], key[i])
  BY WalkSteps
<1>3. /\ w[0] = 0
      /\ \A i \in 1 .. Len(key) :
           w[i] = IF w[i - 1] = None THEN None ELSE Hop(nd2, ix2, w[i - 1], key[i])
  BY WalkSteps
<1>. HIDE DEF v, w
<1>4. 0 \in G
  BY <1>2, <1>3
<1>5. ASSUME NEW i \in Nat, i \in G PROVE i + 1 \in G
  <2>. SUFFICES ASSUME i + 1 <= Len(key) PROVE Fine(i + 1)
    OBVIOUS
  <2>1. i + 1 \in 1 .. Len(key) /\ (i + 1) - 1 = i /\ Fine(i) /\ i \in 0 .. Len(key)
    BY <1>1, <1>5
  <2>2. /\ key[i + 1] \in Chars
        /\ v[i + 1] = IF v[i] = None THEN None ELSE Hop(nd, ix, v[i], key[i + 1])
        /\ w[i + 1] = IF w[i] = None THEN None ELSE Hop(nd2, ix2, w[i], key[i + 1])
    <3>. HIDE DEF G, Fine
    <3>1. PICK m \in 1 .. Len(key) : m = i + 1 /\ m - 1 = i
      BY <2>1
    <3>2. key[m] \in Chars /\ v[m] = IF v[m - 1] = None THEN None ELSE Hop(nd, ix, v[m - 1], key[m])
      BY <1>2
    <3>3. w[m] = IF w[m - 1] = None THEN None ELSE Hop(nd2, ix2, w[m - 1], key[m])
      BY <1>3
    <3>. QED BY <3>1, <3>2, <3>3
  <2>. HIDE DEF G
  <2>3. v[i] \in {None} \cup 0 .. (N - 1) /\ N # None
    <3>1. v \in [0 .. Len(key) -> {None} \cup 0 .. (N - 1)] /\ i \in 0 .. Len(key)
      BY <1>2, <2>1
    <3>2. N # None
      BY <1>1 DEF None
    <3>. QED BY <3>1, <3>2
  <2>4. CASE v[i] = None /\ w[i] = None
    BY <2>2, <2>4
  <2>5. CASE v[i] = None /\ w[i] = N
    BY <2>2, <2>3, <2>5
  <2>6. CASE v[i] # None
    <3>1. w[i] = v[i] /\ v[i] \in 0 .. (N - 1)
      BY <2>1, <2>3, <2>6
    <3>. QED BY <2>2, <2>6, <3>1
  <2>. QED BY <2>1, <2>4, <2>5, <2>6
<1>. HIDE DEF G, Fine
<1>6. \A i \in 0 .. Len(key) : Fine(i)
  <2>1. Nat \subseteq G
    BY <1>4, <1>5, Induction
  <2>. QED BY <1>1, <2>1 DEF G
<1>. QED BY <1>6 DEF Fine, v, w

-------------------------------------------------------------------------------
(***************************************************************************)
(* Arrays that change hands.                                               *)
(***************************************************************************)
\* Arrays of the nodes of nd and of the pool pl: all below off, no two with an entry
\* in common.
NodesApart(nd, N) ==
  \A n, m \in 0 .. (N - 1) : n # m => ArrayOf(nd, n) \cap ArrayOf(nd, m) = {}

Below(nd, N, off) == \A n \in 0 .. (N - 1) : ArrayOf(nd, n) \subseteq 1 .. (off - 1)

PoolBelow(pl, off) ==
  \A k \in 1 .. (Cardinality(Chars) + 1) : \A a \in 1 .. Len(pl[k]) :
    Entries(pl[k][a], k) \subseteq 1 .. (off - 1)

PoolFree(nd, N, pl) ==
  \A n \in 0 .. (N - 1) : \A k \in 1 .. (Cardinality(Chars) + 1) : \A a \in 1 .. Len(pl[k]) :
    ArrayOf(nd, n) \cap Entries(pl[k][a], k) = {}

PoolApart(pl) ==
  \A j, k \in 1 .. (Cardinality(Chars) + 1) : \A a \in 1 .. Len(pl[j]), b \in 1 .. Len(pl[k]) :
    j # k \/ a # b => Entries(pl[j][a], j) \cap Entries(pl[k][b], k) = {}

Apart(nd, N, pl, off) ==
  /\ NodesApart(nd, N) /\ Below(nd, N, off)
  /\ PoolBelow(pl, off) /\ PoolFree(nd, N, pl) /\ PoolApart(pl)

\* In the other nodes nothing changes, and a node without children has no array.
LEMMA ApartStays ==
  ASSUME NEW nd, NEW N, NEW pl, NEW off, Apart(nd, N, pl, off),
         NEW nd2, NEW N2,
         \A n \in 0 .. (N2 - 1) :
           \/ ArrayOf(nd2, n) = {}
           \/ n \in 0 .. (N - 1) /\ ArrayOf(nd2, n) = ArrayOf(nd, n)
  PROVE  Apart(nd2, N2, pl, off)
<1>1. NodesApart(nd2, N2)
  <2>1. \A n, m \in 0 .. (N - 1) : n # m => ArrayOf(nd, n) \cap ArrayOf(nd, m) = {}
    BY DEF Apart, NodesApart
  <2>. QED BY <2>1 DEF NodesApart
<1>2. Below(nd2, N2, off)
  <2>1. \A n \in 0 .. (N - 1) : ArrayOf(nd, n) \subseteq 1 .. (off - 1)
    BY DEF Apart, Below
  <2>2. ASSUME NEW n \in 0 .. (N2 - 1) PROVE ArrayOf(nd2, n) \subseteq 1 .. (off - 1)
    <3>1. CASE ArrayOf(nd2, n) = {}
      BY <3>1
    <3>2. CASE n \in 0 .. (N - 1) /\ ArrayOf(nd2, n) = ArrayOf(nd, n)
      BY <2>1, <3>2
    <3>. QED BY <3>1, <3>2
  <2>. QED BY <2>2 DEF Below
<1>3. PoolFree(nd2, N2, pl)
  <2>1. PoolFree(nd, N, pl)
    BY DEF Apart
  <2>2. ASSUME NEW n \in 0 .. (N2 - 1), NEW k \in 1 .. (Cardinality(Chars) + 1),
               NEW a \in 1 .. Len(pl[k])
        PROVE  ArrayOf(nd2, n) \cap Entries(pl[k][a], k) = {}
    <3>1. CASE ArrayOf(nd2, n) = {}
      BY <3>1
    <3>2. CASE n \in 0 .. (N - 1) /\ ArrayOf(nd2, n) = ArrayOf(nd, n)
      BY <2>1, <3>2 DEF PoolFree
    <3>. QED BY <3>1, <3>2
  <2>. QED BY <2>2 DEF PoolFree
<1>. QED BY <1>1, <1>2, <1>3 DEF Apart

\* What kind of thing the pool is.
Pool(pl) == pl \in [1 .. (Cardinality(Chars) + 1) -> Seq(1 .. (MaxIndex - 1))]

\* A node gives its array to the pool of its length (trie.h:277-283).
LEMMA GivesBack ==
  ASSUME NEW nd, NEW N, NEW pl, Pool(pl), NEW off, Apart(nd, N, pl, off),
         NEW nd2, NEW n \in 0 .. (N - 1), ArrayOf(nd2, n) = {},
         \A m \in 0 .. (N - 1) : m # n => ArrayOf(nd2, m) = ArrayOf(nd, m),
         NEW k0 \in 1 .. (Cardinality(Chars) + 1), NEW at \in 1 .. (MaxIndex - 1),
         ArrayOf(nd, n) = Entries(at, k0),
         NEW pl2, pl2 = [pl EXCEPT ![k0] = Append(@, at)]
  PROVE  Pool(pl2) /\ Apart(nd2, N, pl2, off)
<1>. DEFINE Ks == 1 .. (Cardinality(Chars) + 1)
            Old(k, a) == a \in 1 .. Len(pl[k]) /\ pl2[k][a] = pl[k][a]
            New(k, a) == k = k0 /\ a = Len(pl[k0]) + 1 /\ pl2[k][a] = at
<1>1. /\ pl[k0] \in Seq(1 .. (MaxIndex - 1)) /\ Len(pl[k0]) \in Nat
      /\ pl2[k0] = Append(pl[k0], at) /\ \A k \in Ks : k # k0 => pl2[k] = pl[k]
  BY LenProperties DEF Pool
<1>2. /\ pl2[k0] \in Seq(1 .. (MaxIndex - 1)) /\ Len(pl2[k0]) = Len(pl[k0]) + 1
      /\ pl2[k0][Len(pl[k0]) + 1] = at /\ \A a \in 1 .. Len(pl[k0]) : pl2[k0][a] = pl[k0][a]
  <2>1. PICK s \in Seq(1 .. (MaxIndex - 1)) : s = pl[k0]
    BY <1>1
  <2>2. /\ Append(s, at) \in Seq(1 .. (MaxIndex - 1)) /\ Len(Append(s, at)) = Len(s) + 1
        /\ Append(s, at)[Len(s) + 1] = at /\ \A a \in 1 .. Len(s) : Append(s, at)[a] = s[a]
    BY AppendProperties
  <2>. QED BY <1>1, <2>1, <2>2
<1>3. Pool(pl2)
  <2>1. \A k \in Ks : pl2[k] \in Seq(1 .. (MaxIndex - 1))
    BY <1>1, <1>2 DEF Pool
  <2>. QED BY <2>1 DEF Pool
<1>4. ASSUME NEW k \in Ks, NEW a \in 1 .. Len(pl2[k]) PROVE Old(k, a) \/ New(k, a)
  <2>1. CASE k = k0
    <3>1. a \in 1 .. Len(pl[k0]) \/ a = Len(pl[k0]) + 1
      BY <1>1, <1>2, <2>1
    <3>. QED BY <1>2, <2>1, <3>1
  <2>2. CASE k # k0
    BY <1>1, <2>2
  <2>. QED BY <2>1, <2>2
<1>. HIDE DEF Ks
<1>5. Apart(nd2, N, pl, off)
  <2>1. \A m \in 0 .. (N - 1) : ArrayOf(nd2, m) = {} \/ ArrayOf(nd2, m) = ArrayOf(nd, m)
    OBVIOUS
  <2>. QED BY <2>1, ApartStays
<1>6. PoolBelow(pl2, off)
  <2>1. ASSUME NEW k \in Ks, NEW a \in 1 .. Len(pl2[k])
        PROVE  Entries(pl2[k][a], k) \subseteq 1 .. (off - 1)
    <3>1. CASE Old(k, a)
      BY <3>1 DEF Apart, PoolBelow, Ks
    <3>2. CASE New(k, a)
      BY <3>2 DEF Apart, Below
    <3>. QED BY <1>4, <3>1, <3>2
  <2>. QED BY <2>1 DEF PoolBelow, Ks
<1>7. PoolFree(nd2, N, pl2)
  <2>1. ASSUME NEW m \in 0 .. (N - 1), NEW k \in Ks, NEW a \in 1 .. Len(pl2[k])
        PROVE  ArrayOf(nd2, m) \cap Entries(pl2[k][a], k) = {}
    <3>1. CASE Old(k, a)
      BY <1>5, <3>1 DEF Apart, PoolFree, Ks
    <3>2. CASE New(k, a)
      <4>1. CASE m = n
        BY <4>1
      <4>2. CASE m # n
        BY <3>2, <4>2 DEF Apart, NodesApart
      <4>. QED BY <4>1, <4>2
    <3>. QED BY <1>4, <3>1, <3>2
  <2>. QED BY <2>1 DEF PoolFree, Ks
<1>8. PoolApart(pl2)
  <2>1. ASSUME NEW j \in Ks, NEW k \in Ks, NEW a \in 1 .. Len(pl2[j]), NEW b \in 1 .. Len(pl2[k]),
               j # k \/ a # b
        PROVE  Entries(pl2[j][a], j) \cap Entries(pl2[k][b], k) = {}
    <3>1. CASE Old(j, a) /\ Old(k, b)
      BY <2>1, <3>1 DEF Apart, PoolApart, Ks
    <3>2. CASE Old(j, a) /\ New(k, b)
      BY <3>2 DEF Apart, PoolFree, Ks
    <3>3. CASE New(j, a) /\ Old(k, b)
      BY <3>3 DEF Apart, PoolFree, Ks
    <3>4. CASE New(j, a) /\ New(k, b)
      BY <2>1, <3>4
    <3>. QED BY <1>4, <3>1, <3>2, <3>3, <3>4
  <2>. QED BY <2>1 DEF PoolApart, Ks
<1>. QED BY <1>3, <1>5, <1>6, <1>7, <1>8 DEF Apart

\* Node n of N takes the first array of the pool of length k0.
TakesFirst(nd, nd2, N, n, pl, pl2, k0, first) ==
  /\ \A m \in 0 .. (N - 1) : m # n => ArrayOf(nd2, m) = ArrayOf(nd, m)
  /\ pl[k0] # <<>> /\ first = Head(pl[k0]) /\ ArrayOf(nd2, n) = Entries(first, k0)
  /\ pl2 = [pl EXCEPT ![k0] = Tail(@)]

\* A node without an array takes the first of a pool (trie.h:285-293).
LEMMA TakesOld ==
  ASSUME NEW nd, NEW N, NEW pl, Pool(pl), NEW off, Apart(nd, N, pl, off),
         NEW nd2, NEW n \in 0 .. (N - 1), NEW k0 \in 1 .. (Cardinality(Chars) + 1),
         NEW first, NEW pl2, TakesFirst(nd, nd2, N, n, pl, pl2, k0, first)
  PROVE  /\ Pool(pl2) /\ Apart(nd2, N, pl2, off) /\ first \in 1 .. (MaxIndex - 1)
         /\ ArrayOf(nd2, n) \subseteq 1 .. (off - 1)
<1>. USE DEF TakesFirst
<1>. DEFINE Ks == 1 .. (Cardinality(Chars) + 1)
            Old(k, a) == IF k = k0 THEN a + 1 ELSE a
<1>1. /\ pl[k0] \in Seq(1 .. (MaxIndex - 1)) /\ pl2[k0] = Tail(pl[k0])
      /\ \A k \in Ks : k # k0 => pl2[k] = pl[k]
  BY DEF Pool
<1>2. /\ Head(pl[k0]) \in 1 .. (MaxIndex - 1) /\ Head(pl[k0]) = pl[k0][1]
      /\ 1 \in 1 .. Len(pl[k0])
      /\ pl2[k0] \in Seq(1 .. (MaxIndex - 1)) /\ Len(pl2[k0]) = Len(pl[k0]) - 1
      /\ Len(pl[k0]) \in Nat /\ \A a \in 1 .. Len(pl2[k0]) : pl2[k0][a] = pl[k0][a + 1]
  <2>1. PICK s \in Seq(1 .. (MaxIndex - 1)) : s = pl[k0]
    BY <1>1
  <2>2. s # <<>>
    BY <2>1
  <2>3. Len(s) \in Nat /\ Len(s) # 0 /\ Head(s) = s[1]
    BY <2>2, LenProperties, EmptySeq
  <2>4. Tail(s) \in Seq(1 .. (MaxIndex - 1)) /\ Head(s) \in 1 .. (MaxIndex - 1)
    BY <2>2, HeadTailProperties
  <2>5. Len(Tail(s)) = Len(s) - 1 /\ \A a \in 1 .. Len(Tail(s)) : Tail(s)[a] = s[a + 1]
    BY <2>2, HeadTailProperties
  <2>6. 1 \in 1 .. Len(s)
    BY <2>3
  <2>7. pl2[k0] = Tail(s)
    BY <1>1, <2>1
  <2>. HIDE DEF Ks, Old
  <2>8. Len(pl2[k0]) = Len(pl[k0]) - 1
    BY <2>1, <2>5, <2>7
  <2>9. \A a \in 1 .. Len(pl2[k0]) : pl2[k0][a] = pl[k0][a + 1]
    BY <2>1, <2>5, <2>7
  <2>. QED BY <2>1, <2>3, <2>4, <2>6, <2>7, <2>8, <2>9
<1>3. Pool(pl2)
  <2>1. \A k \in Ks : pl2[k] \in Seq(1 .. (MaxIndex - 1))
    BY <1>1, <1>2 DEF Pool
  <2>. QED BY <2>1 DEF Pool
<1>4. ASSUME NEW k \in Ks, NEW a \in 1 .. Len(pl2[k])
      PROVE  Old(k, a) \in 1 .. Len(pl[k]) /\ pl2[k][a] = pl[k][Old(k, a)] /\ a \in Int
             /\ (k = k0 => Old(k, a) # 1)
  <2>1. CASE k = k0
    BY <1>2, <2>1
  <2>2. CASE k # k0
    BY <1>1, <2>2
  <2>. QED BY <2>1, <2>2
<1>5. ASSUME NEW j \in Ks, NEW k \in Ks, NEW a \in 1 .. Len(pl2[j]), NEW b \in 1 .. Len(pl2[k]),
             j # k \/ a # b
      PROVE  j # k \/ Old(j, a) # Old(k, b)
  BY <1>5
<1>. HIDE DEF Ks, Old
<1>6. PoolBelow(pl2, off)
  <2>1. ASSUME NEW k \in Ks, NEW a \in 1 .. Len(pl2[k])
        PROVE  Entries(pl2[k][a], k) \subseteq 1 .. (off - 1)
    BY <1>4 DEF Apart, PoolBelow, Ks
  <2>. QED BY <2>1 DEF PoolBelow, Ks
<1>7. PoolApart(pl2)
  <2>1. ASSUME NEW j \in Ks, NEW k \in Ks, NEW a \in 1 .. Len(pl2[j]), NEW b \in 1 .. Len(pl2[k]),
               j # k \/ a # b
        PROVE  Entries(pl2[j][a], j) \cap Entries(pl2[k][b], k) = {}
    <3>1. j # k \/ Old(j, a) # Old(k, b)
      BY <1>5, <2>1
    <3>2. /\ Old(j, a) \in 1 .. Len(pl[j]) /\ pl2[j][a] = pl[j][Old(j, a)]
          /\ Old(k, b) \in 1 .. Len(pl[k]) /\ pl2[k][b] = pl[k][Old(k, b)]
      BY <1>4
    <3>. QED BY <3>1, <3>2 DEF Apart, PoolApart, Ks
  <2>. QED BY <2>1 DEF PoolApart, Ks
<1>8. PoolFree(nd2, N, pl2)
  <2>1. ASSUME NEW m \in 0 .. (N - 1), NEW k \in Ks, NEW a \in 1 .. Len(pl2[k])
        PROVE  ArrayOf(nd2, m) \cap Entries(pl2[k][a], k) = {}
    <3>1. Old(k, a) \in 1 .. Len(pl[k]) /\ pl2[k][a] = pl[k][Old(k, a)]
      BY <1>4
    <3>2. CASE m = n
      <4>1. k # k0 \/ Old(k, a) # 1
        BY <1>4
      <4>2. Entries(pl[k0][1], k0) \cap Entries(pl[k][Old(k, a)], k) = {}
        BY <1>2, <3>1, <4>1 DEF Apart, PoolApart, Ks
      <4>. QED BY <1>2, <3>1, <3>2, <4>2
    <3>3. CASE m # n
      BY <3>1, <3>3 DEF Apart, PoolFree, Ks
    <3>. QED BY <3>2, <3>3
  <2>. QED BY <2>1 DEF PoolFree, Ks
<1>9. ArrayOf(nd2, n) \subseteq 1 .. (off - 1)
  BY <1>2 DEF Apart, PoolBelow
<1>10. Below(nd2, N, off)
  BY <1>9 DEF Apart, Below
<1>11. NodesApart(nd2, N)
  <2>1. ASSUME NEW m \in 0 .. (N - 1), m # n PROVE ArrayOf(nd2, m) \cap ArrayOf(nd2, n) = {}
    BY <1>2, <2>1 DEF Apart, PoolFree
  <2>2. ASSUME NEW l \in 0 .. (N - 1), NEW m \in 0 .. (N - 1), l # m
        PROVE  ArrayOf(nd2, l) \cap ArrayOf(nd2, m) = {}
    <3>1. CASE l = n
      BY <2>1, <2>2, <3>1
    <3>2. CASE m = n
      BY <2>1, <2>2, <3>2
    <3>3. CASE l # n /\ m # n
      BY <2>2, <3>3 DEF Apart, NodesApart
    <3>. QED BY <3>1, <3>2, <3>3
  <2>. QED BY <2>2 DEF NodesApart
<1>. QED BY <1>2, <1>3, <1>6, <1>7, <1>8, <1>9, <1>10, <1>11 DEF Apart

\* A node without an array takes entries not handed out before (trie.h:295-303).
LEMMA TakesNew ==
  ASSUME NEW nd, NEW N, NEW pl, Pool(pl), NEW off \in Nat \ {0}, Apart(nd, N, pl, off),
         NEW nd2, NEW n \in 0 .. (N - 1),
         \A m \in 0 .. (N - 1) : m # n => ArrayOf(nd2, m) = ArrayOf(nd, m),
         NEW k0 \in Nat, ArrayOf(nd2, n) = Entries(off, k0)
  PROVE  Apart(nd2, N, pl, off + k0) /\ ArrayOf(nd2, n) \subseteq 1 .. (off + k0 - 1)
<1>. DEFINE Ks == 1 .. (Cardinality(Chars) + 1)
            New == off .. (off + k0 - 1)
<1>0. PICK end \in Nat : end = off + k0
  OBVIOUS
<1>1. /\ ArrayOf(nd2, n) = New /\ 1 .. (off - 1) \subseteq 1 .. (end - 1)
      /\ New \subseteq 1 .. (end - 1) /\ 1 .. (off - 1) \cap New = {}
  BY <1>0 DEF Entries
<1>. HIDE DEF Ks, New
<1>2. ASSUME NEW m \in 0 .. (N - 1), m # n
      PROVE  ArrayOf(nd2, m) = ArrayOf(nd, m) /\ ArrayOf(nd2, m) \subseteq 1 .. (off - 1)
  BY <1>2 DEF Apart, Below
<1>3. ASSUME NEW k \in Ks, NEW a \in 1 .. Len(pl[k])
      PROVE  Entries(pl[k][a], k) \subseteq 1 .. (off - 1)
  BY DEF Apart, PoolBelow, Ks
<1>4. Below(nd2, N, end)
  <2>1. ASSUME NEW m \in 0 .. (N - 1) PROVE ArrayOf(nd2, m) \subseteq 1 .. (end - 1)
    BY <1>1, <1>2
  <2>. QED BY <2>1 DEF Below
<1>5. PoolBelow(pl, end)
  <2>1. ASSUME NEW k \in Ks, NEW a \in 1 .. Len(pl[k])
        PROVE  Entries(pl[k][a], k) \subseteq 1 .. (end - 1)
    BY <1>1, <1>3
  <2>. QED BY <2>1 DEF PoolBelow, Ks
<1>6. PoolFree(nd2, N, pl)
  <2>1. ASSUME NEW m \in 0 .. (N - 1), NEW k \in Ks, NEW a \in 1 .. Len(pl[k])
        PROVE  ArrayOf(nd2, m) \cap Entries(pl[k][a], k) = {}
    <3>1. CASE m = n
      BY <1>1, <1>3, <3>1
    <3>2. CASE m # n
      BY <1>2, <3>2 DEF Apart, PoolFree, Ks
    <3>. QED BY <3>1, <3>2
  <2>. QED BY <2>1 DEF PoolFree, Ks
<1>7. NodesApart(nd2, N)
  <2>1. ASSUME NEW m \in 0 .. (N - 1), m # n PROVE ArrayOf(nd2, m) \cap ArrayOf(nd2, n) = {}
    BY <1>1, <1>2, <2>1
  <2>2. ASSUME NEW l \in 0 .. (N - 1), NEW m \in 0 .. (N - 1), l # m
        PROVE  ArrayOf(nd2, l) \cap ArrayOf(nd2, m) = {}
    <3>1. CASE l = n
      BY <2>1, <2>2, <3>1
    <3>2. CASE m = n
      BY <2>1, <2>2, <3>2
    <3>3. CASE l # n /\ m # n
      BY <1>2, <2>2, <3>3 DEF Apart, NodesApart
    <3>. QED BY <3>1, <3>2, <3>3
  <2>. QED BY <2>2 DEF NodesApart
<1>8. PoolApart(pl)
  BY DEF Apart
<1>. QED BY <1>0, <1>1, <1>4, <1>5, <1>6, <1>7, <1>8 DEF Apart

-------------------------------------------------------------------------------
(***************************************************************************)
(* The inductive invariant.                                                *)
(***************************************************************************)
\* Between its two stores the array that moves is out of reach: size counts one entry
\* more than pIndex leads to.  Held has the node at the new array, with the room for
\* the new entry, Seen without it.
Held ==
  IF adding.array = None THEN node ELSE [node EXCEPT ![adding.cur].pIndex = adding.array]
Seen ==
  IF adding.array = None THEN node
  ELSE [node EXCEPT ![adding.cur].pIndex = adding.array, ![adding.cur].size = @ - 1]

\* the status find gives for a key
StatusAt(nd, n) == IF n = None THEN None ELSE nd[n].status
Agree(nd, ix, st) == \A key \in Words : st[key] = StatusAt(nd, WalkOf(nd, ix, key)[Len(key)])

\* add has come down to a node, and moves its array for want of the character there
AtNode == adding # NotAdding => WalkOf(Seen, index, adding.key)[adding.i] = adding.cur

Moving ==
  adding.array # None =>
    /\ adding # NotAdding
    /\ node[adding.cur].size >= 1 /\ iNodeOffset + 1 <= MaxNode
    /\ Hop(Seen, index, adding.cur, ch_i) = None

Sound ==
  /\ Tree(Seen, index, iNodeOffset)
  /\ Apart(Held, iNodeOffset, pool, iIndexOffset)
  /\ AtNode /\ Moving
  /\ ~torn => Agree(Seen, index, told)

IInv ==
  /\ TypeOK
  /\ starved => adding = NotAdding
  /\ ~starved => Sound

\* What a step leaves of the walks and of the root, which stands for no word.
Kept ==
  /\ \A key \in Seq(Chars) : \A i \in 0 .. Len(key) :
       WalkOf(Seen, index, key)[i] # None
         => WalkOf(Seen', index', key)[i] = WalkOf(Seen, index, key)[i]
  /\ node[0].status = None => node'[0].status = None

-------------------------------------------------------------------------------
LEMMA KeyIs ==
  ASSUME NEW key \in Words
  PROVE  key \in Seq(Chars) /\ Len(key) \in Nat /\ Len(key) >= 1
<1>1. PICK n \in 1 .. MaxLen : key \in [1 .. n -> Chars]
  BY DEF Words
<1>2. n \in Nat /\ n >= 1
  BY TrieAssumption
<1>3. key \in Seq(Chars)
  BY <1>1, <1>2, SeqDef
<1>4. Len(key) = n
  BY <1>1, <1>2, <1>3, LenProperties
<1>. QED BY <1>2, <1>3, <1>4

\* A change of status moves nothing.
LEMMA SameShape ==
  ASSUME NEW nd, NEW ix, Memory(nd, ix), NEW N, Tree(nd, ix, N), NEW nd2, Memory(nd2, ix),
         \A n \in 0 .. (N - 1) : nd2[n].pIndex = nd[n].pIndex /\ nd2[n].size = nd[n].size
  PROVE  /\ Tree(nd2, ix, N)
         /\ \A n \in 0 .. (N - 1) : ArrayOf(nd2, n) = ArrayOf(nd, n)
         /\ \A n \in 0 .. (N - 1), ch \in Chars : Hop(nd2, ix, n, ch) = Hop(nd, ix, n, ch)
         /\ \A key \in Seq(Chars) : WalkOf(nd2, ix, key) = WalkOf(nd, ix, key)
<1>1. \A n \in 0 .. (N - 1) : ArrayOf(nd2, n) = ArrayOf(nd, n)
  BY DEF ArrayOf
<1>2. \A n \in 0 .. (N - 1) : ArrayOf(nd2, n) \subseteq 1 .. (MaxIndex - 1)
  BY <1>1 DEF Tree
<1>3. \A n \in 0 .. (N - 1) : \A d \in Places(nd, n) : Entry(nd2, ix, n, d) = Entry(nd, ix, n, d)
  BY DEF Entry
<1>4. /\ Tree(nd2, ix, N)
      /\ \A n \in 0 .. (N - 1), ch \in Chars : Hop(nd2, ix, n, ch) = Hop(nd, ix, n, ch)
  BY <1>2, <1>3, SameEntries
<1>5. \A key \in Seq(Chars) : WalkOf(nd2, ix, key) = WalkOf(nd, ix, key)
  BY <1>4, SameWalks
<1>. QED BY <1>1, <1>4, <1>5

\* The children of a node that lacks a character are fewer than the characters.
LEMMA RoomForOne ==
  ASSUME NEW nd, NEW ix, Memory(nd, ix), NEW N, Tree(nd, ix, N), NEW n \in 0 .. (N - 1),
         NEW c \in Chars, Hop(nd, ix, n, c) = None
  PROVE  nd[n].size \in Nat /\ nd[n].size + 1 \in 1 .. Cardinality(Chars)
<1>. DEFINE f == [d \in Places(nd, n) |-> Entry(nd, ix, n, d).ch]
<1>1. N \in 1 .. MaxNode /\ MaxNode \in Nat
  BY TrieAssumption DEF Tree
<1>2. nd[n] \in NodeRec
  BY <1>1 DEF Memory
<1>3. IsFiniteSet(Chars) /\ Cardinality(Chars) \in Nat
  BY TrieAssumption, FS_CardinalityType
<1>4. nd[n].size \in Nat
  BY <1>2, <1>3 DEF NodeRec
<1>5. IsFiniteSet(Chars \ {c}) /\ Cardinality(Chars \ {c}) = Cardinality(Chars) - 1
  BY <1>3, FS_RemoveElement
<1>6. ASSUME NEW d \in Places(nd, n) PROVE Entry(nd, ix, n, d).ch \in Chars \ {c}
  <2>1. Entry(nd, ix, n, d).ch \in Chars /\ Entry(nd, ix, n, d).pNode \in 1 .. (N - 1)
    BY DEF Tree
  <2>2. Entry(nd, ix, n, d).ch = c => Entry(nd, ix, n, d).pNode = None
    BY HopIs
  <2>. QED BY <2>1, <2>2 DEF None
<1>7. f \in Injection(Places(nd, n), Chars \ {c})
  <2>1. f \in [Places(nd, n) -> Chars \ {c}]
    BY <1>6
  <2>2. \A d, e \in Places(nd, n) : f[d] = f[e] => d = e
    BY DEF Tree
  <2>. HIDE DEF f
  <2>. QED BY <2>1, <2>2 DEF Injection, IsInjective
<1>8. Cardinality(Places(nd, n)) <= Cardinality(Chars \ {c})
  BY <1>5, <1>7, FS_Injection
<1>9. Cardinality(Places(nd, n)) = nd[n].size
  <2>1. PICK s \in Nat : s = nd[n].size
    BY <1>4
  <2>2. Cardinality(0 .. (s - 1)) = IF 0 > s - 1 THEN 0 ELSE (s - 1) - 0 + 1
    BY FS_Interval
  <2>. QED BY <2>1, <2>2 DEF Places
<1>. QED BY <1>3, <1>4, <1>5, <1>8, <1>9

\* The call of add on the stack.
LEMMA AddingIs ==
  ASSUME TypeOK, adding # NotAdding
  PROVE  /\ adding \in [key : Words, status : Statuses, i : Nat, cur : Nodes,
                        array : {None} \cup 1 .. (MaxIndex - 1)]
         /\ adding.key \in Words /\ adding.key \in Seq(Chars) /\ adding.status \in Statuses
         /\ Len(adding.key) \in Nat /\ adding.i \in Nat
         /\ adding.i \in 0 .. Len(adding.key) /\ adding.i + 1 \in 1 .. Len(adding.key)
         /\ adding.cur \in 0 .. (iNodeOffset - 1) /\ adding.cur \in 0 .. (MaxNode - 1)
         /\ adding.array \in {None} \cup 1 .. (MaxIndex - 1) /\ ch_i \in Chars
<1>1. /\ adding \in [key : Words, status : Statuses, i : Nat, cur : Nodes,
                     array : {None} \cup 1 .. (MaxIndex - 1)]
      /\ adding.i < Len(adding.key) /\ iNodeOffset \in 1 .. MaxNode /\ MaxNode \in Nat
  BY TrieAssumption DEF TypeOK
<1>2. /\ adding.key \in Words /\ adding.status \in Statuses /\ adding.i \in Nat
      /\ adding.cur \in Nodes /\ adding.array \in {None} \cup 1 .. (MaxIndex - 1)
  BY <1>1
<1>3. adding.key \in Seq(Chars) /\ Len(adding.key) \in Nat
  BY <1>2, KeyIs
<1>4. adding.i \in 0 .. Len(adding.key) /\ adding.i + 1 \in 1 .. Len(adding.key)
  BY <1>1, <1>2, <1>3
<1>5. ch_i \in Chars
  BY <1>3, <1>4, ElementOfSeq DEF ch_i
<1>6. adding.cur \in 0 .. (iNodeOffset - 1) /\ adding.cur \in 0 .. (MaxNode - 1)
  BY <1>1, <1>2 DEF Nodes
<1>. QED BY <1>1, <1>2, <1>3, <1>4, <1>5, <1>6

LEMMA Idle == NotAdding.array = None
  BY DEF NotAdding

LEMMA MemoryIs ==
  ASSUME TypeOK
  PROVE  /\ Memory(node, index) /\ Pool(pool)
         /\ iNodeOffset \in 1 .. MaxNode /\ MaxNode \in Nat /\ iNodeOffset \in Nat
         /\ iIndexOffset \in 1 .. MaxIndex /\ MaxIndex \in Nat /\ iIndexOffset \in Nat \ {0}
<1>1. node \in [0 .. (MaxNode - 1) -> NodeRec]
  BY DEF TypeOK, NodeRec
<1>2. index \in [0 .. (MaxIndex - 1) -> EntryRec]
  BY DEF TypeOK, EntryRec
<1>. QED BY <1>1, <1>2, TrieAssumption DEF TypeOK, Memory, Pool

\* Without an array that moves what is seen is what there is.
LEMMA Still == adding.array = None => Seen = node /\ Held = node
  BY DEF Seen, Held

\* add between two characters: where the walk of its key stands and goes from there.
LEMMA Walking ==
  ASSUME IInv, Walks
  PROVE  /\ ~starved /\ Memory(node, index) /\ Tree(node, index, iNodeOffset)
         /\ Apart(node, iNodeOffset, pool, iIndexOffset)
         /\ ~torn => Agree(node, index, told)
         /\ GetNextNode(adding.cur, ch_i) = Hop(node, index, adding.cur, ch_i)
         /\ WalkOf(node, index, adding.key)[adding.i] = adding.cur
         /\ WalkOf(node, index, adding.key)[adding.i + 1] = Hop(node, index, adding.cur, ch_i)
<1>1. TypeOK /\ adding # NotAdding /\ adding.array = None /\ ~starved /\ Sound
  BY DEF IInv, Walks
<1>2. Seen = node /\ Held = node
  BY <1>1, Still
<1>3. Memory(node, index)
  BY <1>1, MemoryIs
<1>4. /\ Tree(node, index, iNodeOffset) /\ Apart(node, iNodeOffset, pool, iIndexOffset)
      /\ ~torn => Agree(node, index, told)
      /\ WalkOf(node, index, adding.key)[adding.i] = adding.cur
  BY <1>1, <1>2 DEF Sound, AtNode
<1>5. GetNextNode(adding.cur, ch_i) = Hop(node, index, adding.cur, ch_i)
  BY DEF GetNextNode, Lookup, Hop
<1>6. /\ adding.key \in Seq(Chars) /\ adding.i \in Nat /\ adding.i + 1 \in 1 .. Len(adding.key)
      /\ adding.cur \in 0 .. (iNodeOffset - 1) /\ iNodeOffset \in Nat
  BY <1>1, AddingIs, MemoryIs
<1>7. adding.cur # None /\ (adding.i + 1) - 1 = adding.i
  BY <1>6 DEF None
<1>8. WalkOf(node, index, adding.key)[adding.i + 1] = Hop(node, index, adding.cur, ch_i)
  <2>1. PICK key \in Seq(Chars) : key = adding.key
    BY <1>6
  <2>2. PICK i \in 1 .. Len(key) : i = adding.i + 1
    BY <1>6, <2>1
  <2>3. WalkOf(node, index, key)[i] =
          IF WalkOf(node, index, key)[i - 1] = None THEN None
          ELSE Hop(node, index, WalkOf(node, index, key)[i - 1], key[i])
    BY <1>3, <1>4, WalkSteps
  <2>. QED BY <1>4, <1>7, <2>1, <2>2, <2>3 DEF ch_i
<1>. QED BY <1>1, <1>3, <1>4, <1>5, <1>8

\* The key of a node is the one found there.
LEMMA SameKey ==
  ASSUME NEW nd, NEW ix, Memory(nd, ix), NEW N, Tree(nd, ix, N), NEW k1 \in Words, NEW k2 \in Words,
         WalkOf(nd, ix, k1)[Len(k1)] = WalkOf(nd, ix, k2)[Len(k2)],
         WalkOf(nd, ix, k1)[Len(k1)] # None
  PROVE  k1 = k2
<1>1. /\ k1 \in Seq(Chars) /\ k2 \in Seq(Chars)
      /\ Len(k1) \in 0 .. Len(k1) /\ Len(k2) \in 0 .. Len(k2)
  BY KeyIs
<1>2. Len(k1) = Len(k2) /\ \A l \in 1 .. Len(k1) : k1[l] = k2[l]
  BY <1>1, OneKeyThere
<1>. QED BY <1>1, <1>2, SeqEqual

-------------------------------------------------------------------------------
(***************************************************************************)
(* The steps of add that store no array.                                   *)
(***************************************************************************)
\* What leaves the calls of del alone.
LEMMA CallsStay == ASSUME TypeOK, deleting' = deleting PROVE CallsOK'
  BY DEF TypeOK, CallsOK, AtEnd

LEMMA IInvInit == Init => IInv
<1>. SUFFICES ASSUME Init PROVE IInv
  OBVIOUS
<1>1. /\ MaxNode \in Nat \ {0} /\ MaxIndex \in Nat \ {0} /\ MaxDels \in Nat
      /\ Cardinality(Chars) \in Nat
  BY TrieAssumption, FS_CardinalityType
<1>2. TypeOK
  <2>1. node \in [0 .. (MaxNode - 1) -> [pIndex : Nat, status : Statuses \cup {None},
                                         size : 0 .. Cardinality(Chars)]]
    BY <1>1 DEF Blank, Init
  <2>2. index \in [0 .. (MaxIndex - 1) -> [pNode : 0 .. (MaxNode - 1), ch : Chars \cup {None}]]
    BY <1>1 DEF Init
  <2>3. pool \in [1 .. (Cardinality(Chars) + 1) -> Seq(1 .. (MaxIndex - 1))]
    <3>1. <<>> \in Seq(1 .. (MaxIndex - 1))
      OBVIOUS
    <3>. QED BY <3>1 DEF Init
  <2>4. /\ iNodeOffset \in 1 .. MaxNode /\ iIndexOffset \in 1 .. MaxIndex /\ dels \in 0 .. MaxDels
    <3>1. iNodeOffset = 1 /\ iIndexOffset = 1 /\ dels = 0
      BY DEF Init
    <3>. QED BY <1>1, <3>1
  <2>5. adding = NotAdding /\ starved \in BOOLEAN /\ torn \in BOOLEAN
    BY DEF Init
  <2>6. told \in [Words -> Statuses \cup {None}]
    BY DEF Init
  <2>7. CallsOK
    <3>1. deleting = [d \in 1 .. MaxDels |-> NotDeleting]
      BY DEF Init
    <3>2. NotDeleting.i = 0 /\ NotDeleting.array = None /\ Len(NotDeleting.key) = 0
      BY DEF NotDeleting
    <3>. QED BY <3>1, <3>2 DEF CallsOK
  <2>. QED BY <2>1, <2>2, <2>3, <2>4, <2>5, <2>6, <2>7 DEF TypeOK
<1>3. Memory(node, index) /\ Seen = node /\ Held = node
  BY <1>2, MemoryIs, Idle, Still DEF Init
<1>4. ASSUME NEW n \in 0 .. (iNodeOffset - 1)
      PROVE  n = 0 /\ ArrayOf(node, n) = {} /\ Places(node, n) = {}
  BY <1>1 DEF Init, Blank, ArrayOf, Entries, Places
<1>5. Tree(node, index, iNodeOffset)
  <2>1. iNodeOffset \in 1 .. MaxNode
    BY <1>1 DEF Init
  <2>. QED BY <1>4, <2>1 DEF Tree
<1>6. Apart(node, iNodeOffset, pool, iIndexOffset)
  <2>1. \A k \in 1 .. (Cardinality(Chars) + 1) : 1 .. Len(pool[k]) = {}
    BY DEF Init
  <2>2. NodesApart(node, iNodeOffset) /\ Below(node, iNodeOffset, iIndexOffset)
    BY <1>4 DEF NodesApart, Below
  <2>3. PoolBelow(pool, iIndexOffset) /\ PoolFree(node, iNodeOffset, pool) /\ PoolApart(pool)
    BY <2>1 DEF PoolBelow, PoolFree, PoolApart
  <2>. QED BY <2>2, <2>3 DEF Apart
<1>7. Agree(node, index, told)
  <2>1. ASSUME NEW key \in Words PROVE told[key] = StatusAt(node, WalkOf(node, index, key)[Len(key)])
    <3>1. key \in Seq(Chars) /\ Len(key) \in 0 .. Len(key)
      BY KeyIs
    <3>2. WalkOf(node, index, key)[Len(key)] \in {None} \cup 0 .. (iNodeOffset - 1)
      BY <1>3, <1>5, <3>1, WalkSteps
    <3>3. \A n \in 0 .. (iNodeOffset - 1) : node[n].status = None
      BY <1>1 DEF Blank, Init
    <3>. QED BY <3>2, <3>3 DEF StatusAt, Init
  <2>. QED BY <2>1 DEF Agree
<1>8. AtNode /\ Moving
  BY Idle DEF AtNode, Moving, Init
<1>. QED BY <1>2, <1>3, <1>5, <1>6, <1>7, <1>8 DEF IInv, Sound, Init

LEMMA AddKeeps ==
  ASSUME IInv, NEW key \in Words, NEW status \in Statuses, Add(key, status)
  PROVE  IInv' /\ Kept
<1>1. /\ ~starved /\ ~torn /\ adding = NotAdding /\ UNCHANGED <<trie, told, starved, torn, dels, deleting>>
      /\ adding' = [key |-> key, status |-> status, i |-> 0, cur |-> 0, array |-> None]
  BY DEF Add
<1>2. /\ UNCHANGED <<node, index, iNodeOffset, iIndexOffset, pool, told, starved, torn, dels, deleting>>
  BY <1>1 DEF trie
<1>3. TypeOK /\ Sound
  BY <1>1 DEF IInv
<1>4. key \in Seq(Chars) /\ Len(key) >= 1 /\ Len(key) \in Nat
  BY KeyIs
<1>5. Memory(node, index) /\ iNodeOffset \in 1 .. MaxNode /\ MaxNode \in Nat
  BY <1>3, MemoryIs
<1>6. /\ adding'.array = None /\ adding'.key = key /\ adding'.i = 0 /\ adding'.cur = 0
      /\ Seen = node /\ Held = node
  BY <1>1, Idle, Still
<1>7. Seen' = node /\ Held' = node
  BY <1>2, <1>6 DEF Seen, Held
<1>8. TypeOK'
  <2>1. 0 \in Nodes'
    BY <1>2, <1>5 DEF Nodes
  <2>. QED BY <1>1, <1>2, <1>3, <1>4, <2>1, CallsStay DEF TypeOK
<1>9. Tree(Seen', index', iNodeOffset') /\ Apart(Held', iNodeOffset', pool', iIndexOffset')
  BY <1>2, <1>3, <1>6, <1>7 DEF Sound
<1>10. ~torn' => Agree(Seen', index', told')
  BY <1>2, <1>3, <1>6, <1>7 DEF Sound
<1>11. AtNode'
  <2>1. WalkOf(node, index, key)[0] = 0
    BY <1>3, <1>4, <1>5, <1>6, WalkSteps DEF Sound
  <2>. QED BY <1>2, <1>6, <1>7, <2>1 DEF AtNode
<1>12. Moving'
  BY <1>6 DEF Moving
<1>13. Kept
  BY <1>2, <1>6, <1>7 DEF Kept
<1>. QED BY <1>1, <1>2, <1>8, <1>9, <1>10, <1>11, <1>12, <1>13 DEF IInv, Sound

LEMMA GoDownKeeps == ASSUME IInv, GoDown PROVE IInv' /\ Kept
<1>. DEFINE key == adding.key
            next == GetNextNode(adding.cur, ch_i)
<1>1. /\ Walks /\ next # None /\ node' = Marked(node, next) /\ Proceed(next)
      /\ UNCHANGED <<index, iNodeOffset, iIndexOffset, pool, starved, torn, dels, deleting>>
  BY DEF GoDown
<1>2. TypeOK /\ adding # NotAdding /\ adding.array = None /\ Seen = node /\ Held = node
  BY <1>1, Still DEF IInv, Walks
<1>3. /\ adding \in [key : Words, status : Statuses, i : Nat, cur : Nodes,
                     array : {None} \cup 1 .. (MaxIndex - 1)]
      /\ key \in Words /\ key \in Seq(Chars) /\ adding.status \in Statuses
      /\ Len(key) \in Nat /\ adding.i \in Nat /\ adding.i + 1 \in 1 .. Len(key)
      /\ adding.cur \in 0 .. (iNodeOffset - 1) /\ ch_i \in Chars
  BY <1>2, AddingIs
<1>4. /\ ~starved /\ Memory(node, index) /\ Tree(node, index, iNodeOffset)
      /\ Apart(node, iNodeOffset, pool, iIndexOffset)
      /\ ~torn => Agree(node, index, told)
      /\ next = Hop(node, index, adding.cur, ch_i)
      /\ WalkOf(node, index, key)[adding.i + 1] = next
  BY <1>1, Walking
<1>5. next \in 1 .. (iNodeOffset - 1) /\ next \in 0 .. (MaxNode - 1)
  <2>1. next \in 1 .. (iNodeOffset - 1)
    BY <1>1, <1>3, <1>4, HopFrom
  <2>. QED BY <1>2, <2>1, MemoryIs
<1>. HIDE DEF key, next
<1>6. /\ node' \in [0 .. (MaxNode - 1) -> NodeRec]
      /\ \A n \in 0 .. (MaxNode - 1) :
           /\ node'[n].pIndex = node[n].pIndex /\ node'[n].size = node[n].size
           /\ node'[n].status = IF IsLast /\ n = next THEN adding.status ELSE node[n].status
  <2>1. node \in [0 .. (MaxNode - 1) -> NodeRec]
    BY <1>4 DEF Memory
  <2>2. CASE IsLast
    <3>1. node' = [node EXCEPT ![next].status = adding.status]
      BY <1>1, <2>2 DEF Marked
    <3>. QED BY <1>3, <1>5, <2>1, <2>2, <3>1 DEF NodeRec
  <2>3. CASE ~IsLast
    BY <1>1, <2>1, <2>3 DEF Marked
  <2>. QED BY <2>2, <2>3
<1>7. Memory(node', index) /\ iNodeOffset \in 1 .. MaxNode /\ MaxNode \in Nat
  BY <1>2, <1>4, <1>6, MemoryIs DEF Memory
<1>8. /\ Tree(node', index, iNodeOffset)
      /\ \A n \in 0 .. (iNodeOffset - 1) : ArrayOf(node', n) = ArrayOf(node, n)
      /\ \A k \in Seq(Chars) : WalkOf(node', index, k) = WalkOf(node, index, k)
  <2>1. \A n \in 0 .. (iNodeOffset - 1) : n \in 0 .. (MaxNode - 1)
    BY <1>7
  <2>. QED BY <1>4, <1>6, <1>7, <2>1, SameShape
<1>9. Apart(node', iNodeOffset, pool, iIndexOffset)
  BY <1>4, <1>8, ApartStays
<1>10. adding'.array = None
  BY <1>1, <1>3, Idle DEF Proceed
<1>11. Seen' = node' /\ Held' = node'
  BY <1>10 DEF Seen, Held
<1>12. TypeOK'
  <2>1. told' \in [Words -> Statuses \cup {None}]
    BY <1>1, <1>2, <1>3 DEF Proceed, TypeOK, key
  <2>2. node' \in [0 .. (MaxNode - 1) -> [pIndex : Nat, status : Statuses \cup {None},
                                          size : 0 .. Cardinality(Chars)]]
    BY <1>6 DEF NodeRec
  <2>3. adding' # NotAdding =>
          /\ adding' \in [key : Words, status : Statuses, i : Nat, cur : Nodes',
                          array : {None} \cup 1 .. (MaxIndex - 1)]
          /\ adding'.i < Len(adding'.key)
    <3>1. SUFFICES ASSUME adding' # NotAdding
                   PROVE  /\ adding' \in [key : Words, status : Statuses, i : Nat, cur : Nodes',
                                          array : {None} \cup 1 .. (MaxIndex - 1)]
                          /\ adding'.i < Len(adding'.key)
      OBVIOUS
    <3>2. ~IsLast /\ adding' = [adding EXCEPT !.i = @ + 1, !.cur = next, !.array = None]
      BY <1>1, <3>1 DEF Proceed
    <3>3. next \in Nodes'
      BY <1>1, <1>5, <1>7 DEF Nodes
    <3>4. adding.i + 1 < Len(key)
      BY <1>3, <3>2 DEF IsLast, key
    <3>5. adding'.i = adding.i + 1 /\ adding'.key = key
      BY <1>3, <3>2 DEF key
    <3>6. PICK S : S = Nodes'
      OBVIOUS
    <3>7. adding' \in [key : Words, status : Statuses, i : Nat, cur : S,
                      array : {None} \cup 1 .. (MaxIndex - 1)]
      <4>1. adding' = [key |-> adding.key, status |-> adding.status, i |-> adding.i + 1,
                       cur |-> next, array |-> None]
        BY <1>3, <3>2
      <4>2. adding.key \in Words /\ adding.i + 1 \in Nat
        BY <1>3
      <4>. QED BY <1>3, <3>3, <3>6, <4>1, <4>2
    <3>. QED BY <3>4, <3>5, <3>6, <3>7
  <2>. QED BY <1>1, <1>2, <2>1, <2>2, <2>3, CallsStay DEF TypeOK
<1>13. AtNode'
  <2>1. SUFFICES ASSUME adding' # NotAdding
                 PROVE  WalkOf(node', index, adding'.key)[adding'.i] = adding'.cur
    BY <1>1, <1>11 DEF AtNode
  <2>2. ~IsLast /\ adding' = [adding EXCEPT !.i = @ + 1, !.cur = next, !.array = None]
    BY <1>1, <2>1 DEF Proceed
  <2>3. adding'.i = adding.i + 1 /\ adding'.key = key /\ adding'.cur = next
    BY <1>3, <2>2 DEF key
  <2>. QED BY <1>3, <1>4, <1>8, <2>3
<1>14. Moving'
  BY <1>10 DEF Moving
<1>15. ASSUME ~torn PROVE Agree(node', index, told')
  <2>1. ASSUME NEW k \in Words PROVE told'[k] = StatusAt(node', WalkOf(node', index, k)[Len(k)])
    <3>1. k \in Seq(Chars) /\ Len(k) \in 0 .. Len(k)
      BY KeyIs
    <3>2. PICK n \in {None} \cup 0 .. (iNodeOffset - 1) : n = WalkOf(node, index, k)[Len(k)]
      BY <1>4, <3>1, WalkSteps
    <3>3. WalkOf(node', index, k)[Len(k)] = n
      BY <1>8, <3>1, <3>2
    <3>4. told[k] = StatusAt(node, n)
      BY <1>4, <1>15, <3>2 DEF Agree
    <3>5. n # None => n \in 0 .. (MaxNode - 1)
      BY <1>7
    <3>6. CASE ~IsLast
      <4>1. told' = told /\ node' = node
        BY <1>1, <3>6 DEF Proceed, Marked
      <4>. QED BY <3>3, <3>4, <4>1
    <3>7. CASE IsLast
      <4>1. told' = [told EXCEPT ![key] = adding.status] /\ WalkOf(node, index, key)[Len(key)] = next
        BY <1>1, <1>4, <3>7 DEF Proceed, IsLast, key
      <4>2. told \in [Words -> Statuses \cup {None}]
        BY <1>2 DEF TypeOK
      <4>3. CASE k = key
        <5>1. n = next /\ told'[k] = adding.status
          BY <3>2, <4>1, <4>2, <4>3
        <5>. QED BY <1>1, <1>5, <1>6, <3>3, <3>7, <5>1 DEF StatusAt
      <4>4. CASE k # key
        <5>1. told'[k] = told[k]
          BY <4>1, <4>2, <4>4
        <5>2. n # next
          <6>1. SUFFICES ASSUME n = next PROVE FALSE
            OBVIOUS
          <6>2. WalkOf(node, index, k)[Len(k)] = WalkOf(node, index, key)[Len(key)]
            BY <3>2, <4>1, <6>1
          <6>3. WalkOf(node, index, k)[Len(k)] # None
            BY <1>1, <3>2, <6>1
          <6>. QED BY <1>3, <1>4, <4>4, <6>2, <6>3, SameKey
        <5>3. n # None => node'[n].status = node[n].status
          BY <1>6, <3>5, <5>2
        <5>. QED BY <3>3, <3>4, <5>1, <5>3 DEF StatusAt
      <4>. QED BY <4>3, <4>4
    <3>. QED BY <3>6, <3>7
  <2>. QED BY <2>1 DEF Agree
<1>16. Kept
  <2>1. 0 \in 0 .. (MaxNode - 1) /\ 0 # next
    BY <1>5, <1>7
  <2>2. node'[0].status = node[0].status
    BY <1>6, <2>1
  <2>3. \A k \in Seq(Chars) : WalkOf(Seen', index', k) = WalkOf(Seen, index, k)
    BY <1>1, <1>2, <1>8, <1>11
  <2>. QED BY <2>2, <2>3 DEF Kept
<1>. QED BY <1>1, <1>4, <1>8, <1>9, <1>11, <1>12, <1>13, <1>14, <1>15, <1>16 DEF IInv, Sound

\* The call of add ends and leaves the memory as it is (trie.h:226-229, 273-275).
LEMMA OutOfNodesKeeps == ASSUME IInv, OutOfNodes PROVE IInv' /\ Kept
<1>1. /\ Walks /\ adding' = NotAdding
      /\ UNCHANGED <<node, index, iNodeOffset, iIndexOffset, pool, told, starved, torn, dels, deleting>>
  BY DEF OutOfNodes, NeedsChild, trie
<1>2. TypeOK /\ adding.array = None /\ Seen = node /\ Held = node /\ ~starved /\ Sound
  BY <1>1, Still DEF IInv, Walks
<1>3. Seen' = node /\ Held' = node /\ adding'.array = None
  BY <1>1, Idle DEF Seen, Held
<1>4. TypeOK'
  BY <1>1, <1>2, CallsStay DEF TypeOK, Nodes
<1>5. Tree(Seen', index', iNodeOffset') /\ Apart(Held', iNodeOffset', pool', iIndexOffset')
  BY <1>1, <1>2, <1>3 DEF Sound
<1>6. ~torn' => Agree(Seen', index', told')
  BY <1>1, <1>2, <1>3 DEF Sound
<1>7. AtNode' /\ Moving'
  BY <1>1, <1>3 DEF AtNode, Moving
<1>8. Kept
  BY <1>1, <1>2, <1>3 DEF Kept
<1>. QED BY <1>1, <1>2, <1>4, <1>5, <1>6, <1>7, <1>8 DEF IInv, Sound

-------------------------------------------------------------------------------
(***************************************************************************)
(* The steps of add that move an array.                                    *)
(***************************************************************************)
\* A node with its array given back (trie.h:277-283).
Bare(n) == [node EXCEPT ![n].size = 0]

LEMMA ReturnedIs ==
  ASSUME TypeOK, Tree(node, index, iNodeOffset), Apart(node, iNodeOffset, pool, iIndexOffset),
         NEW n \in 0 .. (iNodeOffset - 1)
  PROVE  /\ Pool(Returned(node[n].pIndex, node[n].size))
         /\ Apart(Bare(n), iNodeOffset, Returned(node[n].pIndex, node[n].size), iIndexOffset)
         /\ ArrayOf(Bare(n), n) = {}
         /\ \A m \in 0 .. (iNodeOffset - 1) : m # n => ArrayOf(Bare(n), m) = ArrayOf(node, m)
<1>. DEFINE at   == node[n].pIndex
            size == node[n].size
            nd0  == Bare(n)
<1>1. /\ Memory(node, index) /\ Pool(pool) /\ iNodeOffset \in 1 .. MaxNode /\ MaxNode \in Nat
      /\ MaxIndex \in Nat
  BY MemoryIs
<1>2. Cardinality(Chars) \in Nat
  BY TrieAssumption, FS_CardinalityType
<1>3. n \in 0 .. (MaxNode - 1) /\ \A m \in 0 .. (iNodeOffset - 1) : m \in 0 .. (MaxNode - 1)
  BY <1>1
<1>4. at \in Nat /\ size \in 0 .. Cardinality(Chars)
  <2>1. node[n] \in NodeRec
    BY <1>1, <1>3 DEF Memory
  <2>. QED BY <2>1 DEF NodeRec
<1>5. nd0[n].size = 0 /\ nd0[n].pIndex = at /\ \A m \in 0 .. (MaxNode - 1) : m # n => nd0[m] = node[m]
  BY <1>1, <1>3 DEF Bare, Memory, NodeRec
<1>6. ArrayOf(nd0, n) = {}
  BY <1>4, <1>5 DEF ArrayOf, Entries
<1>7. \A m \in 0 .. (iNodeOffset - 1) : m # n => ArrayOf(nd0, m) = ArrayOf(node, m)
  BY <1>3, <1>5 DEF ArrayOf
<1>8. CASE size > 0
  <2>1. at \in ArrayOf(node, n) /\ ArrayOf(node, n) = Entries(at, size)
    BY <1>4, <1>8 DEF ArrayOf, Entries
  <2>2. at \in 1 .. (MaxIndex - 1)
    BY <2>1 DEF Tree
  <2>3. at # 0 /\ size \in 1 .. (Cardinality(Chars) + 1)
    BY <1>1, <1>2, <1>4, <1>8, <2>2
  <2>4. PICK pl2 : pl2 = [pool EXCEPT ![size] = Append(@, at)]
    OBVIOUS
  <2>5. Returned(at, size) = pl2
    BY <1>8, <2>3, <2>4 DEF Returned
  <2>. HIDE DEF at, size, nd0
  <2>6. Pool(pl2) /\ Apart(nd0, iNodeOffset, pl2, iIndexOffset)
    BY <1>1, <1>6, <1>7, <2>1, <2>2, <2>3, <2>4, GivesBack
  <2>. QED BY <1>6, <1>7, <2>5, <2>6 DEF at, size, nd0
<1>9. CASE ~(size > 0)
  <2>1. Returned(at, size) = pool
    BY <1>9 DEF Returned
  <2>. HIDE DEF at, size, nd0
  <2>2. Apart(nd0, iNodeOffset, pool, iIndexOffset)
    <3>1. \A m \in 0 .. (iNodeOffset - 1) :
            \/ ArrayOf(nd0, m) = {}
            \/ m \in 0 .. (iNodeOffset - 1) /\ ArrayOf(nd0, m) = ArrayOf(node, m)
      BY <1>6, <1>7
    <3>. QED BY <3>1, ApartStays
  <2>. QED BY <1>1, <1>6, <1>7, <2>1, <2>2 DEF at, size, nd0
<1>. QED BY <1>8, <1>9

LEMMA OutOfIndexesKeeps == ASSUME IInv, OutOfIndexes PROVE IInv'
<1>1. /\ Walks /\ adding' = NotAdding /\ starved' = TRUE
      /\ pool' = Returned(node[adding.cur].pIndex, node[adding.cur].size)
      /\ UNCHANGED <<node, index, iNodeOffset, iIndexOffset, told, torn, dels, deleting>>
  BY DEF OutOfIndexes, NeedsChild
<1>2. TypeOK /\ adding # NotAdding
  BY <1>1 DEF IInv, Walks
<1>3. Tree(node, index, iNodeOffset) /\ Apart(node, iNodeOffset, pool, iIndexOffset)
  BY <1>1, Walking
<1>4. adding.cur \in 0 .. (iNodeOffset - 1)
  BY <1>2, AddingIs
<1>5. Pool(pool')
  BY <1>1, <1>2, <1>3, <1>4, ReturnedIs
<1>6. TypeOK'
  BY <1>1, <1>2, <1>5, CallsStay DEF TypeOK, Pool
<1>. QED BY <1>1, <1>6 DEF IInv

\* size is stored, pIndex is not yet (trie.h:271-305).
LEMMA EnlargeKeeps == ASSUME IInv, Enlarge PROVE IInv' /\ Kept
<1>. DEFINE n     == adding.cur
            old   == node[n].pIndex
            size  == node[n].size
            k0    == size + 1
            pools == Returned(old, size)
            pooled == pools[size + 1] # <<>>
            new   == IF pooled THEN Head(pools[size + 1]) ELSE iIndexOffset
<1>1. /\ Walks /\ GetNextNode(adding.cur, ch_i) = None /\ ~(iNodeOffset + 1 > MaxNode)
      /\ pooled \/ iIndexOffset + size + 1 <= MaxIndex
      /\ pool' = (IF pooled THEN [pools EXCEPT ![size + 1] = Tail(@)] ELSE pools)
      /\ index' = Moved(old, new, size)
      /\ iIndexOffset' = (IF pooled THEN iIndexOffset ELSE iIndexOffset + size + 1)
      /\ node' = [node EXCEPT ![n].size = size + 1]
      /\ adding' = [adding EXCEPT !.array = new]
      /\ UNCHANGED <<iNodeOffset, told, starved, torn, dels, deleting>>
  BY DEF Enlarge, NeedsChild, NoNodeLeft
<1>2. TypeOK /\ adding # NotAdding /\ adding.array = None
  BY <1>1 DEF IInv, Walks
<1>3. /\ adding \in [key : Words, status : Statuses, i : Nat, cur : Nodes,
                     array : {None} \cup 1 .. (MaxIndex - 1)]
      /\ adding.key \in Words /\ adding.key \in Seq(Chars) /\ adding.status \in Statuses
      /\ Len(adding.key) \in Nat /\ adding.i \in Nat /\ adding.i + 1 \in 1 .. Len(adding.key)
      /\ n \in 0 .. (iNodeOffset - 1) /\ n \in 0 .. (MaxNode - 1) /\ ch_i \in Chars
  BY <1>2, AddingIs
<1>4. /\ ~starved /\ Memory(node, index) /\ Tree(node, index, iNodeOffset)
      /\ Apart(node, iNodeOffset, pool, iIndexOffset)
      /\ ~torn => Agree(node, index, told)
      /\ Hop(node, index, n, ch_i) = None
      /\ WalkOf(node, index, adding.key)[adding.i] = n
  BY <1>1, Walking
<1>5. size \in Nat /\ k0 \in 1 .. Cardinality(Chars) /\ Cardinality(Chars) \in Nat
  BY <1>3, <1>4, RoomForOne, TrieAssumption, FS_CardinalityType
<1>6. /\ Pool(pools) /\ Apart(Bare(n), iNodeOffset, pools, iIndexOffset)
      /\ ArrayOf(Bare(n), n) = {}
      /\ \A m \in 0 .. (iNodeOffset - 1) : m # n => ArrayOf(Bare(n), m) = ArrayOf(node, m)
  BY <1>2, <1>3, <1>4, ReturnedIs
<1>7. /\ iNodeOffset \in 1 .. MaxNode /\ MaxNode \in Nat /\ iNodeOffset \in Nat
      /\ iIndexOffset \in 1 .. MaxIndex /\ MaxIndex \in Nat /\ iIndexOffset \in Nat \ {0}
  BY <1>2, MemoryIs
<1>8. node \in [0 .. (MaxNode - 1) -> NodeRec] /\ old \in Nat
  BY <1>3, <1>4 DEF Memory, NodeRec
<1>9. k0 \in 1 .. (Cardinality(Chars) + 1) /\ k0 \in Nat
  BY <1>5
<1>. HIDE DEF n, old, size, k0, pools, new, pooled
\* the node at its new array
<1>. DEFINE nd1 == [node EXCEPT ![n].pIndex = new, ![n].size = k0]
            ndS == [node EXCEPT ![n].pIndex = new, ![n].size = size]
<1>10. /\ nd1[n].pIndex = new /\ nd1[n].size = k0 /\ ndS[n].pIndex = new /\ ndS[n].size = size
       /\ \A m \in 0 .. (MaxNode - 1) : m # n => nd1[m] = node[m] /\ ndS[m] = node[m]
       /\ \A m \in 0 .. (MaxNode - 1) : ndS[m].status = node[m].status
  BY <1>3, <1>8 DEF NodeRec
<1>11. \A m \in 0 .. (iNodeOffset - 1) : m \in 0 .. (MaxNode - 1)
  BY <1>7
<1>12. /\ ArrayOf(nd1, n) = Entries(new, k0)
       /\ \A m \in 0 .. (iNodeOffset - 1) : m # n => ArrayOf(nd1, m) = ArrayOf(Bare(n), m)
       /\ \A m \in 0 .. (iNodeOffset - 1) : m # n => ArrayOf(nd1, m) = ArrayOf(node, m)
  <2>. HIDE DEF nd1, ndS
  <2>1. \A m \in 0 .. (iNodeOffset - 1) : m # n => ArrayOf(nd1, m) = ArrayOf(node, m)
    BY <1>10, <1>11 DEF ArrayOf
  <2>2. ArrayOf(nd1, n) = Entries(new, k0)
    BY <1>10 DEF ArrayOf
  <2>. QED BY <1>6, <2>1, <2>2
<1>. HIDE DEF nd1, ndS
<1>13. /\ Pool(pool') /\ Apart(nd1, iNodeOffset, pool', iIndexOffset')
       /\ new \in 1 .. (MaxIndex - 1) /\ ArrayOf(nd1, n) \subseteq 1 .. (MaxIndex - 1)
       /\ iIndexOffset' \in 1 .. MaxIndex
  <2>1. CASE pooled
    <3>1. PICK pl2 : pl2 = [pools EXCEPT ![k0] = Tail(@)]
      OBVIOUS
    <3>2. pools[k0] # <<>> /\ new = Head(pools[k0]) /\ pool' = pl2 /\ iIndexOffset' = iIndexOffset
      BY <1>1, <2>1, <3>1 DEF pooled, new, k0
    <3>3. /\ Pool(pl2) /\ Apart(nd1, iNodeOffset, pl2, iIndexOffset)
          /\ new \in 1 .. (MaxIndex - 1)
          /\ ArrayOf(nd1, n) \subseteq 1 .. (iIndexOffset - 1)
      <4>1. TakesFirst(Bare(n), nd1, iNodeOffset, n, pools, pl2, k0, new)
        BY <1>12, <3>1, <3>2 DEF TakesFirst
      <4>. QED BY <1>3, <1>6, <1>9, <4>1, TakesOld
    <3>4. 1 .. (iIndexOffset - 1) \subseteq 1 .. (MaxIndex - 1)
      BY <1>7
    <3>. QED BY <1>7, <3>2, <3>3, <3>4
  <2>2. CASE ~pooled
    <3>1. new = iIndexOffset /\ pool' = pools /\ iIndexOffset' = iIndexOffset + size + 1
          /\ iIndexOffset + size + 1 <= MaxIndex
      BY <1>1, <2>2 DEF new
    <3>2. Apart(nd1, iNodeOffset, pools, iIndexOffset + k0)
          /\ ArrayOf(nd1, n) \subseteq 1 .. (iIndexOffset + k0 - 1)
      BY <1>3, <1>6, <1>7, <1>9, <1>12, <3>1, TakesNew
    <3>3. iIndexOffset' = iIndexOffset + k0 /\ iIndexOffset + k0 <= MaxIndex
      BY <1>5, <1>7, <3>1 DEF k0
    <3>4. 1 .. (iIndexOffset + k0 - 1) \subseteq 1 .. (MaxIndex - 1)
      BY <1>7, <1>9, <3>3
    <3>5. new \in 1 .. (MaxIndex - 1) /\ iIndexOffset' \in 1 .. MaxIndex
      BY <1>5, <1>7, <3>1
    <3>. QED BY <1>6, <3>1, <3>2, <3>3, <3>4, <3>5
  <2>. QED BY <2>1, <2>2
\* the copy
<1>14. /\ index \in [0 .. (MaxIndex - 1) -> EntryRec]
       /\ ArrayOf(node, n) \subseteq 1 .. (MaxIndex - 1) /\ ArrayOf(node, n) = Entries(old, size)
  BY <1>3, <1>4 DEF Memory, Tree, ArrayOf, old, size
<1>15. \A x \in 0 .. (MaxIndex - 1) :
         index'[x] = IF x \in new .. (new + size - 1) THEN index[old + (x - new)] ELSE index[x]
  BY <1>1, <1>14 DEF Moved
<1>16. ASSUME NEW d \in 0 .. (size - 1)
       PROVE  new + d \in 0 .. (MaxIndex - 1) /\ index'[new + d] = index[old + d]
              /\ old + d \in 0 .. (MaxIndex - 1)
  <2>1. new + d \in Entries(new, k0) /\ old + d \in Entries(old, size)
    BY <1>5, <1>8, <1>13 DEF Entries, k0
  <2>2. new + d \in 0 .. (MaxIndex - 1) /\ old + d \in 0 .. (MaxIndex - 1)
    BY <1>7, <1>12, <1>13, <1>14, <2>1
  <2>3. new + d \in new .. (new + size - 1) /\ old + ((new + d) - new) = old + d
    BY <1>5, <1>8, <1>13
  <2>. QED BY <1>15, <2>2, <2>3
<1>17. index' \in [0 .. (MaxIndex - 1) -> EntryRec]
  <2>1. ASSUME NEW x \in 0 .. (MaxIndex - 1) PROVE index'[x] \in EntryRec
    <3>1. CASE x \in new .. (new + size - 1)
      <4>1. x - new \in 0 .. (size - 1) /\ new + (x - new) = x
        BY <1>5, <1>13, <3>1
      <4>2. index'[x] = index[old + (x - new)] /\ old + (x - new) \in 0 .. (MaxIndex - 1)
        BY <1>16, <4>1
      <4>. QED BY <1>14, <4>2
    <3>2. CASE x \notin new .. (new + size - 1)
      BY <1>14, <1>15, <3>2
    <3>. QED BY <3>1, <3>2
  <2>2. index' = [x \in 0 .. (MaxIndex - 1) |-> index'[x]]
    BY <1>1, <1>14 DEF Moved
  <2>. QED BY <2>1, <2>2
<1>18. /\ ndS \in [0 .. (MaxNode - 1) -> NodeRec]
       /\ node' \in [0 .. (MaxNode - 1) -> NodeRec]
       /\ node'[n].size = k0
  <2>1. new \in Nat /\ size \in 0 .. Cardinality(Chars) /\ size + 1 \in 0 .. Cardinality(Chars)
    BY <1>5, <1>7, <1>13 DEF k0
  <2>2. ndS \in [0 .. (MaxNode - 1) -> NodeRec]
    BY <1>3, <1>8, <2>1 DEF NodeRec, ndS
  <2>3. node' \in [0 .. (MaxNode - 1) -> NodeRec] /\ node'[n].size = size + 1
    BY <1>1, <1>3, <1>8, <2>1 DEF NodeRec
  <2>. QED BY <2>2, <2>3 DEF k0
<1>19. Memory(ndS, index')
  BY <1>17, <1>18 DEF Memory
<1>20. /\ Tree(ndS, index', iNodeOffset)
       /\ \A m \in 0 .. (iNodeOffset - 1), ch \in Chars :
            Hop(ndS, index', m, ch) = Hop(node, index, m, ch)
  <2>1. ASSUME NEW m \in 0 .. (iNodeOffset - 1)
        PROVE  /\ ndS[m].size = node[m].size
               /\ ArrayOf(ndS, m) \subseteq 1 .. (MaxIndex - 1)
               /\ \A d \in Places(node, m) : Entry(ndS, index', m, d) = Entry(node, index, m, d)
    <3>1. CASE m = n
      <4>1. ndS[m].size = node[m].size
        BY <1>10, <3>1 DEF size
      <4>2. ArrayOf(ndS, n) \subseteq ArrayOf(nd1, n)
        <5>1. ArrayOf(ndS, n) = Entries(new, size)
          BY <1>10 DEF ArrayOf
        <5>2. Entries(new, size) \subseteq Entries(new, k0)
          BY <1>5, <1>13 DEF Entries, k0
        <5>. QED BY <1>12, <5>1, <5>2
      <4>3. ASSUME NEW d \in Places(node, n) PROVE Entry(ndS, index', n, d) = Entry(node, index, n, d)
        <5>1. d \in 0 .. (size - 1)
          BY DEF Places, size
        <5>. QED BY <1>10, <1>16, <5>1 DEF Entry, old
      <4>. QED BY <1>13, <3>1, <4>1, <4>2, <4>3
    <3>2. CASE m # n
      <4>1. ndS[m] = node[m] /\ node[m] \in NodeRec
        BY <1>8, <1>10, <1>11, <3>2
      <4>2. ArrayOf(ndS, m) = ArrayOf(node, m) /\ ArrayOf(node, m) \subseteq 1 .. (MaxIndex - 1)
        BY <1>4, <4>1 DEF ArrayOf, Tree
      <4>3. ASSUME NEW d \in Places(node, m) PROVE Entry(ndS, index', m, d) = Entry(node, index, m, d)
        <5>. DEFINE x == node[m].pIndex + d
        <5>1. x \in ArrayOf(node, m)
          BY <4>1 DEF ArrayOf, Entries, Places, NodeRec
        <5>2. ArrayOf(nd1, m) \cap ArrayOf(nd1, n) = {}
          BY <1>3, <1>13, <3>2 DEF Apart, NodesApart
        <5>3. x \notin Entries(new, k0)
          BY <1>12, <3>2, <5>1, <5>2
        <5>4. new .. (new + size - 1) \subseteq Entries(new, k0)
          BY <1>5, <1>13 DEF Entries, k0
        <5>5. x \in 0 .. (MaxIndex - 1)
          BY <1>7, <4>2, <5>1
        <5>6. index'[x] = index[x]
          BY <1>15, <5>3, <5>4, <5>5
        <5>. QED BY <4>1, <5>6 DEF Entry
      <4>. QED BY <4>1, <4>2, <4>3
    <3>. QED BY <3>1, <3>2
  <2>. QED BY <1>4, <1>19, <2>1, SameEntries
<1>21. \A k \in Seq(Chars) : WalkOf(ndS, index', k) = WalkOf(node, index, k)
  BY <1>4, <1>19, <1>20, SameWalks
<1>22. /\ adding' = [key |-> adding.key, status |-> adding.status, i |-> adding.i,
                     cur |-> adding.cur, array |-> new]
       /\ new # None
  <2>1. new # None
    BY <1>13 DEF None
  <2>. QED BY <1>1, <1>3, <2>1
<1>23. /\ adding'.key = adding.key /\ adding'.i = adding.i /\ adding'.cur = n /\ adding'.array = new
       /\ ch_i' = ch_i
  BY <1>22 DEF n, ch_i
<1>24. Seen' = ndS /\ Held' = nd1
  <2>1. Held' = [node' EXCEPT ![n].pIndex = new]
    BY <1>22, <1>23 DEF Held
  <2>2. Seen' = [node' EXCEPT ![n].pIndex = new, ![n].size = @ - 1]
    BY <1>22, <1>23 DEF Seen
  <2>3. Held' = nd1
    BY <1>1, <1>3, <1>8, <2>1 DEF nd1, k0, NodeRec
  <2>4. size + 1 - 1 = size
    BY <1>5
  <2>5. PICK nd : nd = [m \in 0 .. (MaxNode - 1) |->
                          IF m = n THEN [pIndex |-> new, status |-> node[n].status, size |-> size]
                          ELSE node[m]]
    OBVIOUS
  <2>6. ndS = nd
    <3>1. ndS[n] = [pIndex |-> new, status |-> node[n].status, size |-> size]
      <4>1. ndS[n] \in NodeRec /\ ndS[n].status = node[n].status
        BY <1>3, <1>10, <1>18
      <4>. QED BY <1>10, <4>1 DEF NodeRec
    <3>2. \A m \in 0 .. (MaxNode - 1) : ndS[m] = nd[m]
      BY <1>10, <2>5, <3>1
    <3>. QED BY <1>18, <2>5, <3>2
  <2>7. Seen' = nd
    <3>1. PICK nd2 \in [0 .. (MaxNode - 1) -> NodeRec] : nd2 = node'
      BY <1>18
    <3>2. /\ nd2[n].size = size + 1 /\ nd2[n].status = node[n].status
          /\ \A m \in 0 .. (MaxNode - 1) : m # n => nd2[m] = node[m]
      BY <1>1, <1>3, <1>8, <3>1 DEF NodeRec
    <3>3. Seen' = [nd2 EXCEPT ![n].pIndex = new, ![n].size = @ - 1]
      BY <2>2, <3>1
    <3>. QED BY <1>3, <2>4, <2>5, <3>2, <3>3 DEF NodeRec
  <2>. QED BY <2>3, <2>6, <2>7
<1>25. TypeOK'
  <2>1. node' \in [0 .. (MaxNode - 1) -> [pIndex : Nat, status : Statuses \cup {None},
                                          size : 0 .. Cardinality(Chars)]]
    BY <1>18 DEF NodeRec
  <2>2. index' \in [0 .. (MaxIndex - 1) -> [pNode : 0 .. (MaxNode - 1), ch : Chars \cup {None}]]
    BY <1>17 DEF EntryRec
  <2>3. pool' \in [1 .. (Cardinality(Chars) + 1) -> Seq(1 .. (MaxIndex - 1))]
    BY <1>13 DEF Pool
  <2>4. /\ adding' \in [key : Words, status : Statuses, i : Nat, cur : Nodes',
                        array : {None} \cup 1 .. (MaxIndex - 1)]
        /\ adding'.i < Len(adding'.key)
    <3>1. adding.cur \in Nodes'
      BY <1>1, <1>3, <1>7 DEF Nodes, n
    <3>2. adding.i < Len(adding.key)
      BY <1>3
    <3>. QED BY <1>3, <1>13, <1>22, <1>23, <3>1, <3>2
  <2>. QED BY <1>1, <1>2, <1>13, <2>1, <2>2, <2>3, <2>4, CallsStay DEF TypeOK
<1>26. Tree(Seen', index', iNodeOffset') /\ Apart(Held', iNodeOffset', pool', iIndexOffset')
  BY <1>1, <1>13, <1>20, <1>24
<1>27. AtNode'
  BY <1>3, <1>4, <1>21, <1>23, <1>24 DEF AtNode
<1>28. Moving'
  <2>1. adding' # NotAdding
    BY <1>22, <1>23, Idle
  <2>2. node'[n].size >= 1 /\ iNodeOffset' + 1 <= MaxNode
    BY <1>1, <1>5, <1>7, <1>18
  <2>3. Hop(Seen', index', adding'.cur, ch_i') = None
    BY <1>3, <1>4, <1>20, <1>23, <1>24
  <2>. QED BY <1>23, <2>1, <2>2, <2>3 DEF Moving
<1>29. ASSUME ~torn' PROVE Agree(Seen', index', told')
  <2>1. ASSUME NEW k \in Words PROVE told'[k] = StatusAt(ndS, WalkOf(ndS, index', k)[Len(k)])
    <3>1. k \in Seq(Chars) /\ Len(k) \in 0 .. Len(k)
      BY KeyIs
    <3>2. WalkOf(node, index, k)[Len(k)] \in {None} \cup 0 .. (iNodeOffset - 1)
      BY <1>4, <3>1, WalkSteps
    <3>3. told[k] = StatusAt(node, WalkOf(node, index, k)[Len(k)])
      BY <1>1, <1>4, <1>29 DEF Agree
    <3>4. StatusAt(ndS, WalkOf(node, index, k)[Len(k)]) = StatusAt(node, WalkOf(node, index, k)[Len(k)])
      BY <1>10, <1>11, <3>2 DEF StatusAt
    <3>. QED BY <1>1, <1>21, <3>1, <3>3, <3>4
  <2>. QED BY <1>24, <2>1 DEF Agree
<1>30. Kept
  <2>1. Seen = node
    BY <1>2, Still
  <2>2. node'[0].status = node[0].status
    BY <1>1, <1>3, <1>7, <1>8 DEF NodeRec, n
  <2>. QED BY <1>21, <1>24, <2>1, <2>2 DEF Kept
<1>. QED BY <1>1, <1>4, <1>25, <1>26, <1>27, <1>28, <1>29, <1>30 DEF IInv, Sound

\* What is seen while an array moves.
LEMMA Shown ==
  ASSUME IInv, adding.array # None
  PROVE  /\ TypeOK /\ adding # NotAdding /\ ~starved /\ Sound
         /\ adding.array \in 1 .. (MaxIndex - 1) /\ iNodeOffset + 1 <= MaxNode
         /\ node[adding.cur].size \in 1 .. Cardinality(Chars)
         /\ Hop(Seen, index, adding.cur, ch_i) = None
         /\ Memory(Seen, index)
         /\ Seen[adding.cur].pIndex = adding.array /\ Held[adding.cur].pIndex = adding.array
         /\ Seen[adding.cur].size = node[adding.cur].size - 1
         /\ Held[adding.cur].size = node[adding.cur].size
         /\ \A m \in 0 .. (MaxNode - 1) : m # adding.cur => Seen[m] = node[m] /\ Held[m] = node[m]
         /\ \A m \in 0 .. (MaxNode - 1) : Seen[m].status = node[m].status
<1>. DEFINE n == adding.cur
            at == adding.array
<1>1. TypeOK /\ adding # NotAdding /\ ~starved /\ Sound
  BY Idle DEF IInv
<1>2. /\ at \in {None} \cup 1 .. (MaxIndex - 1) /\ n \in 0 .. (MaxNode - 1)
  BY <1>1, AddingIs
<1>3. /\ node[n].size >= 1 /\ iNodeOffset + 1 <= MaxNode /\ Hop(Seen, index, n, ch_i) = None
  BY <1>1 DEF Sound, Moving
<1>4. /\ node \in [0 .. (MaxNode - 1) -> NodeRec] /\ index \in [0 .. (MaxIndex - 1) -> EntryRec]
      /\ MaxIndex \in Nat
  BY <1>1, MemoryIs DEF Memory
<1>5. at \in 1 .. (MaxIndex - 1) /\ at \in Nat
  BY <1>2, <1>4
<1>6. node[n] \in NodeRec /\ node[n].size \in 1 .. Cardinality(Chars) /\ Cardinality(Chars) \in Nat
      /\ node[n].size - 1 \in 0 .. Cardinality(Chars)
  <2>1. node[n] \in NodeRec /\ Cardinality(Chars) \in Nat
    BY <1>2, <1>4, TrieAssumption, FS_CardinalityType
  <2>. QED BY <1>3, <2>1 DEF NodeRec
<1>7. Seen = [node EXCEPT ![n].pIndex = at, ![n].size = @ - 1] /\ Held = [node EXCEPT ![n].pIndex = at]
  BY DEF Seen, Held
<1>. HIDE DEF n, at
<1>8. /\ Seen[n].pIndex = at /\ Held[n].pIndex = at /\ Seen[n].size = node[n].size - 1
      /\ Held[n].size = node[n].size /\ Seen[n].status = node[n].status
  BY <1>2, <1>4, <1>6, <1>7 DEF NodeRec
<1>9. \A m \in 0 .. (MaxNode - 1) : m # n => Seen[m] = node[m] /\ Held[m] = node[m]
  BY <1>4, <1>7
<1>10. Seen \in [0 .. (MaxNode - 1) -> NodeRec]
  <2>1. [node[n] EXCEPT !.pIndex = at, !.size = node[n].size - 1] \in NodeRec
    BY <1>5, <1>6 DEF NodeRec
  <2>2. Seen[n] = [node[n] EXCEPT !.pIndex = at, !.size = node[n].size - 1]
    BY <1>2, <1>4, <1>6, <1>7 DEF NodeRec
  <2>3. \A m \in 0 .. (MaxNode - 1) : Seen[m] \in NodeRec
    BY <1>4, <1>9, <2>1, <2>2
  <2>4. Seen = [m \in 0 .. (MaxNode - 1) |-> Seen[m]]
    BY <1>4, <1>7
  <2>. QED BY <2>3, <2>4
<1>11. Memory(Seen, index)
  BY <1>4, <1>10 DEF Memory
<1>12. \A m \in 0 .. (MaxNode - 1) : Seen[m].status = node[m].status
  BY <1>8, <1>9
<1>. QED BY <1>1, <1>3, <1>5, <1>6, <1>8, <1>9, <1>11, <1>12 DEF n, at

\* pIndex is stored, and the child's entry (trie.h:306-323).
LEMMA RepointKeeps ==
  ASSUME IInv, Repoint
  PROVE  /\ IInv' /\ Kept
         /\ WalkOf(Seen', index', adding.key)[adding.i + 1] = iNodeOffset
<1>. DEFINE n     == adding.cur
            at    == adding.array
            size  == node[n].size
            key   == adding.key
            child == iNodeOffset
            last  == at + size - 1
            c     == ch_i
            old   == Seen
            held  == Held
<1>1. /\ at # None /\ index' = [index EXCEPT ![last] = [pNode |-> child, ch |-> c]]
      /\ node' = Marked([node EXCEPT ![n].pIndex = at, ![child] = Blank], child)
      /\ iNodeOffset' = iNodeOffset + 1 /\ Proceed(child)
      /\ UNCHANGED <<iIndexOffset, pool, starved, torn, dels, deleting>>
  BY DEF Repoint
<1>2. /\ TypeOK /\ adding # NotAdding /\ ~starved /\ Sound
      /\ at \in 1 .. (MaxIndex - 1) /\ child + 1 <= MaxNode
      /\ size \in 1 .. Cardinality(Chars) /\ Hop(old, index, n, c) = None /\ Memory(old, index)
  BY <1>1, Shown
<1>3. /\ old[n].pIndex = at /\ held[n].pIndex = at /\ old[n].size = size - 1 /\ held[n].size = size
      /\ \A m \in 0 .. (MaxNode - 1) : m # n => old[m] = node[m] /\ held[m] = node[m]
      /\ \A m \in 0 .. (MaxNode - 1) : old[m].status = node[m].status
  BY <1>1, Shown
<1>4. /\ adding \in [key : Words, status : Statuses, i : Nat, cur : Nodes,
                     array : {None} \cup 1 .. (MaxIndex - 1)]
      /\ key \in Words /\ key \in Seq(Chars) /\ adding.status \in Statuses
      /\ Len(key) \in Nat /\ adding.i \in Nat /\ adding.i + 1 \in 1 .. Len(key)
      /\ adding.i \in 0 .. Len(key)
      /\ n \in 0 .. (child - 1) /\ n \in 0 .. (MaxNode - 1) /\ c \in Chars
  BY <1>2, AddingIs
<1>5. /\ Memory(node, index) /\ child \in 1 .. MaxNode /\ MaxNode \in Nat /\ child \in Nat
      /\ MaxIndex \in Nat
  BY <1>2, MemoryIs
<1>6. /\ Tree(old, index, child) /\ Apart(held, child, pool, iIndexOffset)
      /\ WalkOf(old, index, key)[adding.i] = n
      /\ ~torn => Agree(old, index, told)
  BY <1>2 DEF Sound, AtNode
<1>7. c = key[adding.i + 1]
  BY DEF ch_i
<1>8. IsLast <=> adding.i + 1 = Len(key)
  BY DEF IsLast
<1>9. Cardinality(Chars) \in Nat /\ child \in 0 .. (MaxNode - 1) /\ child # n
      /\ \A m \in 0 .. (child - 1) : m \in 0 .. (MaxNode - 1) /\ m # child
  BY <1>2, <1>4, <1>5, TrieAssumption, FS_CardinalityType
<1>. HIDE DEF n, at, size, key, child, last, c, old, held
<1>10. node \in [0 .. (MaxNode - 1) -> NodeRec] /\ index \in [0 .. (MaxIndex - 1) -> EntryRec]
  BY <1>5 DEF Memory
\* the nodes
<1>11. /\ node' \in [0 .. (MaxNode - 1) -> NodeRec]
       /\ node'[n].pIndex = at /\ node'[n].size = size /\ node'[child].size = 0
       /\ \A m \in 0 .. (child - 1) : m # n => node'[m] = node[m]
       /\ node'[child].status = (IF IsLast THEN adding.status ELSE None)
       /\ \A m \in 0 .. (child - 1) : node'[m].status = node[m].status
  <2>1. PICK nd : nd = [node EXCEPT ![n].pIndex = at, ![child] = Blank]
    OBVIOUS
  <2>2. nd \in [0 .. (MaxNode - 1) -> NodeRec]
    <3>1. Blank \in NodeRec /\ at \in Nat
      BY <1>2, <1>9 DEF Blank, NodeRec
    <3>. QED BY <1>4, <1>9, <1>10, <2>1, <3>1 DEF NodeRec
  <2>3. /\ nd[n].pIndex = at /\ nd[n].size = size /\ nd[n].status = node[n].status
        /\ nd[child] = Blank /\ \A m \in 0 .. (MaxNode - 1) : m # n /\ m # child => nd[m] = node[m]
    BY <1>4, <1>9, <1>10, <2>1 DEF NodeRec, size
  <2>4. Blank.size = 0 /\ Blank.status = None
    BY DEF Blank
  <2>5. CASE IsLast
    <3>1. node' = [nd EXCEPT ![child].status = adding.status]
      BY <1>1, <2>1, <2>5 DEF Marked, n, at, child
    <3>2. /\ node' \in [0 .. (MaxNode - 1) -> NodeRec]
          /\ \A m \in 0 .. (MaxNode - 1) : m # child => node'[m] = nd[m]
          /\ node'[child].size = 0 /\ node'[child].status = adding.status
      <4>1. \A m \in 0 .. (MaxNode - 1) : m # child => node'[m] = nd[m]
        BY <2>2, <3>1
      <4>2. nd[child] \in NodeRec /\ node'[child] = [nd[child] EXCEPT !.status = adding.status]
        BY <1>9, <2>2, <3>1
      <4>3. /\ node'[child] \in NodeRec
            /\ node'[child].size = 0 /\ node'[child].status = adding.status
        BY <1>4, <2>3, <2>4, <4>2 DEF NodeRec
      <4>4. node' = [m \in 0 .. (MaxNode - 1) |-> node'[m]]
        BY <2>2, <3>1
      <4>. QED BY <2>2, <4>1, <4>3, <4>4
    <3>. QED BY <1>4, <1>9, <2>3, <2>5, <3>2
  <2>6. CASE ~IsLast
    <3>1. node' = nd
      BY <1>1, <2>1, <2>6 DEF Marked, n, at, child
    <3>. QED BY <1>4, <1>9, <2>2, <2>3, <2>4, <2>6, <3>1
  <2>. QED BY <2>5, <2>6
\* the arrays
<1>12. /\ \A m \in 0 .. (child - 1) : ArrayOf(node', m) = ArrayOf(held, m)
       /\ ArrayOf(node', child) = {}
  <2>1. ArrayOf(node', n) = ArrayOf(held, n)
    BY <1>3, <1>11 DEF ArrayOf
  <2>2. \A m \in 0 .. (child - 1) : m # n => ArrayOf(node', m) = ArrayOf(held, m)
    BY <1>3, <1>9, <1>11 DEF ArrayOf
  <2>3. node'[child].pIndex \in Nat
    BY <1>9, <1>11 DEF NodeRec
  <2>4. ArrayOf(node', child) = {}
    BY <1>11, <2>3 DEF ArrayOf, Entries
  <2>. QED BY <2>1, <2>2, <2>4
<1>13. Apart(node', child + 1, pool, iIndexOffset)
  <2>1. ASSUME NEW m \in 0 .. ((child + 1) - 1)
        PROVE  \/ ArrayOf(node', m) = {}
               \/ m \in 0 .. (child - 1) /\ ArrayOf(node', m) = ArrayOf(held, m)
    <3>1. m = child \/ m \in 0 .. (child - 1)
      BY <1>5
    <3>. QED BY <1>12, <3>1
  <2>. QED BY <1>6, <2>1, ApartStays
<1>14. \A m \in 0 .. child : ArrayOf(node', m) \subseteq 1 .. (MaxIndex - 1)
  <2>1. iIndexOffset \in 1 .. MaxIndex
    BY <1>2, MemoryIs
  <2>2. 1 .. (iIndexOffset - 1) \subseteq 1 .. (MaxIndex - 1)
    BY <1>5, <2>1
  <2>3. Below(node', child + 1, iIndexOffset)
    BY <1>13 DEF Apart
  <2>4. ASSUME NEW m \in 0 .. child PROVE ArrayOf(node', m) \subseteq 1 .. (iIndexOffset - 1)
    <3>1. m \in 0 .. ((child + 1) - 1)
      BY <1>5
    <3>. QED BY <2>3, <3>1 DEF Below
  <2>. QED BY <2>2, <2>4
\* the entries
<1>15. last \in ArrayOf(held, n) /\ last \in 1 .. (MaxIndex - 1) /\ last \in 0 .. (MaxIndex - 1)
  <2>1. ArrayOf(held, n) = Entries(at, size)
    BY <1>3 DEF ArrayOf
  <2>2. last \in Entries(at, size)
    BY <1>2, <1>9 DEF Entries, last
  <2>3. n \in 0 .. child
    BY <1>4, <1>5
  <2>4. last \in 1 .. (MaxIndex - 1)
    BY <1>4, <1>12, <1>14, <2>1, <2>2, <2>3
  <2>. QED BY <1>5, <2>1, <2>2, <2>4
<1>16. /\ index' \in [0 .. (MaxIndex - 1) -> EntryRec]
       /\ index'[last] = [pNode |-> child, ch |-> c]
       /\ \A x \in 0 .. (MaxIndex - 1) : x # last => index'[x] = index[x]
  <2>1. [pNode |-> child, ch |-> c] \in EntryRec
    BY <1>4, <1>9 DEF EntryRec
  <2>. QED BY <1>1, <1>10, <1>15, <2>1
<1>17. Memory(node', index')
  BY <1>11, <1>16 DEF Memory
<1>18. ASSUME NEW m \in 0 .. (child - 1), NEW d \in Places(old, m)
       PROVE  Entry(node', index', m, d) = Entry(old, index, m, d)
  <2>. DEFINE x == old[m].pIndex + d
  <2>1. node'[m].pIndex = old[m].pIndex
    BY <1>3, <1>9, <1>11
  <2>2. old[m] \in NodeRec
    BY <1>2, <1>9 DEF Memory
  <2>3. x \in ArrayOf(old, m)
    BY <2>2 DEF ArrayOf, Entries, Places, NodeRec
  <2>4. x \in 0 .. (MaxIndex - 1)
    <3>1. ArrayOf(old, m) \subseteq 1 .. (MaxIndex - 1)
      BY <1>6 DEF Tree
    <3>. QED BY <1>5, <2>3, <3>1
  <2>5. x # last
    <3>1. CASE m = n
      BY <1>2, <1>3, <1>9, <3>1 DEF Places, last
    <3>2. CASE m # n
      <4>1. ArrayOf(held, m) = ArrayOf(old, m)
        BY <1>3, <1>9, <3>2 DEF ArrayOf
      <4>2. ArrayOf(held, m) \cap ArrayOf(held, n) = {}
        BY <1>4, <1>6, <3>2 DEF Apart, NodesApart
      <4>. QED BY <1>15, <2>3, <4>1, <4>2
    <3>. QED BY <3>1, <3>2
  <2>6. index'[x] = index[x]
    BY <1>16, <2>4, <2>5
  <2>. QED BY <2>1, <2>6 DEF Entry
<1>19. /\ Tree(node', index', child + 1)
       /\ \A m \in 0 .. (child - 1), ch \in Chars :
            Hop(node', index', m, ch) = IF m = n /\ ch = c THEN child ELSE Hop(old, index, m, ch)
       /\ \A ch \in Chars : Hop(node', index', child, ch) = None
  <2>1. node'[n].size = old[n].size + 1 /\ \A m \in 0 .. (child - 1) : m # n => node'[m].size = old[m].size
    <3>1. node'[n].size = old[n].size + 1
      BY <1>2, <1>3, <1>9, <1>11
    <3>. QED BY <1>3, <1>9, <1>11, <3>1
  <2>2. Entry(node', index', n, old[n].size) = [pNode |-> child, ch |-> c]
    <3>1. at + (size - 1) = last
      BY <1>2, <1>9 DEF last
    <3>. QED BY <1>3, <1>11, <1>16, <3>1 DEF Entry
  <2>3. \A m \in 0 .. (child - 1) : \A d \in Places(old, m) :
          Entry(node', index', m, d) = Entry(old, index, m, d)
    BY <1>18
  <2>4. ChildAdded(old, index, node', index', child, n, c)
    BY <1>2, <1>4, <1>11, <1>14, <2>1, <2>2, <2>3 DEF ChildAdded
  <2>. QED BY <1>2, <1>6, <1>17, <2>4, OneChildMore
<1>20. ASSUME NEW k \in Seq(Chars), NEW j \in 0 .. Len(k)
       PROVE  \/ WalkOf(node', index', k)[j] = WalkOf(old, index, k)[j]
              \/ WalkOf(old, index, k)[j] = None /\ WalkOf(node', index', k)[j] = child
  BY <1>2, <1>6, <1>17, <1>19, GrownWalks
<1>21. WalkOf(node', index', key)[adding.i + 1] = child
  <2>1. PICK i \in 1 .. Len(key) : i = adding.i + 1
    BY <1>4
  <2>2. WalkOf(node', index', key)[i] =
          IF WalkOf(node', index', key)[i - 1] = None THEN None
          ELSE Hop(node', index', WalkOf(node', index', key)[i - 1], key[i])
    BY <1>4, <1>17, <1>19, WalkSteps
  <2>3. i - 1 = adding.i /\ n # None
    BY <1>4, <1>5, <2>1 DEF None
  <2>4. WalkOf(node', index', key)[adding.i] = n
    <3>1. PICK j \in 0 .. Len(key) : j = adding.i
      BY <1>4
    <3>2. \/ WalkOf(node', index', key)[j] = WalkOf(old, index, key)[j]
          \/ WalkOf(old, index, key)[j] = None
      BY <1>4, <1>20
    <3>. QED BY <1>6, <2>3, <3>1, <3>2
  <2>. QED BY <1>4, <1>7, <1>19, <2>1, <2>2, <2>3, <2>4
<1>22. adding'.array = None
  BY <1>1, <1>4, Idle DEF Proceed
<1>23. Seen' = node' /\ Held' = node'
  BY <1>22 DEF Seen, Held
<1>24. ~IsLast => /\ adding' = [key |-> key, status |-> adding.status, i |-> adding.i + 1,
                                cur |-> child, array |-> None]
                  /\ adding'.i = adding.i + 1 /\ adding'.key = key /\ adding'.cur = child
                  /\ adding.i + 1 < Len(key)
  <2>1. SUFFICES ASSUME ~IsLast
                 PROVE  /\ adding' = [key |-> key, status |-> adding.status, i |-> adding.i + 1,
                                      cur |-> child, array |-> None]
                        /\ adding'.i = adding.i + 1 /\ adding'.key = key /\ adding'.cur = child
                        /\ adding.i + 1 < Len(key)
    OBVIOUS
  <2>2. adding' = [adding EXCEPT !.i = @ + 1, !.cur = child, !.array = None]
    BY <1>1, <2>1 DEF Proceed
  <2>3. adding' = [key |-> key, status |-> adding.status, i |-> adding.i + 1,
                   cur |-> child, array |-> None]
    BY <1>4, <2>2 DEF key
  <2>4. adding.i + 1 < Len(key)
    BY <1>4, <1>8, <2>1
  <2>. QED BY <2>3, <2>4
<1>25. IsLast => adding' = NotAdding /\ told' = [told EXCEPT ![key] = adding.status]
  BY <1>1 DEF Proceed, key
<1>26. ~IsLast => told' = told
  BY <1>1 DEF Proceed
<1>27. told \in [Words -> Statuses \cup {None}]
  BY <1>2 DEF TypeOK
<1>28. TypeOK'
  <2>1. node' \in [0 .. (MaxNode - 1) -> [pIndex : Nat, status : Statuses \cup {None},
                                          size : 0 .. Cardinality(Chars)]]
    BY <1>11 DEF NodeRec
  <2>2. index' \in [0 .. (MaxIndex - 1) -> [pNode : 0 .. (MaxNode - 1), ch : Chars \cup {None}]]
    BY <1>16 DEF EntryRec
  <2>3. adding' # NotAdding =>
          /\ adding' \in [key : Words, status : Statuses, i : Nat, cur : Nodes',
                          array : {None} \cup 1 .. (MaxIndex - 1)]
          /\ adding'.i < Len(adding'.key)
    <3>1. SUFFICES ASSUME adding' # NotAdding
                   PROVE  /\ adding' \in [key : Words, status : Statuses, i : Nat, cur : Nodes',
                                          array : {None} \cup 1 .. (MaxIndex - 1)]
                          /\ adding'.i < Len(adding'.key)
      OBVIOUS
    <3>2. ~IsLast
      BY <1>25, <3>1
    <3>3. child \in Nodes' /\ adding.i + 1 \in Nat
      BY <1>1, <1>4, <1>5 DEF Nodes, child
    <3>4. PICK S : S = Nodes'
      OBVIOUS
    <3>5. adding' \in [key : Words, status : Statuses, i : Nat, cur : S,
                      array : {None} \cup 1 .. (MaxIndex - 1)]
      BY <1>4, <1>24, <3>2, <3>3, <3>4
    <3>. QED BY <1>24, <3>2, <3>4, <3>5
  <2>4. iNodeOffset' \in 1 .. MaxNode
    BY <1>1, <1>2, <1>5 DEF child
  <2>5. told' \in [Words -> Statuses \cup {None}]
    BY <1>4, <1>25, <1>26, <1>27
  <2>. QED BY <1>1, <1>2, <2>1, <2>2, <2>3, <2>4, <2>5, CallsStay DEF TypeOK
<1>29. Tree(Seen', index', iNodeOffset') /\ Apart(Held', iNodeOffset', pool', iIndexOffset')
  BY <1>1, <1>13, <1>19, <1>23 DEF child
<1>30. AtNode'
  <2>1. SUFFICES ASSUME adding' # NotAdding
                 PROVE  WalkOf(node', index', adding'.key)[adding'.i] = adding'.cur
    BY <1>23 DEF AtNode
  <2>. QED BY <1>21, <1>24, <1>25, <2>1
<1>31. Moving'
  BY <1>22 DEF Moving
<1>32. ASSUME ~torn' PROVE Agree(Seen', index', told')
  <2>1. ASSUME NEW k \in Words PROVE told'[k] = StatusAt(node', WalkOf(node', index', k)[Len(k)])
    <3>1. k \in Seq(Chars) /\ Len(k) \in 0 .. Len(k)
      BY KeyIs
    <3>2. PICK v \in {None} \cup 0 .. (child - 1) : v = WalkOf(old, index, k)[Len(k)]
      BY <1>2, <1>6, <3>1, WalkSteps
    <3>3. PICK w : w = WalkOf(node', index', k)[Len(k)]
      OBVIOUS
    <3>4. w = v \/ (v = None /\ w = child)
      BY <1>20, <3>1, <3>2, <3>3
    <3>5. told[k] = StatusAt(old, v)
      <4>1. Agree(old, index, told)
        BY <1>1, <1>6, <1>32
      <4>. QED BY <3>2, <4>1 DEF Agree
    <3>6. child # None /\ v # child
      BY <1>5, <3>2 DEF None
    <3>7. v # None => node'[v].status = old[v].status
      BY <1>3, <1>9, <1>11, <3>2
    <3>8. CASE ~IsLast
      <4>1. told'[k] = told[k] /\ node'[child].status = None
        BY <1>11, <1>26, <3>8
      <4>2. CASE w = v
        BY <3>3, <3>5, <3>7, <4>1, <4>2 DEF StatusAt
      <4>3. CASE v = None /\ w = child
        BY <3>3, <3>5, <3>6, <4>1, <4>3 DEF StatusAt
      <4>. QED BY <3>4, <4>2, <4>3
    <3>9. CASE IsLast
      <4>1. WalkOf(node', index', key)[Len(key)] = child /\ node'[child].status = adding.status
        BY <1>8, <1>11, <1>21, <3>9
      <4>2. CASE k = key
        <5>1. told'[k] = adding.status /\ w = child
          BY <1>4, <1>25, <1>27, <3>3, <3>9, <4>1, <4>2
        <5>. QED BY <3>3, <3>6, <4>1, <5>1 DEF StatusAt
      <4>3. CASE k # key
        <5>1. told'[k] = told[k]
          BY <1>25, <1>27, <3>9, <4>3
        <5>2. w # child
          <6>1. SUFFICES ASSUME w = child PROVE FALSE
            OBVIOUS
          <6>2. /\ WalkOf(node', index', k)[Len(k)] = WalkOf(node', index', key)[Len(key)]
                /\ WalkOf(node', index', k)[Len(k)] # None
            BY <3>3, <3>6, <4>1, <6>1
          <6>. QED BY <1>4, <1>17, <1>19, <4>3, <6>2, SameKey
        <5>. QED BY <3>3, <3>4, <3>5, <3>7, <5>1, <5>2 DEF StatusAt
      <4>. QED BY <4>2, <4>3
    <3>. QED BY <3>8, <3>9
  <2>. QED BY <1>23, <2>1 DEF Agree
<1>33. Kept
  <2>1. node'[0].status = node[0].status
    BY <1>5, <1>11
  <2>2. ASSUME NEW k \in Seq(Chars), NEW i \in 0 .. Len(k), WalkOf(old, index, k)[i] # None
        PROVE  WalkOf(Seen', index', k)[i] = WalkOf(old, index, k)[i]
    BY <1>20, <1>23, <2>2
  <2>. QED BY <2>1, <2>2 DEF Kept, old
<1>34. WalkOf(Seen', index', adding.key)[adding.i + 1] = iNodeOffset
  BY <1>21, <1>23 DEF key, child
<1>. QED BY <1>1, <1>2, <1>28, <1>29, <1>30, <1>31, <1>32, <1>33, <1>34 DEF IInv, Sound

-------------------------------------------------------------------------------
(***************************************************************************)
(* del, between any two steps of add.                                      *)
(***************************************************************************)
LEMMA FindIs ==
  ASSUME TypeOK, NEW key \in Seq(Chars)
  PROVE  /\ Find(key) = WalkOf(node, index, key)[Len(key)]
         /\ Find(key) \in {None} \cup 0 .. (MaxNode - 1)
<1>1. Memory(node, index)
  BY MemoryIs
<1>2. Find(key) = WalkOf(node, index, key)[Len(key)]
  BY DEF Find, WalkOf, GetNextNode, Lookup, Hop
<1>3. WalkOf(node, index, key) \in [0 .. Len(key) -> {None} \cup 0 .. (MaxNode - 1)]
  BY <1>1, WalkIs DEF IsWalk
<1>4. Len(key) \in 0 .. Len(key)
  BY LenProperties
<1>. QED BY <1>2, <1>3, <1>4

\* In any memory an entry leads to a node.
LEMMA LookupType ==
  ASSUME TypeOK, NEW at, NEW size, NEW ch
  PROVE  Lookup(at, size, ch) \in {None} \cup 0 .. (MaxNode - 1)
<1>. DEFINE hits == {x \in DOMAIN index : x \in at .. (at + size - 1) /\ index[x].ch = ch}
<1>1. Memory(node, index)
  BY MemoryIs
<1>2. hits \subseteq DOMAIN index /\ DOMAIN index = 0 .. (MaxIndex - 1) /\ MaxIndex \in Nat
  BY <1>1, TrieAssumption DEF Memory
<1>3. Lookup(at, size, ch) = IF hits = {} THEN None ELSE index[Min(hits)].pNode
  BY DEF Lookup
<1>. HIDE DEF hits
<1>4. ASSUME hits # {} PROVE index[Min(hits)].pNode \in 0 .. (MaxNode - 1)
  <2>1. hits \subseteq Nat
    BY <1>2
  <2>2. Min(hits) \in 0 .. (MaxIndex - 1)
    BY <1>2, <1>4, <2>1, LeastIn
  <2>. QED BY <1>1, <2>2 DEF Memory, EntryRec
<1>. QED BY <1>3, <1>4

\* A call of del, or the place of one.
LEMMA CallIs ==
  ASSUME TypeOK, NEW d \in 1 .. MaxDels
  PROVE  /\ deleting[d].key \in Seq(Chars) /\ deleting[d].i \in 0 .. Len(deleting[d].key)
         /\ deleting[d].cur \in 0 .. (MaxNode - 1) /\ deleting[d].cur # None
         /\ IsDeleting(d) =>
              /\ deleting[d] \in [key : Words, i : Nat, cur : 0 .. (MaxNode - 1),
                                  array : {None} \cup Nat]
              /\ deleting[d].key \in Words
              /\ ~AtEnd(d) => deleting[d].i + 1 \in 1 .. Len(deleting[d].key)
<1>1. /\ deleting[d] \in {NotDeleting} \cup [key : Words, i : Nat, cur : 0 .. (MaxNode - 1),
                                             array : {None} \cup Nat]
      /\ deleting[d].i <= Len(deleting[d].key)
  BY DEF TypeOK, CallsOK
<1>2. CASE deleting[d] = NotDeleting
  <2>1. /\ NotDeleting.key = <<>> /\ NotDeleting.i = 0 /\ NotDeleting.cur = 0
        /\ <<>> \in Seq(Chars) /\ Len(<<>>) = 0
    BY DEF NotDeleting
  <2>2. 0 \in 0 .. (MaxNode - 1) /\ 0 # None /\ 0 \in 0 .. 0
    BY TrieAssumption DEF None
  <2>. QED BY <1>2, <2>1, <2>2 DEF IsDeleting
<1>3. CASE deleting[d] # NotDeleting
  <2>1. deleting[d] \in [key : Words, i : Nat, cur : 0 .. (MaxNode - 1), array : {None} \cup Nat]
    BY <1>1, <1>3
  <2>2. /\ deleting[d].key \in Words /\ deleting[d].i \in Nat
        /\ deleting[d].cur \in 0 .. (MaxNode - 1)
    BY <2>1
  <2>3. deleting[d].key \in Seq(Chars) /\ Len(deleting[d].key) \in Nat
    BY <2>2, KeyIs
  <2>4. deleting[d].i \in 0 .. Len(deleting[d].key) /\ deleting[d].cur # None
    BY <1>1, <2>2, <2>3 DEF None
  <2>5. ~AtEnd(d) => deleting[d].i + 1 \in 1 .. Len(deleting[d].key)
    BY <2>2, <2>3, <2>4 DEF AtEnd
  <2>. QED BY <2>1, <2>2, <2>3, <2>4, <2>5
<1>. QED BY <1>2, <1>3

\* A call of del has come down the way its key leads, as long as none looked at an array
\* that was moving or had moved.
OnTheWay ==
  ~starved /\ ~torn =>
    \A d \in 1 .. MaxDels :
      WalkOf(Seen, index, deleting[d].key)[deleting[d].i] = deleting[d].cur

\* The place of no call is at the root.
LEMMA NoCall ==
  ASSUME IInv, ~starved
  PROVE  WalkOf(Seen, index, NotDeleting.key)[NotDeleting.i] = NotDeleting.cur
<1>1. Tree(Seen, index, iNodeOffset) /\ TypeOK
  BY DEF IInv, Sound
<1>2. Memory(Seen, index)
  BY <1>1, MemoryIs, Shown, Still
<1>3. NotDeleting.key \in Seq(Chars) /\ NotDeleting.i = 0 /\ NotDeleting.cur = 0
  BY DEF NotDeleting
<1>. QED BY <1>1, <1>2, <1>3, WalkSteps

LEMMA OnTheWayStays ==
  ASSUME IInv, OnTheWay, ~starved, Kept, deleting' = deleting, torn' = torn
  PROVE  OnTheWay'
<1>1. SUFFICES ASSUME ~torn, NEW d \in 1 .. MaxDels
               PROVE  WalkOf(Seen', index', deleting[d].key)[deleting[d].i] = deleting[d].cur
  BY DEF OnTheWay
<1>2. TypeOK
  BY DEF IInv
<1>3. WalkOf(Seen, index, deleting[d].key)[deleting[d].i] = deleting[d].cur
  BY <1>1 DEF OnTheWay
<1>. QED BY <1>2, <1>3, CallIs DEF Kept

\* The steps that leave the memory alone.
LEMMA MemoryStays ==
  ASSUME IInv, UNCHANGED <<trie, adding, told, starved>>, torn => torn',
         CallsOK', torn' \in BOOLEAN, dels' \in 0 .. MaxDels
  PROVE  IInv' /\ Seen' = Seen /\ index' = index /\ node' = node /\ iNodeOffset' = iNodeOffset
<1>1. UNCHANGED <<node, index, iNodeOffset, iIndexOffset, pool, adding, told, starved>>
  BY DEF trie
<1>2. Seen' = Seen /\ Held' = Held /\ ch_i' = ch_i /\ Nodes' = Nodes
  BY <1>1 DEF Seen, Held, ch_i, Nodes
<1>3. TypeOK'
  BY <1>1, <1>2 DEF IInv, TypeOK
<1>4. ~starved => Sound'
  BY <1>1, <1>2 DEF IInv, Sound, AtNode, Moving
<1>. QED BY <1>1, <1>2, <1>3, <1>4 DEF IInv

LEMMA delKeeps ==
  ASSUME IInv, OnTheWay, NEW key \in Words, del(key)
  PROVE  IInv' /\ OnTheWay' /\ Seen' = Seen /\ index' = index /\ node' = node
<1>. DEFINE call == [key |-> key, i |-> 0, cur |-> 0, array |-> None]
<1>1. /\ dels < MaxDels /\ dels' = dels + 1 /\ deleting' = [deleting EXCEPT ![dels + 1] = call]
      /\ UNCHANGED <<trie, adding, told, starved, torn>>
  BY DEF del
<1>2. TypeOK /\ dels \in 0 .. MaxDels /\ MaxDels \in Nat /\ torn \in BOOLEAN
  BY TrieAssumption DEF IInv, TypeOK
<1>3. dels + 1 \in 1 .. MaxDels /\ dels' \in 0 .. MaxDels
  BY <1>1, <1>2
<1>4. /\ call \in [key : Words, i : Nat, cur : 0 .. (MaxNode - 1), array : {None} \cup Nat]
      /\ call.i = 0 /\ call.array = None /\ call.key = key /\ call.cur = 0
      /\ key \in Seq(Chars) /\ 0 <= Len(key)
  BY KeyIs, TrieAssumption
<1>. HIDE DEF call
<1>5. CallsOK'
  BY <1>1, <1>2, <1>3, <1>4 DEF TypeOK, CallsOK, AtEnd
<1>6. IInv' /\ Seen' = Seen /\ index' = index /\ node' = node
  BY <1>1, <1>2, <1>3, <1>5, MemoryStays
<1>7. OnTheWay'
  <2>1. SUFFICES ASSUME ~starved, ~torn, NEW d \in 1 .. MaxDels
                 PROVE  WalkOf(Seen, index, deleting'[d].key)[deleting'[d].i] = deleting'[d].cur
    BY <1>1, <1>6 DEF OnTheWay
  <2>2. CASE d = dels + 1
    <3>1. Tree(Seen, index, iNodeOffset) /\ Memory(Seen, index)
      BY <1>2, <2>1, MemoryIs, Shown, Still DEF IInv, Sound
    <3>2. deleting'[d] = call
      BY <1>1, <1>2, <2>2 DEF TypeOK, CallsOK
    <3>. QED BY <1>4, <3>1, <3>2, WalkSteps
  <2>3. CASE d # dels + 1
    <3>1. deleting'[d] = deleting[d]
      BY <1>1, <1>2, <2>3 DEF TypeOK, CallsOK
    <3>. QED BY <2>1, <3>1 DEF OnTheWay
  <2>. QED BY <2>2, <2>3
<1>. QED BY <1>6, <1>7

\* A call that ends, or whose place is right, leaves the others on their way.
LEMMA OneCallOn ==
  ASSUME IInv, OnTheWay, NEW d \in 1 .. MaxDels, NEW call, deleting' = [deleting EXCEPT ![d] = call],
         Seen' = Seen, index' = index, starved' = starved, torn => torn',
         ~starved /\ ~torn' => WalkOf(Seen, index, call.key)[call.i] = call.cur
  PROVE  OnTheWay'
<1>1. SUFFICES ASSUME ~starved, ~torn', NEW e \in 1 .. MaxDels
               PROVE  WalkOf(Seen, index, deleting'[e].key)[deleting'[e].i] = deleting'[e].cur
  BY DEF OnTheWay
<1>2. deleting'[e] = IF e = d THEN call ELSE deleting[e]
  BY DEF IInv, TypeOK, CallsOK
<1>. QED BY <1>1, <1>2 DEF OnTheWay

\* The place of a call, with another in it.
LEMMA CallsWith ==
  ASSUME TypeOK, NEW d \in 1 .. MaxDels, NEW call, deleting' = [deleting EXCEPT ![d] = call],
         call \in {NotDeleting} \cup [key : Words, i : Nat, cur : 0 .. (MaxNode - 1),
                                      array : {None} \cup Nat],
         call.i <= Len(call.key), call.array # None => call.i # Len(call.key)
  PROVE  CallsOK'
<1>1. deleting' \in [1 .. MaxDels -> {NotDeleting} \cup
                      [key : Words, i : Nat, cur : 0 .. (MaxNode - 1), array : {None} \cup Nat]]
  BY DEF TypeOK, CallsOK
<1>2. ASSUME NEW e \in 1 .. MaxDels
      PROVE  deleting'[e].i <= Len(deleting'[e].key) /\ (deleting'[e].array # None => ~AtEnd(e)')
  <2>1. deleting'[e] = IF e = d THEN call ELSE deleting[e]
    BY DEF TypeOK, CallsOK
  <2>. QED BY <2>1 DEF TypeOK, CallsOK, AtEnd
<1>. QED BY <1>1, <1>2 DEF CallsOK

LEMMA NoCallFits ==
  NotDeleting.i <= Len(NotDeleting.key) /\ NotDeleting.array = None
  BY DEF NotDeleting

LEMMA ReadsKeeps ==
  ASSUME IInv, OnTheWay, NEW d \in 1 .. MaxDels, Reads(d)
  PROVE  IInv' /\ OnTheWay' /\ Seen' = Seen /\ index' = index /\ node' = node
<1>. DEFINE old  == deleting[d]
            at   == node[old.cur].pIndex
            call == IF node[old.cur].size = 0 THEN NotDeleting ELSE [old EXCEPT !.array = at]
<1>1. /\ IsDeleting(d) /\ ~AtEnd(d) /\ UNCHANGED <<trie, adding, told, starved, torn, dels>>
      /\ deleting' = [deleting EXCEPT ![d] = call]
  <2>1. deleting' = IF node[old.cur].size = 0 THEN [deleting EXCEPT ![d] = NotDeleting]
                    ELSE [deleting EXCEPT ![d].array = at]
    BY DEF Reads, Ends
  <2>2. [deleting EXCEPT ![d].array = at] = [deleting EXCEPT ![d] = [old EXCEPT !.array = at]]
    OBVIOUS
  <2>. QED BY <2>1, <2>2 DEF Reads
<1>2. TypeOK /\ dels \in 0 .. MaxDels /\ torn \in BOOLEAN /\ Memory(node, index)
  BY MemoryIs DEF IInv, TypeOK
<1>3. /\ old \in [key : Words, i : Nat, cur : 0 .. (MaxNode - 1), array : {None} \cup Nat]
      /\ old.i \in 0 .. Len(old.key) /\ old.i # Len(old.key) /\ old.cur \in 0 .. (MaxNode - 1)
  BY <1>1, <1>2, CallIs DEF AtEnd
<1>4. at \in Nat
  BY <1>2, <1>3 DEF Memory, NodeRec
<1>5. ASSUME call # NotDeleting
      PROVE  /\ call \in [key : Words, i : Nat, cur : 0 .. (MaxNode - 1), array : {None} \cup Nat]
             /\ call.key = old.key /\ call.i = old.i /\ call.cur = old.cur
  BY <1>3, <1>4, <1>5
<1>6. call \in {NotDeleting} \cup [key : Words, i : Nat, cur : 0 .. (MaxNode - 1),
                                    array : {None} \cup Nat]
  BY <1>5
<1>7. call.i <= Len(call.key) /\ (call.array # None => call.i # Len(call.key))
  <2>1. old.i <= Len(old.key)
    BY <1>3
  <2>. HIDE DEF call, old
  <2>. QED BY <1>3, <1>5, <2>1, NoCallFits
<1>. HIDE DEF call
<1>8. CallsOK'
  BY <1>1, <1>2, <1>6, <1>7, CallsWith
<1>9. IInv' /\ Seen' = Seen /\ index' = index /\ node' = node
  BY <1>1, <1>2, <1>8, MemoryStays
<1>10. ~starved /\ ~torn' => WalkOf(Seen, index, call.key)[call.i] = call.cur
  BY <1>1, <1>5, NoCall DEF OnTheWay
<1>. QED BY <1>1, <1>9, <1>10, OneCallOn

LEMMA LooksKeeps ==
  ASSUME IInv, OnTheWay, NEW d \in 1 .. MaxDels, Looks(d)
  PROVE  IInv' /\ OnTheWay' /\ Seen' = Seen /\ index' = index /\ node' = node
<1>. DEFINE old  == deleting[d]
            next == Lookup(old.array, node[old.cur].size, old.key[old.i + 1])
            more == [key |-> old.key, i |-> old.i + 1, cur |-> next, array |-> None]
            call == IF next = None THEN NotDeleting ELSE more
<1>1. /\ IsDeleting(d) /\ old.array # None /\ UNCHANGED <<trie, adding, told, starved, dels>>
      /\ deleting' = [deleting EXCEPT ![d] = call] /\ torn' = (torn \/ Tears(d))
  BY DEF Looks, Ends
<1>2. TypeOK /\ dels \in 0 .. MaxDels /\ torn \in BOOLEAN /\ Memory(node, index) /\ CallsOK
  BY MemoryIs DEF IInv, TypeOK
<1>3. /\ old.key \in Words /\ old.key \in Seq(Chars) /\ old.i \in Nat /\ old.cur # None
      /\ old.i + 1 \in 1 .. Len(old.key) /\ old.cur \in 0 .. (MaxNode - 1)
  <2>1. ~AtEnd(d)
    BY <1>1, <1>2 DEF CallsOK
  <2>. QED BY <1>1, <1>2, <2>1, CallIs
<1>4. next # None => next \in 0 .. (MaxNode - 1)
  BY <1>2, LookupType
<1>5. torn' \in BOOLEAN
  <2>1. Tears(d) \in BOOLEAN
    BY DEF Tears
  <2>. QED BY <1>1, <1>2, <2>1
<1>. HIDE DEF old, next
<1>6. /\ more.key = old.key /\ more.i = old.i + 1 /\ more.cur = next /\ more.array = None
      /\ next # None => more \in [key : Words, i : Nat, cur : 0 .. (MaxNode - 1),
                                  array : {None} \cup Nat]
  BY <1>3, <1>4
<1>. HIDE DEF more
<1>7. /\ call \in {NotDeleting} \cup [key : Words, i : Nat, cur : 0 .. (MaxNode - 1),
                                       array : {None} \cup Nat]
      /\ call.i <= Len(call.key) /\ (call.array # None => call.i # Len(call.key))
  BY <1>3, <1>6, NoCallFits
<1>8. CallsOK'
  <2>. HIDE DEF call
  <2>. QED BY <1>1, <1>2, <1>7, CallsWith
<1>9. IInv' /\ Seen' = Seen /\ index' = index /\ node' = node
  BY <1>1, <1>2, <1>5, <1>8, MemoryStays
<1>10. ASSUME ~starved, ~torn', next # None
       PROVE  WalkOf(Seen, index, old.key)[old.i + 1] = next
  <2>1. /\ ~torn /\ (adding.array = None \/ adding.cur # old.cur)
        /\ old.array = node[old.cur].pIndex
    BY <1>1, <1>10 DEF Tears, old
  <2>2. next = Hop(node, index, old.cur, old.key[old.i + 1])
    BY <2>1 DEF next, Lookup, Hop
  <2>3. Seen[old.cur] = node[old.cur]
    BY <1>3, <2>1, Still, Shown
  <2>4. next = Hop(Seen, index, old.cur, old.key[old.i + 1])
    BY <2>2, <2>3 DEF Hop
  <2>5. WalkOf(Seen, index, old.key)[old.i] = old.cur
    BY <1>10, <2>1 DEF OnTheWay, old
  <2>6. Tree(Seen, index, iNodeOffset) /\ Memory(Seen, index)
    BY <1>2, <1>10, MemoryIs, Shown, Still DEF IInv, Sound
  <2>7. PICK key \in Seq(Chars) : key = old.key
    BY <1>3
  <2>8. PICK i \in 1 .. Len(key) : i = old.i + 1
    BY <1>3, <2>7
  <2>9. i - 1 = old.i
    BY <1>3, <2>8
  <2>10. WalkOf(Seen, index, key)[i] =
           IF WalkOf(Seen, index, key)[i - 1] = None THEN None
           ELSE Hop(Seen, index, WalkOf(Seen, index, key)[i - 1], key[i])
    BY <2>6, WalkSteps
  <2>. QED BY <1>3, <2>4, <2>5, <2>7, <2>8, <2>9, <2>10
<1>11. ~starved /\ ~torn' => WalkOf(Seen, index, call.key)[call.i] = call.cur
  BY <1>6, <1>10, NoCall
<1>. HIDE DEF call
<1>. QED BY <1>1, <1>9, <1>11, OneCallOn

LEMMA UnmarksKeeps ==
  ASSUME IInv, OnTheWay, NEW d \in 1 .. MaxDels, Unmarks(d), node[deleting[d].cur].status # None
  PROVE  IInv' /\ (~starved => Kept)
<1>. DEFINE key == deleting[d].key
            f   == deleting[d].cur
            n   == adding.cur
<1>1. /\ IsDeleting(d) /\ deleting[d].i = Len(key) /\ node' = [node EXCEPT ![f].status = None]
      /\ told' = [told EXCEPT ![key] = None] /\ torn' = torn /\ dels' = dels
      /\ deleting' = [deleting EXCEPT ![d] = NotDeleting]
      /\ UNCHANGED <<index, iNodeOffset, iIndexOffset, pool, adding, starved>>
  BY DEF Unmarks, Unmarked, Ends, AtEnd
<1>2. TypeOK /\ (starved => adding = NotAdding) /\ (~starved => Sound)
  BY DEF IInv
<1>3. /\ Memory(node, index) /\ iNodeOffset \in 1 .. MaxNode /\ MaxNode \in Nat
      /\ key \in Seq(Chars) /\ key \in Words
  BY <1>1, <1>2, MemoryIs, CallIs
<1>4. /\ f \in 0 .. (MaxNode - 1) /\ f # None
      /\ ~starved /\ ~torn => f = WalkOf(Seen, index, key)[Len(key)]
  BY <1>1, <1>2, CallIs DEF OnTheWay
<1>. HIDE DEF f, key
<1>5. /\ node \in [0 .. (MaxNode - 1) -> NodeRec]
      /\ node' \in [0 .. (MaxNode - 1) -> NodeRec]
      /\ \A m \in 0 .. (MaxNode - 1) :
           /\ node'[m].pIndex = node[m].pIndex /\ node'[m].size = node[m].size
           /\ node'[m].status = IF m = f THEN None ELSE node[m].status
  <2>1. node \in [0 .. (MaxNode - 1) -> NodeRec]
    BY <1>3 DEF Memory
  <2>. QED BY <1>1, <1>4, <2>1 DEF NodeRec
<1>6. TypeOK'
  <2>1. node' \in [0 .. (MaxNode - 1) -> [pIndex : Nat, status : Statuses \cup {None},
                                          size : 0 .. Cardinality(Chars)]]
    BY <1>5 DEF NodeRec
  <2>2. told' \in [Words -> Statuses \cup {None}]
    BY <1>1, <1>2 DEF TypeOK
  <2>3. CallsOK'
    BY <1>1, <1>2, NoCallFits, CallsWith
  <2>. QED BY <1>1, <1>2, <2>1, <2>2, <2>3 DEF TypeOK, Nodes
<1>7. CASE starved
  BY <1>1, <1>2, <1>6, <1>7 DEF IInv
<1>8. CASE ~starved
  <2>1. Sound
    BY <1>2, <1>8
  <2>2. /\ Tree(Seen, index, iNodeOffset) /\ Apart(Held, iNodeOffset, pool, iIndexOffset)
        /\ AtNode /\ Moving
        /\ ~torn => Agree(Seen, index, told)
    BY <2>1 DEF Sound
  <2>3. Memory(Seen, index)
    BY <1>3, Shown, Still
  <2>4. \A m \in 0 .. (iNodeOffset - 1) : m \in 0 .. (MaxNode - 1)
    BY <1>3
  <2>5. adding.array # None => n \in 0 .. (MaxNode - 1) /\ adding.array \in Nat
                               /\ node[n].size - 1 \in 0 .. Cardinality(Chars)
    <3>1. SUFFICES ASSUME adding.array # None
                   PROVE  n \in 0 .. (MaxNode - 1) /\ adding.array \in Nat
                          /\ node[n].size - 1 \in 0 .. Cardinality(Chars)
      OBVIOUS
    <3>2. adding # NotAdding /\ adding.array \in 1 .. (MaxIndex - 1) /\ MaxIndex \in Nat
          /\ node[n].size \in 1 .. Cardinality(Chars) /\ Cardinality(Chars) \in Nat
      BY <3>1, Shown, TrieAssumption, FS_CardinalityType
    <3>3. n \in 0 .. (MaxNode - 1)
      BY <1>2, <3>2, AddingIs
    <3>. QED BY <3>2, <3>3
  <2>. HIDE DEF n
\* what is seen loses a status, and what is held
  <2>6. /\ Seen' = [Seen EXCEPT ![f].status = None] /\ Held' = [Held EXCEPT ![f].status = None]
    <3>1. CASE adding.array = None
      BY <1>1, <3>1 DEF Seen, Held
    <3>2. CASE adding.array # None
      <4>1. /\ Seen = [node EXCEPT ![n].pIndex = adding.array, ![n].size = @ - 1]
            /\ Seen' = [node' EXCEPT ![n].pIndex = adding.array, ![n].size = @ - 1]
            /\ Held = [node EXCEPT ![n].pIndex = adding.array]
            /\ Held' = [node' EXCEPT ![n].pIndex = adding.array]
        BY <1>1, <3>2 DEF Seen, Held, n
      <4>2. CASE f = n
        BY <1>1, <1>4, <1>5, <2>5, <3>2, <4>1, <4>2 DEF NodeRec
      <4>3. CASE f # n
        <5>. DEFINE g == [Seen EXCEPT ![f].status = None]
                    h == [Held EXCEPT ![f].status = None]
        <5>1. /\ \A m \in 0 .. (MaxNode - 1) : m # f /\ m # n => node'[m] = node[m]
              /\ node'[n] = node[n] /\ node'[f] = [node[f] EXCEPT !.status = None]
          BY <1>1, <1>4, <1>5, <2>5, <3>2, <4>3
        <5>2. \A m \in 0 .. (MaxNode - 1) : Seen'[m] = g[m] /\ Held'[m] = h[m]
          BY <1>4, <1>5, <2>5, <3>2, <4>1, <4>3, <5>1
        <5>3. /\ Seen' = [m \in 0 .. (MaxNode - 1) |-> Seen'[m]]
              /\ Held' = [m \in 0 .. (MaxNode - 1) |-> Held'[m]]
              /\ g = [m \in 0 .. (MaxNode - 1) |-> g[m]]
              /\ h = [m \in 0 .. (MaxNode - 1) |-> h[m]]
          BY <1>5, <4>1
        <5>. HIDE DEF g, h
        <5>4. Seen' = g /\ Held' = h
          BY <5>2, <5>3
        <5>. QED BY <5>4 DEF g, h
      <4>. QED BY <4>2, <4>3
    <3>. QED BY <3>1, <3>2
  <2>7. /\ Memory(Seen', index)
        /\ \A m \in 0 .. (MaxNode - 1) :
             /\ Seen'[m].pIndex = Seen[m].pIndex /\ Seen'[m].size = Seen[m].size
             /\ Seen'[m].status = IF m = f THEN None ELSE Seen[m].status
    BY <1>4, <2>3, <2>6 DEF Memory, NodeRec
  <2>8. \A m \in 0 .. (MaxNode - 1) :
          Held'[m].pIndex = Held[m].pIndex /\ Held'[m].size = Held[m].size
    <3>1. Held \in [0 .. (MaxNode - 1) -> NodeRec]
      <4>1. CASE adding.array = None
        BY <1>5, <4>1 DEF Held
      <4>2. CASE adding.array # None
        BY <1>5, <2>5, <4>2 DEF Held, NodeRec, n
      <4>. QED BY <4>1, <4>2
    <3>. QED BY <1>4, <2>6, <3>1 DEF NodeRec
  <2>9. /\ Tree(Seen', index, iNodeOffset)
        /\ \A m \in 0 .. (iNodeOffset - 1), ch \in Chars :
             Hop(Seen', index, m, ch) = Hop(Seen, index, m, ch)
        /\ \A k \in Seq(Chars) : WalkOf(Seen', index, k) = WalkOf(Seen, index, k)
    BY <2>2, <2>3, <2>4, <2>7, SameShape
  <2>10. Apart(Held', iNodeOffset, pool, iIndexOffset)
    <3>1. \A m \in 0 .. (iNodeOffset - 1) : ArrayOf(Held', m) = ArrayOf(Held, m)
      BY <2>4, <2>8 DEF ArrayOf
    <3>. QED BY <2>2, <3>1, ApartStays
  <2>11. AtNode'
    <3>1. SUFFICES ASSUME adding # NotAdding
                   PROVE  WalkOf(Seen', index, adding.key)[adding.i] = adding.cur
      BY <1>1 DEF AtNode
    <3>2. adding.key \in Seq(Chars)
      BY <1>2, <3>1, AddingIs
    <3>. QED BY <2>2, <2>9, <3>1, <3>2 DEF AtNode
  <2>12. Moving'
    <3>1. SUFFICES ASSUME adding.array # None
                   PROVE  /\ adding # NotAdding /\ node'[adding.cur].size >= 1
                          /\ iNodeOffset + 1 <= MaxNode
                          /\ Hop(Seen', index, adding.cur, ch_i) = None
      BY <1>1 DEF Moving, ch_i
    <3>2. /\ adding # NotAdding /\ node[adding.cur].size >= 1 /\ iNodeOffset + 1 <= MaxNode
          /\ Hop(Seen, index, adding.cur, ch_i) = None
      BY <2>2, <3>1 DEF Moving
    <3>3. adding.cur \in 0 .. (iNodeOffset - 1) /\ ch_i \in Chars
      BY <1>2, <3>2, AddingIs
    <3>. QED BY <1>5, <2>4, <2>9, <3>2, <3>3
  <2>13. ASSUME ~torn' PROVE Agree(Seen', index, told')
    <3>1. ~torn /\ Agree(Seen, index, told)
      BY <1>1, <2>2, <2>13
    <3>2. f = WalkOf(Seen, index, key)[Len(key)]
      BY <1>4, <1>8, <3>1
    <3>3. ASSUME NEW k \in Words
          PROVE  told'[k] = StatusAt(Seen', WalkOf(Seen', index, k)[Len(k)])
      <4>1. k \in Seq(Chars) /\ Len(k) \in 0 .. Len(k)
        BY KeyIs
      <4>2. PICK v \in {None} \cup 0 .. (iNodeOffset - 1) : v = WalkOf(Seen, index, k)[Len(k)]
        BY <2>2, <2>3, <4>1, WalkSteps
      <4>3. WalkOf(Seen', index, k)[Len(k)] = v
        BY <2>9, <4>1, <4>2
      <4>4. told[k] = StatusAt(Seen, v) /\ told \in [Words -> Statuses \cup {None}]
        BY <1>2, <3>1, <4>2 DEF Agree, TypeOK
      <4>5. v # None => v \in 0 .. (MaxNode - 1)
        BY <2>4
      <4>6. CASE k = key
        BY <1>1, <1>4, <2>7, <3>2, <4>2, <4>3, <4>4, <4>6 DEF StatusAt
      <4>7. CASE k # key
        <5>1. v # f
          BY <1>3, <1>4, <2>2, <2>3, <3>2, <4>2, <4>7, SameKey
        <5>2. told'[k] = told[k]
          BY <1>1, <4>4, <4>7
        <5>. QED BY <2>7, <4>3, <4>4, <4>5, <5>1, <5>2 DEF StatusAt
      <4>. QED BY <4>6, <4>7
    <3>. QED BY <3>3 DEF Agree
  <2>14. Sound'
    BY <1>1, <2>9, <2>10, <2>11, <2>12, <2>13 DEF Sound
  <2>15. Kept
    <3>1. node[0].status = None => node'[0].status = None
      BY <1>3, <1>5
    <3>. QED BY <1>1, <2>9, <3>1 DEF Kept
  <2>. QED BY <1>1, <1>6, <1>8, <2>14, <2>15 DEF IInv
<1>. QED BY <1>7, <1>8

-------------------------------------------------------------------------------
(***************************************************************************)
(* The theorems.                                                           *)
(***************************************************************************)
\* Every node but the root is on the way to a word, and the root is the end of none.
Named ==
  ~starved =>
    /\ node[0].status = None
    /\ \A n \in 1 .. (iNodeOffset - 1) :
         \E key \in Words : \E i \in 1 .. Len(key) : WalkOf(Seen, index, key)[i] = n

LEMMA NamedStays ==
  ASSUME IInv, Named, ~starved, Kept, iNodeOffset' = iNodeOffset
  PROVE  Named'
<1>1. node'[0].status = None
  BY DEF Named, Kept
<1>2. ASSUME NEW n \in 1 .. (iNodeOffset - 1)
      PROVE  \E key \in Words : \E i \in 1 .. Len(key) : WalkOf(Seen', index', key)[i] = n
  <2>1. PICK key \in Words : \E i \in 1 .. Len(key) : WalkOf(Seen, index, key)[i] = n
    BY DEF Named
  <2>2. PICK i \in 1 .. Len(key) : WalkOf(Seen, index, key)[i] = n
    BY <2>1
  <2>3. key \in Seq(Chars) /\ i \in 0 .. Len(key) /\ n # None
    BY KeyIs DEF None
  <2>4. WalkOf(Seen', index', key)[i] = n
    BY <2>2, <2>3 DEF Kept
  <2>. QED BY <2>4
<1>. QED BY <1>1, <1>2 DEF Named

LEMMA IInvNext ==
  IInv /\ Named /\ OnTheWay /\ [Next]_vars => IInv' /\ Named' /\ OnTheWay'
<1>. SUFFICES ASSUME IInv, Named, OnTheWay, [Next]_vars PROVE IInv' /\ Named' /\ OnTheWay'
  OBVIOUS
<1>1. ASSUME NEW key \in Words, NEW status \in Statuses, Add(key, status)
      PROVE  IInv' /\ Named' /\ OnTheWay'
  <2>1. /\ IInv' /\ Kept /\ ~starved /\ iNodeOffset' = iNodeOffset
        /\ deleting' = deleting /\ torn' = torn
    BY <1>1, AddKeeps DEF Add, trie
  <2>. QED BY <2>1, NamedStays, OnTheWayStays
<1>2. ASSUME GoDown \/ OutOfNodes \/ Enlarge PROVE IInv' /\ Named' /\ OnTheWay'
  <2>1. IInv' /\ Kept
    BY <1>2, GoDownKeeps, OutOfNodesKeeps, EnlargeKeeps
  <2>2. Walks /\ iNodeOffset' = iNodeOffset /\ deleting' = deleting /\ torn' = torn
    BY <1>2 DEF GoDown, OutOfNodes, Enlarge, NeedsChild, trie
  <2>. QED BY <2>1, <2>2, Walking, NamedStays, OnTheWayStays
<1>3. ASSUME OutOfIndexes PROVE IInv' /\ Named' /\ OnTheWay'
  BY <1>3, OutOfIndexesKeeps DEF OutOfIndexes, Named, OnTheWay
<1>4. ASSUME Repoint PROVE IInv' /\ Named' /\ OnTheWay'
  <2>1. /\ IInv' /\ Kept /\ WalkOf(Seen', index', adding.key)[adding.i + 1] = iNodeOffset
        /\ iNodeOffset' = iNodeOffset + 1 /\ adding.array # None
        /\ deleting' = deleting /\ torn' = torn
    BY <1>4, RepointKeeps DEF Repoint
  <2>2. ~starved /\ adding # NotAdding /\ TypeOK
    BY <2>1, Shown
  <2>3. adding.key \in Words /\ adding.i + 1 \in 1 .. Len(adding.key) /\ iNodeOffset \in Nat
    BY <2>2, AddingIs, MemoryIs
  <2>4. node'[0].status = None
    BY <2>1, <2>2 DEF Named, Kept
  <2>5. ASSUME NEW n \in 1 .. iNodeOffset
        PROVE  \E key \in Words : \E i \in 1 .. Len(key) : WalkOf(Seen', index', key)[i] = n
    <3>1. CASE n = iNodeOffset
      BY <2>1, <2>3, <3>1
    <3>2. CASE n # iNodeOffset
      <4>1. n \in 1 .. (iNodeOffset - 1) /\ n # None
        BY <2>3, <3>2 DEF None
      <4>2. PICK key \in Words : \E i \in 1 .. Len(key) : WalkOf(Seen, index, key)[i] = n
        BY <2>2, <4>1 DEF Named
      <4>3. PICK i \in 1 .. Len(key) : WalkOf(Seen, index, key)[i] = n
        BY <4>2
      <4>4. key \in Seq(Chars) /\ i \in 0 .. Len(key)
        BY KeyIs
      <4>5. WalkOf(Seen', index', key)[i] = n
        BY <2>1, <4>1, <4>3, <4>4 DEF Kept
      <4>. QED BY <4>5
    <3>. QED BY <3>1, <3>2
  <2>6. 1 .. (iNodeOffset' - 1) = 1 .. iNodeOffset
    BY <2>1, <2>3
  <2>7. Named'
    BY <2>1, <2>4, <2>5, <2>6 DEF Named
  <2>. QED BY <2>1, <2>2, <2>7, OnTheWayStays
<1>5. ASSUME IInv', Seen' = Seen, index' = index, node' = node, iNodeOffset' = iNodeOffset,
             starved' = starved
      PROVE  Named'
  BY <1>5 DEF Named
<1>6. ASSUME NEW key \in Words, del(key) PROVE IInv' /\ Named' /\ OnTheWay'
  <2>1. iNodeOffset' = iNodeOffset /\ starved' = starved
    BY <1>6 DEF del, trie
  <2>. QED BY <1>5, <1>6, <2>1, delKeeps
<1>7. ASSUME NEW d \in 1 .. MaxDels, Reads(d) \/ Looks(d) PROVE IInv' /\ Named' /\ OnTheWay'
  <2>1. iNodeOffset' = iNodeOffset /\ starved' = starved
    BY <1>7 DEF Reads, Looks, trie
  <2>. QED BY <1>5, <1>7, <2>1, ReadsKeeps, LooksKeeps
<1>8. ASSUME NEW d \in 1 .. MaxDels, Unmarks(d) PROVE IInv' /\ Named' /\ OnTheWay'
  <2>1. /\ deleting' = [deleting EXCEPT ![d] = NotDeleting]
        /\ UNCHANGED <<index, iNodeOffset, iIndexOffset, pool, adding, starved, torn, dels>>
    BY <1>8 DEF Unmarks, Ends
  <2>2. TypeOK /\ torn \in BOOLEAN /\ dels \in 0 .. MaxDels
    BY DEF IInv, TypeOK
  <2>3. CASE node[deleting[d].cur].status = None
    <3>1. UNCHANGED <<trie, told>>
      BY <1>8, <2>1, <2>3 DEF Unmarks, trie
    <3>2. CallsOK'
      BY <2>1, <2>2, NoCallFits, CallsWith
    <3>3. IInv' /\ Seen' = Seen /\ index' = index /\ node' = node /\ iNodeOffset' = iNodeOffset
      BY <2>1, <2>2, <3>1, <3>2, MemoryStays
    <3>4. OnTheWay'
      BY <2>1, <3>3, NoCall, OneCallOn
    <3>. QED BY <1>5, <2>1, <3>3, <3>4
  <2>4. CASE node[deleting[d].cur].status # None
    <3>1. IInv' /\ (~starved => Kept)
      BY <1>8, <2>4, UnmarksKeeps
    <3>2. Named'
      BY <2>1, <3>1, NamedStays DEF Named
    <3>3. OnTheWay'
      <4>1. SUFFICES ASSUME ~starved, ~torn, NEW e \in 1 .. MaxDels
                     PROVE  WalkOf(Seen', index', deleting'[e].key)[deleting'[e].i]
                              = deleting'[e].cur
        BY <2>1 DEF OnTheWay
      <4>2. deleting'[e] = IF e = d THEN NotDeleting ELSE deleting[e]
        BY <2>1, <2>2 DEF TypeOK, CallsOK
      <4>3. WalkOf(Seen, index, deleting[e].key)[deleting[e].i] = deleting[e].cur
        BY <4>1 DEF OnTheWay
      <4>4. WalkOf(Seen', index', deleting[e].key)[deleting[e].i] = deleting[e].cur
        BY <2>2, <3>1, <4>1, <4>3, CallIs DEF Kept
      <4>5. WalkOf(Seen', index', NotDeleting.key)[NotDeleting.i] = NotDeleting.cur
        <5>1. WalkOf(Seen, index, NotDeleting.key)[NotDeleting.i] = NotDeleting.cur
          BY <4>1, NoCall
        <5>2. NotDeleting.key \in Seq(Chars) /\ NotDeleting.i \in 0 .. Len(NotDeleting.key)
              /\ NotDeleting.cur # None
          BY DEF NotDeleting, None
        <5>. QED BY <3>1, <4>1, <5>1, <5>2 DEF Kept
      <4>. QED BY <4>2, <4>4, <4>5
    <3>. QED BY <3>1, <3>2, <3>3
  <2>. QED BY <2>3, <2>4
<1>9. CASE UNCHANGED vars
  <2>1. UNCHANGED <<trie, adding, told, starved, torn, dels, deleting>>
    BY <1>9 DEF vars
  <2>2. TypeOK /\ torn \in BOOLEAN /\ dels \in 0 .. MaxDels
    BY DEF IInv, TypeOK
  <2>3. CallsOK'
    BY <2>1, <2>2, CallsStay
  <2>4. IInv' /\ Seen' = Seen /\ index' = index /\ node' = node /\ iNodeOffset' = iNodeOffset
    BY <2>1, <2>2, <2>3, MemoryStays
  <2>5. OnTheWay'
    BY <2>1, <2>4 DEF OnTheWay
  <2>. QED BY <1>5, <2>1, <2>4, <2>5
<1>. QED BY <1>1, <1>2, <1>3, <1>4, <1>6, <1>7, <1>8, <1>9 DEF Next

\* The tree in the two blocks stays a tree, its arrays stay apart, what is seen of it
\* agrees with what add and del were told, every node is on the way to a word, and every
\* call of del on its own way (trie.h:122-323, 399-430).
THEOREM Invariant == Spec => [](IInv /\ Named /\ OnTheWay)
<1>1. Init => Named
  BY TrieAssumption DEF Init, Blank, Named
<1>2. Init => OnTheWay
  <2>1. SUFFICES ASSUME Init, NEW d \in 1 .. MaxDels
                 PROVE  WalkOf(Seen, index, deleting[d].key)[deleting[d].i] = deleting[d].cur
    BY DEF OnTheWay
  <2>2. IInv /\ ~starved /\ deleting[d] = NotDeleting
    BY <2>1, IInvInit DEF Init
  <2>. QED BY <2>2, NoCall
<1>. QED BY <1>1, <1>2, IInvInit, IInvNext, PTL DEF Spec

\* Every node, entry, array in the pool and call of add is of its kind; no array has
\* more entries than there are characters (trie.h:122-323).
THEOREM TypeCorrect == Spec => []TypeOK
<1>1. IInv => TypeOK
  BY DEF IInv
<1>. QED BY <1>1, Invariant, PTL

\* Every key is found with the status it was last added with, and a deleted one is
\* not, for any characters, keys and sizes of the two blocks (trie.h:209-244, 271-323).
THEOREM KeysAreFound == Spec => []FindExact
<1>1. IInv => FindExact
  <2>1. SUFFICES ASSUME IInv, Settled, ~torn, NEW key \in Words PROVE Status(key) = told[key]
    BY DEF FindExact
  <2>2. TypeOK /\ Seen = node /\ Agree(Seen, index, told)
    BY <2>1, Still DEF IInv, Sound, Settled
  <2>3. told[key] = StatusAt(node, WalkOf(node, index, key)[Len(key)])
    BY <2>2 DEF Agree
  <2>4. Find(key) = WalkOf(node, index, key)[Len(key)]
    BY <2>2, KeyIs, FindIs
  <2>. QED BY <2>3, <2>4 DEF Status, StatusAt
<1>. QED BY <1>1, Invariant, PTL

\* No two arrays of children, in use or in the pool, have an entry in common, and all
\* are where entries were handed out (trie.h:277-306).
THEOREM ArraysStayApart == Spec => []ArraysApart
<1>1. IInv => ArraysApart
  <2>1. SUFFICES ASSUME IInv, Settled PROVE ArraysApart
    BY DEF ArraysApart
  <2>2. TypeOK /\ Apart(node, iNodeOffset, pool, iIndexOffset)
    BY <2>1, Still DEF IInv, Sound, Settled
  <2>3. /\ Lengths = 1 .. (Cardinality(Chars) + 1)
        /\ \A k \in Lengths : DOMAIN pool[k] = 1 .. Len(pool[k])
    <3>1. pool \in [1 .. (Cardinality(Chars) + 1) -> Seq(1 .. (MaxIndex - 1))]
      BY <2>2 DEF TypeOK
    <3>2. Lengths = 1 .. (Cardinality(Chars) + 1)
      BY <3>1 DEF Lengths
    <3>3. ASSUME NEW k \in Lengths PROVE DOMAIN pool[k] = 1 .. Len(pool[k])
      <4>1. pool[k] \in Seq(1 .. (MaxIndex - 1))
        BY <3>1, <3>2
      <4>. QED BY <4>1, LenProperties
    <3>. QED BY <3>2, <3>3
  <2>4. \A n \in InUse : n \in 0 .. (iNodeOffset - 1)
    BY DEF InUse, Nodes
  <2>5. ASSUME NEW n \in InUse
        PROVE  Entries(node[n].pIndex, node[n].size) \subseteq 1 .. (iIndexOffset - 1)
    BY <2>2, <2>4 DEF Apart, Below, ArrayOf
  <2>6. ASSUME NEW n \in InUse, NEW o \in InUse \ {n}
        PROVE  Entries(node[n].pIndex, node[n].size) \cap Entries(node[o].pIndex, node[o].size) = {}
    BY <2>2, <2>4 DEF Apart, NodesApart, ArrayOf
  <2>7. ASSUME NEW n \in InUse, NEW length \in Lengths, NEW i \in DOMAIN pool[length]
        PROVE  Entries(node[n].pIndex, node[n].size) \cap Entries(pool[length][i], length) = {}
    BY <2>2, <2>3, <2>4 DEF Apart, PoolFree, ArrayOf
  <2>8. ASSUME NEW j \in Lengths, NEW k \in Lengths, NEW a \in DOMAIN pool[j],
               NEW b \in DOMAIN pool[k], <<j, a>> # <<k, b>>
        PROVE  Entries(pool[j][a], j) \cap Entries(pool[k][b], k) = {}
    <3>1. j # k \/ a # b
      BY <2>8
    <3>. QED BY <2>2, <2>3, <3>1 DEF Apart, PoolApart
  <2>. QED BY <2>5, <2>6, <2>7, <2>8 DEF ArraysApart
<1>. QED BY <1>1, Invariant, PTL

-------------------------------------------------------------------------------
(***************************************************************************)
(* The search by prefix.                                                   *)
(***************************************************************************)
Begins(s, t) == Len(s) <= Len(t) /\ \A i \in 1 .. Len(s) : s[i] = t[i]

LEMMA PartIs ==
  ASSUME NEW s \in Seq(Chars), NEW t \in Seq(Chars), Len(s) <= Len(t)
  PROVE  /\ Len(s) \in 0 .. Len(t) /\ SubSeq(t, 1, Len(s)) \in Seq(Chars)
         /\ Len(SubSeq(t, 1, Len(s))) = Len(s)
         /\ \A i \in 1 .. Len(s) : SubSeq(t, 1, Len(s))[i] = t[i]
<1>1. Len(s) \in Nat /\ Len(t) \in Nat
  BY LenProperties
<1>2. \A i \in 1 .. Len(s) : t[i] \in Chars
  BY <1>1, ElementOfSeq
<1>. QED BY <1>1, <1>2, SubSeqProperties

LEMMA PrefixIs ==
  ASSUME NEW s \in Seq(Chars), NEW t \in Seq(Chars)
  PROVE  /\ IsPrefix(s, t) <=> Begins(s, t)
         /\ Begins(s, t) => SubSeq(t, 1, Len(s)) = s
<1>. SUFFICES ASSUME Len(s) <= Len(t)
              PROVE  /\ SubSeq(s, 1, Len(s)) = SubSeq(t, 1, Len(s))
                          <=> \A i \in 1 .. Len(s) : s[i] = t[i]
                     /\ (\A i \in 1 .. Len(s) : s[i] = t[i]) => SubSeq(t, 1, Len(s)) = s
  BY DEF IsPrefix, Begins
<1>. DEFINE u == SubSeq(t, 1, Len(s))
<1>1. u \in Seq(Chars) /\ Len(u) = Len(s) /\ \A i \in 1 .. Len(s) : u[i] = t[i]
  BY PartIs
<1>2. SubSeq(s, 1, Len(s)) = s
  <2>1. Len(s) <= Len(s)
    BY LenProperties
  <2>2. PICK v : v = SubSeq(s, 1, Len(s))
    OBVIOUS
  <2>3. v \in Seq(Chars) /\ Len(v) = Len(s) /\ \A i \in 1 .. Len(s) : v[i] = s[i]
    BY <2>1, <2>2, PartIs
  <2>. QED BY <2>2, <2>3, SeqEqual
<1>. HIDE DEF u
<1>3. (\A i \in 1 .. Len(s) : s[i] = t[i]) => u = s
  BY <1>1, SeqEqual
<1>4. s = u => \A i \in 1 .. Len(s) : s[i] = t[i]
  BY <1>1
<1>. QED BY <1>2, <1>3, <1>4 DEF u

LEMMA BeginsOrder ==
  /\ \A s \in Seq(Chars) : Begins(s, s)
  /\ \A s, t, u \in Seq(Chars) : Begins(s, t) /\ Begins(t, u) => Begins(s, u)
<1>1. \A s \in Seq(Chars) : Begins(s, s)
  BY LenProperties DEF Begins
<1>2. ASSUME NEW s \in Seq(Chars), NEW t \in Seq(Chars), NEW u \in Seq(Chars),
             Begins(s, t), Begins(t, u)
      PROVE  Begins(s, u)
  <2>1. Len(s) \in Nat /\ Len(t) \in Nat /\ Len(u) \in Nat /\ Len(s) <= Len(t) /\ Len(t) <= Len(u)
    BY <1>2, LenProperties DEF Begins
  <2>2. ASSUME NEW i \in 1 .. Len(s) PROVE s[i] = u[i]
    <3>1. i \in 1 .. Len(t)
      BY <2>1
    <3>. QED BY <1>2, <3>1 DEF Begins
  <2>3. Len(s) <= Len(u)
    BY <2>1
  <2>. QED BY <2>2, <2>3 DEF Begins
<1>. QED BY <1>1, <1>2

\* One character more.
LEMMA OneMore ==
  ASSUME NEW w \in Seq(Chars), NEW c \in Chars
  PROVE  /\ Append(w, c) \in Seq(Chars) /\ Len(Append(w, c)) = Len(w) + 1 /\ Len(w) \in Nat
         /\ Append(w, c)[Len(w) + 1] = c /\ \A i \in 1 .. Len(w) : Append(w, c)[i] = w[i]
         /\ Begins(w, Append(w, c)) /\ ~Begins(Append(w, c), w)
         /\ \A d \in Chars : Begins(Append(w, c), Append(w, d)) => c = d
         /\ \A t \in Seq(Chars) : Begins(t, Append(w, c)) => Begins(t, w) \/ t = Append(w, c)
<1>1. \A d \in Chars :
        /\ Append(w, d) \in Seq(Chars) /\ Len(Append(w, d)) = Len(w) + 1 /\ Len(w) \in Nat
        /\ Append(w, d)[Len(w) + 1] = d /\ \A i \in 1 .. Len(w) : Append(w, d)[i] = w[i]
  BY AppendProperties, LenProperties
<1>2. PICK a \in Seq(Chars) : a = Append(w, c)
  BY <1>1
<1>3. /\ Len(a) = Len(w) + 1 /\ Len(w) \in Nat /\ a[Len(w) + 1] = c
      /\ \A i \in 1 .. Len(w) : a[i] = w[i]
  BY <1>1, <1>2
<1>4. Begins(w, a) /\ ~Begins(a, w)
  BY <1>3 DEF Begins
<1>5. ASSUME NEW d \in Chars, Begins(a, Append(w, d)) PROVE c = d
  <2>1. Len(w) + 1 \in 1 .. Len(a)
    BY <1>3
  <2>. QED BY <1>1, <1>3, <1>5, <2>1 DEF Begins
<1>6. ASSUME NEW t \in Seq(Chars), Begins(t, a), t # a PROVE Begins(t, w)
  <2>1. Len(t) \in Nat /\ Len(t) <= Len(a) /\ \A i \in 1 .. Len(t) : t[i] = a[i]
    BY <1>6, LenProperties DEF Begins
  <2>2. Len(t) # Len(a)
    BY <1>6, <2>1, SeqEqual
  <2>3. Len(t) <= Len(w)
    BY <1>3, <2>1, <2>2
  <2>4. ASSUME NEW i \in 1 .. Len(t) PROVE t[i] = w[i]
    <3>1. i \in 1 .. Len(w)
      BY <1>3, <2>1, <2>3
    <3>. QED BY <1>3, <2>1, <3>1
  <2>. QED BY <2>3, <2>4 DEF Begins
<1>. QED BY <1>1, <1>2, <1>4, <1>5, <1>6

\* A longer key goes on with some character.
LEMMA GoesOn ==
  ASSUME NEW w \in Seq(Chars), NEW u \in Seq(Chars), Begins(w, u), w # u
  PROVE  \E c \in Chars : Begins(Append(w, c), u)
<1>1. Len(w) \in Nat /\ Len(u) \in Nat /\ Len(w) <= Len(u) /\ \A i \in 1 .. Len(w) : w[i] = u[i]
  BY LenProperties DEF Begins
<1>2. Len(w) # Len(u)
  BY <1>1, SeqEqual
<1>3. Len(w) + 1 \in 1 .. Len(u)
  BY <1>1, <1>2
<1>4. PICK c \in Chars : c = u[Len(w) + 1]
  BY <1>3, ElementOfSeq
<1>5. PICK a \in Seq(Chars) : a = Append(w, c)
  BY OneMore
<1>6. /\ Len(a) = Len(w) + 1 /\ a[Len(w) + 1] = c /\ \A i \in 1 .. Len(w) : a[i] = w[i]
  BY <1>5, OneMore
<1>7. ASSUME NEW i \in 1 .. Len(a) PROVE a[i] = u[i]
  <2>1. i \in 1 .. Len(w) \/ i = Len(w) + 1
    BY <1>1, <1>6
  <2>. QED BY <1>1, <1>4, <1>6, <2>1
<1>8. Begins(a, u)
  BY <1>3, <1>6, <1>7 DEF Begins
<1>. QED BY <1>5, <1>8

\* What the search needs of the memory, and where a key ends in it.
Sane   == Memory(node, index) /\ Tree(node, index, iNodeOffset)
End(w) == WalkOf(node, index, w)[Len(w)]

LEMMA EndIs ==
  ASSUME Sane, NEW w \in Seq(Chars)
  PROVE  /\ End(w) \in {None} \cup 0 .. (iNodeOffset - 1)
         /\ \A u \in Seq(Chars) : End(u) = End(w) /\ End(w) # None => u = w
         /\ \A u \in Seq(Chars) : Begins(u, w) /\ End(w) # None => End(u) # None
         /\ \A c \in Chars : End(Append(w, c)) =
              IF End(w) = None THEN None ELSE Hop(node, index, End(w), c)
<1>. DEFINE v == WalkOf(node, index, w)
<1>1. Memory(node, index) /\ Tree(node, index, iNodeOffset)
  BY DEF Sane
<1>2. /\ v \in [0 .. Len(w) -> {None} \cup 0 .. (iNodeOffset - 1)]
      /\ \A i \in 1 .. Len(w) :
           v[i] = IF v[i - 1] = None THEN None ELSE Hop(node, index, v[i - 1], w[i])
  BY <1>1, WalkSteps
<1>3. Len(w) \in Nat
  BY LenProperties
<1>4. End(w) = v[Len(w)]
  BY DEF End
<1>. HIDE DEF v
<1>5. ASSUME NEW u \in Seq(Chars), End(u) = End(w), End(w) # None PROVE u = w
  <2>1. Len(u) \in 0 .. Len(u) /\ Len(w) \in 0 .. Len(w)
    BY LenProperties
  <2>2. Len(u) = Len(w) /\ \A l \in 1 .. Len(u) : u[l] = w[l]
    BY <1>1, <1>5, <2>1, OneKeyThere DEF End
  <2>. QED BY <2>2, SeqEqual
\* the walk of what w begins with
<1>6. ASSUME NEW a \in Seq(Chars), NEW u \in Seq(Chars), Begins(u, a)
      PROVE  WalkOf(node, index, a)[Len(u)] = End(u) /\ Len(u) \in 0 .. Len(a)
  <2>1. Len(u) \in 0 .. Len(a) /\ SubSeq(a, 1, Len(u)) = u
    BY <1>6, PrefixIs, PartIs DEF Begins
  <2>2. /\ IsWalk(WalkOf(node, index, a), Hops(node, index, iNodeOffset), iNodeOffset, a)
        /\ IsWalk(WalkOf(node, index, u), Hops(node, index, iNodeOffset), iNodeOffset, u)
    BY <1>1, TreeWalk
  <2>3. PICK m \in 0 .. Len(a) : m = Len(u)
    BY <2>1
  <2>4. SubSeq(a, 1, m) = u
    BY <2>1, <2>3
  <2>5. IsWalk(WalkOf(node, index, u), Hops(node, index, iNodeOffset), iNodeOffset, SubSeq(a, 1, m))
    BY <2>2, <2>4
  <2>6. WalkOf(node, index, u)[m] = WalkOf(node, index, a)[m]
    BY <2>2, <2>5, WalkOfPart
  <2>. QED BY <2>1, <2>3, <2>6 DEF End
<1>7. ASSUME NEW u \in Seq(Chars), Begins(u, w), End(u) = None PROVE End(w) = None
  <2>. DEFINE G == {i \in Nat : Len(u) + i <= Len(w) => v[Len(u) + i] = None}
  <2>1. Len(u) \in 0 .. Len(w) /\ v[Len(u)] = None /\ Len(u) \in Nat
    BY <1>3, <1>6, <1>7 DEF v
  <2>2. 0 \in G
    BY <2>1
  <2>3. ASSUME NEW i \in Nat, i \in G PROVE i + 1 \in G
    <3>1. SUFFICES ASSUME Len(u) + (i + 1) <= Len(w) PROVE v[Len(u) + (i + 1)] = None
      OBVIOUS
    <3>2. PICK j \in 1 .. Len(w) : j = Len(u) + (i + 1) /\ j - 1 = Len(u) + i
      BY <1>3, <2>1, <3>1
    <3>3. v[j - 1] = None
      BY <1>3, <2>1, <2>3, <3>1, <3>2
    <3>. QED BY <1>2, <3>2, <3>3
  <2>. HIDE DEF G
  <2>4. Nat \subseteq G
    BY <2>2, <2>3, Induction
  <2>5. Len(w) - Len(u) \in G /\ Len(u) + (Len(w) - Len(u)) = Len(w)
    BY <1>3, <2>1, <2>4
  <2>6. v[Len(w)] = None
    BY <1>3, <2>5 DEF G
  <2>. QED BY <1>4, <2>6
<1>8. ASSUME NEW c \in Chars
      PROVE  End(Append(w, c)) = IF End(w) = None THEN None ELSE Hop(node, index, End(w), c)
  <2>1. PICK a \in Seq(Chars) : a = Append(w, c)
    BY OneMore
  <2>2. Len(a) = Len(w) + 1 /\ a[Len(w) + 1] = c /\ Begins(w, a)
    BY <2>1, OneMore
  <2>3. PICK i \in 1 .. Len(a) : i = Len(w) + 1 /\ i - 1 = Len(w) /\ i = Len(a)
    BY <1>3, <2>2
  <2>4. WalkOf(node, index, a)[i - 1] = End(w)
    BY <1>6, <2>2, <2>3
  <2>5. WalkOf(node, index, a)[i] =
          IF WalkOf(node, index, a)[i - 1] = None THEN None
          ELSE Hop(node, index, WalkOf(node, index, a)[i - 1], a[i])
    BY <1>1, WalkSteps
  <2>. QED BY <2>1, <2>2, <2>3, <2>4, <2>5 DEF End
<1>9. End(w) \in {None} \cup 0 .. (iNodeOffset - 1)
  BY <1>2, <1>3, <1>4
<1>. QED BY <1>5, <1>7, <1>8, <1>9

\* The calls still to be made and the keys reported.
Item      == Nodes \X Seq(Chars)
CallState == [found : Seq(Seq(Chars)), todo : Seq(Item)]

\* The children of a node, with their keys: those that a walk can go on to.
AreChildren(kids, n, w) ==
  /\ \A i, j \in 1 .. Len(kids) : Begins(kids[i][2], kids[j][2]) => i = j
  /\ \A i \in 1 .. Len(kids) :
       \E c \in Chars : kids[i][2] = Append(w, c) /\ Hop(node, index, n, c) = kids[i][1]
  /\ \A c \in Chars : Hop(node, index, n, c) # None =>
       \E i \in 1 .. Len(kids) : kids[i][2] = Append(w, c)

LEMMA ChildrenIs ==
  ASSUME Sane, NEW n \in Nodes, NEW w \in Seq(Chars)
  PROVE  Children(n, w) \in Seq(Item) /\ AreChildren(Children(n, w), n, w)
<1>. DEFINE kids == Children(n, w)
            E(d) == Entry(node, index, n, d)
<1>1. Memory(node, index) /\ Tree(node, index, iNodeOffset) /\ n \in 0 .. (iNodeOffset - 1)
  BY DEF Sane, Nodes
<1>2. iNodeOffset \in 1 .. MaxNode /\ MaxNode \in Nat
  BY <1>1, TrieAssumption DEF Tree
<1>3. node[n].size \in Nat /\ node[n].pIndex \in Nat
  <2>1. node[n] \in NodeRec /\ Cardinality(Chars) \in Nat
    BY <1>1, <1>2, TrieAssumption, FS_CardinalityType DEF Memory
  <2>. QED BY <2>1 DEF NodeRec
<1>4. PICK size \in Nat : size = node[n].size
  BY <1>3
<1>5. /\ kids = [i \in 1 .. size |-> <<E(i - 1).pNode, Append(w, E(i - 1).ch)>>]
  <2>1. \A i \in 1 .. size : node[n].pIndex + i - 1 = node[n].pIndex + (i - 1)
    BY <1>3
  <2>. QED BY <1>4, <2>1 DEF Children, Entry
<1>6. \A d \in 0 .. (size - 1) : E(d).ch \in Chars /\ E(d).pNode \in 1 .. (iNodeOffset - 1)
  BY <1>1, <1>4 DEF Tree, Places
<1>7. \A i \in 1 .. size : i - 1 \in 0 .. (size - 1)
  BY <1>4
<1>8. ASSUME NEW d \in 0 .. (size - 1) PROVE Hop(node, index, n, E(d).ch) = E(d).pNode
  <2>1. d \in Places(node, n)
    BY <1>4 DEF Places
  <2>. QED BY <1>1, <2>1, HopIs
<1>9. \A d, e \in 0 .. (size - 1) : E(d).ch = E(e).ch => d = e
  BY <1>1, <1>4 DEF Tree, Places
<1>10. ASSUME NEW c \in Chars, Hop(node, index, n, c) # None
       PROVE  \E d \in 0 .. (size - 1) : E(d).ch = c
  <2>1. PICK d \in Places(node, n) : E(d).ch = c
    BY <1>1, <1>10, HopFrom
  <2>. QED BY <1>4, <2>1 DEF Places
<1>. HIDE DEF kids, E
<1>11. kids \in Seq(Item) /\ Len(kids) = size
  <2>1. ASSUME NEW i \in 1 .. size PROVE <<E(i - 1).pNode, Append(w, E(i - 1).ch)>> \in Item
    <3>1. E(i - 1).ch \in Chars /\ E(i - 1).pNode \in Nodes
      BY <1>6, <1>7 DEF Nodes
    <3>. QED BY <3>1, OneMore DEF Item
  <2>2. kids \in [1 .. size -> Item]
    BY <1>5, <2>1
  <2>3. kids \in Seq(Item)
    BY <2>2, SeqDef
  <2>. QED BY <2>2, <2>3, LenProperties
<1>12. ASSUME NEW i \in 1 .. size
       PROVE  kids[i][1] = E(i - 1).pNode /\ kids[i][2] = Append(w, E(i - 1).ch)
  BY <1>5
<1>13. ASSUME NEW i \in 1 .. size, NEW j \in 1 .. size, Begins(kids[i][2], kids[j][2]) PROVE i = j
  <2>1. E(i - 1).ch = E(j - 1).ch
    <3>1. PICK c \in Chars, d \in Chars : c = E(i - 1).ch /\ d = E(j - 1).ch
      BY <1>6, <1>7
    <3>2. Begins(Append(w, c), Append(w, d))
      BY <1>12, <1>13, <3>1
    <3>. QED BY <3>1, <3>2, OneMore
  <2>2. i - 1 = j - 1
    BY <1>7, <1>9, <2>1
  <2>. QED BY <2>2
<1>14. ASSUME NEW i \in 1 .. size
       PROVE  \E c \in Chars : kids[i][2] = Append(w, c) /\ Hop(node, index, n, c) = kids[i][1]
  BY <1>6, <1>7, <1>8, <1>12
<1>15. ASSUME NEW c \in Chars, Hop(node, index, n, c) # None
       PROVE  \E i \in 1 .. size : kids[i][2] = Append(w, c)
  <2>1. PICK d \in 0 .. (size - 1) : E(d).ch = c
    BY <1>10, <1>15
  <2>2. PICK i \in 1 .. size : i = d + 1 /\ i - 1 = d
    BY <1>4
  <2>. QED BY <1>12, <2>1, <2>2
<1>16. AreChildren(kids, n, w)
  BY <1>11, <1>13, <1>14, <1>15 DEF AreChildren
<1>. QED BY <1>11, <1>16 DEF kids

\* A call reports its node's key if a word ends there, and is replaced by its children,
\* or by nothing when enough is found (trie.h:370-397).
IsCall(s, max, kids, rest, n, w, found) ==
  /\ Len(s.todo) \in Nat \ {0} /\ s.todo[1] = <<n, w>>
  /\ Len(rest) = Len(s.todo) - 1 /\ \A i \in 1 .. Len(rest) : rest[i] = s.todo[i + 1]
  /\ found = (IF node[n].status >= 0 THEN Append(s.found, w) ELSE s.found)
  /\ kids = Children(n, w) \/ (kids = <<>> /\ Len(found) >= max)
  /\ OneCall(s, max) = [found |-> found, todo |-> kids \o rest]

LEMMA OneCallIs ==
  ASSUME Sane, NEW s \in CallState, s.todo # <<>>, NEW max
  PROVE  \E kids, rest \in Seq(Item), n \in Nodes, w \in Seq(Chars), found \in Seq(Seq(Chars)) :
           IsCall(s, max, kids, rest, n, w, found)
<1>1. s.found \in Seq(Seq(Chars)) /\ s.todo \in Seq(Item)
  BY DEF CallState
<1>2. PICK q \in Seq(Item) : q = s.todo
  BY <1>1
<1>3. /\ Tail(q) \in Seq(Item) /\ Len(Tail(q)) = Len(q) - 1
      /\ \A i \in 1 .. Len(Tail(q)) : Tail(q)[i] = q[i + 1]
      /\ Len(q) \in Nat \ {0}
  BY <1>2, HeadTailProperties, EmptySeq
<1>4. 1 \in 1 .. Len(q)
  BY <1>3
<1>5. q[1] \in Item
  BY <1>4, ElementOfSeq
<1>6. PICK n \in Nodes, w \in Seq(Chars) : q[1] = <<n, w>>
  BY <1>5 DEF Item
<1>7. Head(q) = q[1]
  OBVIOUS
<1>. DEFINE hit   == node[n].status >= 0
            found == IF hit THEN Append(s.found, w) ELSE s.found
            full  == hit /\ Len(found) >= max
            kids  == IF full THEN <<>> ELSE Children(n, w)
<1>8. found \in Seq(Seq(Chars))
  BY <1>1, AppendProperties
<1>9. kids \in Seq(Item)
  <2>1. Children(n, w) \in Seq(Item)
    BY ChildrenIs
  <2>2. <<>> \in Seq(Item)
    OBVIOUS
  <2>. QED BY <2>1, <2>2
<1>10. OneCall(s, max) = [found |-> found, todo |-> kids \o Tail(q)]
  <2>1. Head(s.todo) = <<n, w>> /\ Head(s.todo)[1] = n /\ Head(s.todo)[2] = w
    BY <1>2, <1>6, <1>7
  <2>. QED BY <1>2, <2>1 DEF OneCall
<1>11. kids = Children(n, w) \/ (kids = <<>> /\ Len(found) >= max)
  OBVIOUS
<1>12. found = (IF node[n].status >= 0 THEN Append(s.found, w) ELSE s.found)
  OBVIOUS
<1>. HIDE DEF found, kids, full, hit
<1>13. IsCall(s, max, kids, Tail(q), n, w, found)
  BY <1>2, <1>3, <1>6, <1>10, <1>11, <1>12 DEF IsCall
<1>. QED BY <1>3, <1>8, <1>9, <1>13

\* What is left after each call.  The keys still to be looked at are those that begin
\* with a key in todo; V are those that were looked at.
TodoSound(s, p) ==
  \A i \in 1 .. Len(s.todo) : End(s.todo[i][2]) = s.todo[i][1] /\ Begins(p, s.todo[i][2])

TodoApart(s) == \A i, j \in 1 .. Len(s.todo) : Begins(s.todo[i][2], s.todo[j][2]) => i = j

LookedAt(s, p, V) ==
  /\ V \subseteq Seq(Chars)
  /\ \A v \in V : End(v) # None /\ Begins(p, v)
  /\ \A v \in V : \A i \in 1 .. Len(s.todo) : ~Begins(s.todo[i][2], v)

Reports(s, V) ==
  /\ \A i \in 1 .. Len(s.found) : s.found[i] \in V /\ node[End(s.found[i])].status >= 0
  /\ \A i, j \in 1 .. Len(s.found) : s.found[i] = s.found[j] => i = j
  /\ \A v \in V : node[End(v)].status >= 0 => \E i \in 1 .. Len(s.found) : s.found[i] = v

Covers(s, p, V, max) ==
  \/ Len(s.found) >= max
  \/ \A w \in Seq(Chars) : End(w) # None /\ Begins(p, w) =>
       w \in V \/ \E i \in 1 .. Len(s.todo) : Begins(s.todo[i][2], w)

Counts(s, V, k) == IsFiniteSet(V) /\ (s.todo # <<>> => Cardinality(V) = k)

CallInv(s, p, max, k) ==
  /\ s \in CallState /\ TodoSound(s, p) /\ TodoApart(s)
  /\ \E V : LookedAt(s, p, V) /\ Reports(s, V) /\ Covers(s, p, V, max) /\ Counts(s, V, k)

\* Of two sequences, of lengths L and M, one after the other.
IsJoin(u, s, t, L, M) ==
  /\ Len(u) = L + M
  /\ \A i \in 1 .. L : i \in 1 .. Len(u) /\ u[i] = s[i]
  /\ \A j \in 1 .. M : L + j \in 1 .. Len(u) /\ u[L + j] = t[j]
  /\ \A i \in 1 .. Len(u) : i \in 1 .. L \/ \E j \in 1 .. M : i = L + j

LEMMA Joined ==
  ASSUME NEW S, NEW s \in Seq(S), NEW t \in Seq(S), NEW L \in Nat, NEW M \in Nat,
         Len(s) = L, Len(t) = M
  PROVE  IsJoin(s \o t, s, t, L, M)
<1>1. PICK u : u = s \o t
  OBVIOUS
<1>2. Len(u) = L + M /\ \A i \in 1 .. (L + M) : u[i] = IF i <= L THEN s[i] ELSE t[i - L]
  BY <1>1, ConcatProperties
<1>3. \A i \in 1 .. L : i \in 1 .. Len(u) /\ u[i] = s[i]
  BY <1>2
<1>4. ASSUME NEW j \in 1 .. M PROVE L + j \in 1 .. Len(u) /\ u[L + j] = t[j]
  <2>1. PICK i \in 1 .. (L + M) : i = L + j /\ ~(i <= L) /\ i - L = j
    OBVIOUS
  <2>. QED BY <1>2, <2>1
<1>5. ASSUME NEW i \in 1 .. Len(u), i \notin 1 .. L PROVE \E j \in 1 .. M : i = L + j
  <2>1. PICK j \in 1 .. M : j = i - L
    BY <1>2, <1>5
  <2>. QED BY <2>1
<1>. QED BY <1>1, <1>2, <1>3, <1>4, <1>5 DEF IsJoin

\* A call looks at one key more, and what is left of the search is as it was before.
LEMMA CallKeeps ==
  ASSUME Sane, NEW s, NEW p \in Seq(Chars), NEW max \in Nat, NEW k \in Nat,
         CallInv(s, p, max, k), s.todo # <<>>
  PROVE  CallInv(OneCall(s, max), p, max, k + 1)
<1>1. s \in CallState /\ TodoSound(s, p) /\ TodoApart(s)
  BY DEF CallInv
<1>2. PICK kids \in Seq(Item), rest \in Seq(Item), n \in Nodes, w \in Seq(Chars),
           found \in Seq(Seq(Chars)) : IsCall(s, max, kids, rest, n, w, found)
  BY <1>1, OneCallIs
<1>3. /\ Len(s.todo) \in Nat \ {0} /\ s.todo[1] = <<n, w>>
      /\ Len(rest) = Len(s.todo) - 1 /\ \A i \in 1 .. Len(rest) : rest[i] = s.todo[i + 1]
      /\ found = (IF node[n].status >= 0 THEN Append(s.found, w) ELSE s.found)
      /\ kids = Children(n, w) \/ (kids = <<>> /\ Len(found) >= max)
      /\ OneCall(s, max) = [found |-> found, todo |-> kids \o rest]
  BY <1>2 DEF IsCall
<1>4. PICK V : LookedAt(s, p, V) /\ Reports(s, V) /\ Covers(s, p, V, max) /\ Counts(s, V, k)
  BY DEF CallInv
<1>5. PICK t : t = OneCall(s, max)
  OBVIOUS
<1>6. t.found = found /\ t.todo = kids \o rest /\ t \in CallState
  <2>1. kids \o rest \in Seq(Item)
    BY ConcatProperties
  <2>. QED BY <1>3, <1>5, <2>1 DEF CallState
<1>7. PICK L \in Nat : L = Len(kids)
  BY LenProperties
<1>8. PICK M \in Nat \ {0} : M = Len(s.todo)
  BY <1>3
<1>9. /\ Len(t.todo) = L + (M - 1)
      /\ \A i \in 1 .. L : i \in 1 .. Len(t.todo) /\ t.todo[i] = kids[i]
      /\ \A j \in 1 .. (M - 1) : L + j \in 1 .. Len(t.todo) /\ t.todo[L + j] = rest[j]
      /\ \A i \in 1 .. Len(t.todo) : i \in 1 .. L \/ \E j \in 1 .. (M - 1) : i = L + j
  <2>1. Len(rest) = M - 1 /\ M - 1 \in Nat
    BY <1>3, <1>8
  <2>2. IsJoin(t.todo, kids, rest, L, M - 1)
    BY <1>6, <1>7, <2>1, Joined
  <2>. QED BY <2>2 DEF IsJoin
\* the calls to be made are the children and the others
<1>10. ASSUME NEW i \in 1 .. Len(t.todo)
       PROVE  \/ i \in 1 .. L /\ t.todo[i] = kids[i]
              \/ \E j \in 2 .. M : i = L + (j - 1) /\ t.todo[i] = s.todo[j]
  <2>1. CASE i \in 1 .. L
    BY <1>9, <2>1
  <2>2. CASE \E j \in 1 .. (M - 1) : i = L + j
    <3>1. PICK j \in 1 .. (M - 1) : i = L + j
      BY <2>2
    <3>2. PICK l \in 2 .. M : l = j + 1 /\ j = l - 1
      OBVIOUS
    <3>3. t.todo[i] = rest[j] /\ rest[j] = s.todo[l]
      BY <1>3, <1>8, <1>9, <3>1, <3>2
    <3>. QED BY <3>1, <3>2, <3>3
  <2>. QED BY <1>9, <2>1, <2>2
<1>11. ASSUME NEW i \in 1 .. L PROVE i \in 1 .. Len(t.todo) /\ t.todo[i] = kids[i]
  BY <1>9
<1>12. ASSUME NEW j \in 2 .. M PROVE \E i \in 1 .. Len(t.todo) : t.todo[i] = s.todo[j]
  <2>1. PICK l \in 1 .. (M - 1) : j = l + 1
    OBVIOUS
  <2>2. t.todo[L + l] = rest[l] /\ rest[l] = s.todo[j] /\ L + l \in 1 .. Len(t.todo)
    BY <1>3, <1>8, <1>9, <2>1
  <2>. QED BY <2>2
\* the call's own key
<1>13. /\ s.todo[1][1] = n /\ s.todo[1][2] = w /\ 1 \in 1 .. M
       /\ End(w) = n /\ n # None /\ Begins(p, w)
  <2>1. s.todo[1][1] = n /\ s.todo[1][2] = w /\ 1 \in 1 .. M
    BY <1>3
  <2>2. n # None
    BY DEF Nodes, None
  <2>. QED BY <1>1, <1>8, <2>1, <2>2 DEF TodoSound
<1>14. ASSUME NEW i \in 1 .. L
       PROVE  \E c \in Chars : kids[i][2] = Append(w, c) /\ Hop(node, index, n, c) = kids[i][1]
  <2>1. kids = Children(n, w)
    BY <1>3, <1>7
  <2>2. AreChildren(kids, n, w)
    BY <2>1, ChildrenIs
  <2>. QED BY <1>7, <2>2 DEF AreChildren
<1>15. \A i, j \in 1 .. L : Begins(kids[i][2], kids[j][2]) => i = j
  <2>1. kids = Children(n, w) \/ L = 0
    BY <1>3, <1>7
  <2>2. CASE kids = Children(n, w)
    <3>1. AreChildren(kids, n, w)
      BY <2>2, ChildrenIs
    <3>. QED BY <1>7, <3>1 DEF AreChildren
  <2>. QED BY <2>1, <2>2
<1>16. \A j \in 2 .. M : s.todo[j][2] \in Seq(Chars) /\ j \in 1 .. M
  <2>1. ASSUME NEW j \in 2 .. M PROVE s.todo[j][2] \in Seq(Chars) /\ j \in 1 .. M
    <3>1. j \in 1 .. M
      OBVIOUS
    <3>2. s.todo \in Seq(Item)
      BY <1>1 DEF CallState
    <3>3. s.todo[j] \in Item
      BY <1>8, <3>1, <3>2, ElementOfSeq
    <3>. QED BY <3>1, <3>3 DEF Item
  <2>. QED BY <2>1
<1>17. TodoSound(t, p)
  <2>1. ASSUME NEW i \in 1 .. Len(t.todo)
        PROVE  End(t.todo[i][2]) = t.todo[i][1] /\ Begins(p, t.todo[i][2])
    <3>1. CASE i \in 1 .. L /\ t.todo[i] = kids[i]
      <4>1. PICK c \in Chars : kids[i][2] = Append(w, c) /\ Hop(node, index, n, c) = kids[i][1]
        BY <1>14, <3>1
      <4>2. End(Append(w, c)) = Hop(node, index, n, c)
        BY <1>13, EndIs
      <4>3. PICK a \in Seq(Chars) : a = Append(w, c) /\ Begins(w, a)
        BY OneMore
      <4>4. Begins(p, a)
        BY <1>13, <4>3, BeginsOrder
      <4>. QED BY <3>1, <4>1, <4>2, <4>3, <4>4
    <3>2. CASE \E j \in 2 .. M : t.todo[i] = s.todo[j]
      BY <1>1, <1>8, <1>16, <3>2 DEF TodoSound
    <3>. QED BY <1>10, <3>1, <3>2
  <2>. QED BY <2>1 DEF TodoSound
<1>18. ASSUME NEW i \in 1 .. L, NEW u \in Seq(Chars), Begins(kids[i][2], u)
       PROVE  Begins(w, u) /\ u # w
  <2>1. PICK c \in Chars : kids[i][2] = Append(w, c)
    BY <1>14
  <2>2. PICK a \in Seq(Chars) : a = Append(w, c) /\ Begins(w, a) /\ ~Begins(a, w)
    BY OneMore
  <2>3. Begins(a, u)
    BY <1>18, <2>1, <2>2
  <2>. QED BY <2>2, <2>3, BeginsOrder
<1>19. TodoApart(t)
  <2>1. ASSUME NEW i \in 1 .. L, NEW j \in 2 .. M
        PROVE  ~Begins(kids[i][2], s.todo[j][2]) /\ ~Begins(s.todo[j][2], kids[i][2])
    <3>1. ~Begins(w, s.todo[j][2]) /\ ~Begins(s.todo[j][2], w)
      <4>1. j # 1
        OBVIOUS
      <4>. QED BY <1>1, <1>8, <1>13, <1>16, <4>1 DEF TodoApart
    <3>2. PICK c \in Chars : kids[i][2] = Append(w, c)
      BY <1>14
    <3>3. PICK u \in Seq(Chars) : u = s.todo[j][2]
      BY <1>16
    <3>4. Begins(w, Append(w, c)) /\ (Begins(u, Append(w, c)) => Begins(u, w) \/ u = Append(w, c))
      BY OneMore
    <3>5. ~Begins(u, kids[i][2])
      BY <3>1, <3>2, <3>3, <3>4
    <3>6. ~Begins(kids[i][2], u)
      BY <1>18, <3>1, <3>3
    <3>. QED BY <3>3, <3>5, <3>6
  <2>2. ASSUME NEW i \in 1 .. Len(t.todo), NEW j \in 1 .. Len(t.todo),
               Begins(t.todo[i][2], t.todo[j][2])
        PROVE  i = j
    <3>1. CASE i \in 1 .. L /\ t.todo[i] = kids[i]
      <4>1. CASE j \in 1 .. L /\ t.todo[j] = kids[j]
        BY <1>15, <2>2, <3>1, <4>1
      <4>2. CASE \E m \in 2 .. M : t.todo[j] = s.todo[m]
        BY <2>1, <2>2, <3>1, <4>2
      <4>. QED BY <1>10, <4>1, <4>2
    <3>2. CASE \E l \in 2 .. M : i = L + (l - 1) /\ t.todo[i] = s.todo[l]
      <4>1. CASE j \in 1 .. L /\ t.todo[j] = kids[j]
        BY <2>1, <2>2, <3>2, <4>1
      <4>2. CASE \E m \in 2 .. M : j = L + (m - 1) /\ t.todo[j] = s.todo[m]
        BY <1>1, <1>8, <1>16, <2>2, <3>2, <4>2 DEF TodoApart
      <4>. QED BY <1>10, <4>1, <4>2
    <3>. QED BY <1>10, <3>1, <3>2
  <2>. QED BY <2>2 DEF TodoApart
\* one key more was looked at
<1>. DEFINE W == V \cup {w}
<1>20. w \notin V /\ V \subseteq Seq(Chars)
  BY <1>4, <1>8, <1>13, BeginsOrder DEF LookedAt
<1>21. LookedAt(t, p, W)
  <2>1. \A v \in W : v \in Seq(Chars) /\ End(v) # None /\ Begins(p, v)
    BY <1>4, <1>13 DEF LookedAt
  <2>2. ASSUME NEW v \in W, NEW i \in 1 .. Len(t.todo), Begins(t.todo[i][2], v) PROVE FALSE
    <3>1. CASE i \in 1 .. L /\ t.todo[i] = kids[i]
      <4>1. Begins(w, v) /\ v # w
        BY <1>18, <2>1, <2>2, <3>1
      <4>. QED BY <1>4, <1>8, <1>13, <4>1 DEF LookedAt
    <3>2. CASE \E j \in 2 .. M : t.todo[i] = s.todo[j]
      <4>1. PICK j \in 2 .. M : t.todo[i] = s.todo[j]
        BY <3>2
      <4>2. v = w
        BY <1>4, <1>8, <1>16, <2>2, <4>1 DEF LookedAt
      <4>3. j = 1
        BY <1>1, <1>8, <1>13, <1>16, <2>2, <4>1, <4>2 DEF TodoApart
      <4>. QED BY <4>3
    <3>. QED BY <1>10, <3>1, <3>2
  <2>. QED BY <2>1, <2>2 DEF LookedAt
\* what it reports
<1>22. PICK f \in Seq(Seq(Chars)) : f = s.found
  BY <1>1 DEF CallState
<1>23. PICK F \in Nat, G \in Nat : F = Len(f) /\ G = Len(found)
  BY LenProperties
<1>24. ASSUME node[n].status >= 0
       PROVE  G = F + 1 /\ found[F + 1] = w /\ \A i \in 1 .. F : found[i] = f[i]
  <2>1. found = Append(f, w)
    BY <1>3, <1>22, <1>24
  <2>. QED BY <1>23, <2>1, AppendProperties
<1>25. ASSUME NEW i \in 1 .. F PROVE i \in 1 .. G /\ found[i] = f[i]
  <2>1. CASE node[n].status >= 0
    BY <1>24, <2>1
  <2>2. CASE ~(node[n].status >= 0)
    BY <1>3, <1>22, <1>23, <2>2
  <2>. QED BY <2>1, <2>2
<1>26. ASSUME NEW i \in 1 .. G
       PROVE  i \in 1 .. F \/ (i = F + 1 /\ found[i] = w /\ node[n].status >= 0)
  <2>1. CASE node[n].status >= 0
    BY <1>24, <2>1
  <2>2. CASE ~(node[n].status >= 0)
    BY <1>3, <1>22, <1>23, <2>2
  <2>. QED BY <2>1, <2>2
<1>27. F <= G
  BY <1>23, <1>25
<1>28. ASSUME node[n].status >= 0 PROVE \E i \in 1 .. G : found[i] = w
  <2>1. F + 1 \in 1 .. G
    BY <1>24, <1>28
  <2>. QED BY <1>24, <1>28, <2>1
<1>29. Reports(t, W)
  <2>1. \A i \in 1 .. F : f[i] \in V /\ node[End(f[i])].status >= 0
    BY <1>4, <1>22, <1>23 DEF Reports
  <2>2. \A i, j \in 1 .. F : f[i] = f[j] => i = j
    BY <1>4, <1>22, <1>23 DEF Reports
  <2>3. \A v \in V : node[End(v)].status >= 0 => \E i \in 1 .. F : f[i] = v
    BY <1>4, <1>22, <1>23 DEF Reports
  <2>4. ASSUME NEW i \in 1 .. G PROVE found[i] \in W /\ node[End(found[i])].status >= 0
    BY <1>13, <1>25, <1>26, <2>1
  <2>5. ASSUME NEW i \in 1 .. G, NEW j \in 1 .. G, found[i] = found[j] PROVE i = j
    <3>1. CASE i \in 1 .. F /\ j \in 1 .. F
      BY <1>25, <2>2, <2>5, <3>1
    <3>2. CASE i \notin 1 .. F \/ j \notin 1 .. F
      <4>1. i \notin 1 .. F /\ j \notin 1 .. F
        BY <1>20, <1>25, <1>26, <2>1, <2>5, <3>2
      <4>. QED BY <1>26, <4>1
    <3>. QED BY <3>1, <3>2
  <2>6. ASSUME NEW v \in W, node[End(v)].status >= 0 PROVE \E i \in 1 .. G : found[i] = v
    <3>1. CASE v \in V
      BY <1>25, <2>3, <2>6, <3>1
    <3>2. CASE v = w
      BY <1>13, <1>28, <2>6, <3>2
    <3>. QED BY <3>1, <3>2
  <2>. HIDE DEF W
  <2>. QED BY <1>6, <1>23, <2>4, <2>5, <2>6 DEF Reports
<1>30. Covers(t, p, W, max)
  <2>1. CASE G >= max
    BY <1>6, <1>23, <2>1 DEF Covers
  <2>2. CASE ~(G >= max)
    <3>1. kids = Children(n, w)
      BY <1>3, <1>23, <2>2
    <3>2. ~(Len(s.found) >= max)
      BY <1>22, <1>23, <1>27, <2>2
    <3>3. ASSUME NEW u \in Seq(Chars), End(u) # None, Begins(p, u)
          PROVE  u \in W \/ \E i \in 1 .. Len(t.todo) : Begins(t.todo[i][2], u)
      <4>1. u \in V \/ \E j \in 1 .. M : Begins(s.todo[j][2], u)
        BY <1>4, <1>8, <3>2, <3>3 DEF Covers
      <4>2. CASE \E j \in 1 .. M : Begins(s.todo[j][2], u)
        <5>1. PICK j \in 1 .. M : Begins(s.todo[j][2], u)
          BY <4>2
        <5>2. CASE j = 1 /\ u # w
          <6>1. PICK c \in Chars : Begins(Append(w, c), u)
            BY <1>13, <5>1, <5>2, GoesOn
          <6>2. End(Append(w, c)) # None
            BY <3>3, <6>1, EndIs, OneMore
          <6>3. Hop(node, index, n, c) # None
            BY <1>13, <6>2, EndIs
          <6>4. AreChildren(kids, n, w)
            BY <3>1, ChildrenIs
          <6>5. PICK i \in 1 .. L : kids[i][2] = Append(w, c)
            BY <1>7, <6>3, <6>4 DEF AreChildren
          <6>. QED BY <1>11, <6>1, <6>5
        <5>3. CASE j # 1
          <6>1. j \in 2 .. M
            BY <5>3
          <6>2. PICK i \in 1 .. Len(t.todo) : t.todo[i] = s.todo[j]
            BY <1>12, <6>1
          <6>. QED BY <5>1, <6>2
        <5>. QED BY <5>2, <5>3
      <4>. QED BY <4>1, <4>2
    <3>. QED BY <3>3 DEF Covers
  <2>. QED BY <2>1, <2>2
<1>31. Counts(t, W, k + 1)
  <2>1. IsFiniteSet(V) /\ Cardinality(V) = k
    BY <1>4 DEF Counts
  <2>. QED BY <1>20, <2>1, FS_AddElement DEF Counts
<1>. HIDE DEF W
<1>. QED BY <1>5, <1>6, <1>17, <1>19, <1>21, <1>29, <1>30, <1>31 DEF CallInv

\* The search starts with one call, and when none is left the rounds change nothing.
LEMMA FirstCall ==
  ASSUME Sane, NEW p \in Seq(Chars), End(p) # None, NEW max \in Nat
  PROVE  CallInv([todo |-> <<<<End(p), p>>>>, found |-> <<>>], p, max, 0)
<1>1. PICK e \in Item : e = <<End(p), p>> /\ e[1] = End(p) /\ e[2] = p
  <2>1. End(p) \in 0 .. (iNodeOffset - 1)
    BY EndIs
  <2>2. <<End(p), p>> \in Item
    BY <2>1 DEF Item, Nodes
  <2>. QED BY <2>2
<1>2. PICK s : s = [todo |-> <<e>>, found |-> <<>>]
  OBVIOUS
<1>3. s \in CallState /\ s.todo = <<e>> /\ Len(s.todo) = 1 /\ s.todo[1] = e
      /\ s.found = <<>> /\ Len(s.found) = 0
  BY <1>2 DEF CallState
<1>4. \A i \in 1 .. Len(s.todo) : i = 1 /\ s.todo[i][1] = End(p) /\ s.todo[i][2] = p
  BY <1>1, <1>3
<1>5. TodoSound(s, p)
  BY <1>4, BeginsOrder DEF TodoSound
<1>6. TodoApart(s)
  BY <1>4 DEF TodoApart
<1>7. LookedAt(s, p, {}) /\ Reports(s, {})
  BY <1>3 DEF LookedAt, Reports
<1>8. Covers(s, p, {}, max)
  <2>1. 1 \in 1 .. Len(s.todo) /\ s.todo[1][2] = p
    BY <1>1, <1>3
  <2>. QED BY <2>1 DEF Covers
<1>9. Counts(s, {}, 0)
  BY FS_EmptySet DEF Counts
<1>. QED BY <1>1, <1>2, <1>3, <1>5, <1>6, <1>7, <1>8, <1>9 DEF CallInv

LEMMA NoCallLeft ==
  ASSUME NEW s, NEW p, NEW max, NEW k, NEW j, CallInv(s, p, max, k), s.todo = <<>>
  PROVE  CallInv(s, p, max, j)
BY DEF CallInv, Counts

\* After as many calls as there are nodes none is left: each has looked at another node.
LEMMA AllLookedAt ==
  ASSUME Sane, NEW s, NEW p \in Seq(Chars), NEW max, CallInv(s, p, max, iNodeOffset)
  PROVE  s.todo = <<>>
<1>1. SUFFICES ASSUME s.todo # <<>> PROVE FALSE
  OBVIOUS
<1>2. PICK V : LookedAt(s, p, V) /\ Counts(s, V, iNodeOffset)
  BY DEF CallInv
<1>3. s.todo \in Seq(Item) /\ TodoSound(s, p)
  BY DEF CallInv, CallState
<1>4. iNodeOffset \in Nat \ {0}
  BY TrieAssumption DEF Sane, Tree
<1>5. 1 \in 1 .. Len(s.todo)
  BY <1>1, <1>3, EmptySeq, LenProperties
<1>6. s.todo[1] \in Item
  BY <1>3, <1>5, ElementOfSeq
<1>7. PICK w \in Seq(Chars) : w = s.todo[1][2] /\ End(w) # None
  BY <1>3, <1>5, <1>6 DEF Item, TodoSound, Nodes, None
<1>8. w \notin V /\ \A v \in V : v \in Seq(Chars) /\ End(v) # None
  BY <1>2, <1>5, <1>7, BeginsOrder DEF LookedAt
<1>. DEFINE W == V \cup {w}
            N == 0 .. (iNodeOffset - 1)
            f == [v \in W |-> End(v)]
<1>9. \A v \in W : v \in Seq(Chars) /\ End(v) \in N
  BY <1>7, <1>8, EndIs
<1>10. f \in Injection(W, N)
  <2>1. \A u, v \in W : End(u) = End(v) => u = v
    BY <1>7, <1>8, <1>9, EndIs
  <2>. HIDE DEF W, N
  <2>2. f \in [W -> N] /\ \A u, v \in W : f[u] = f[v] => u = v
    BY <1>9, <2>1
  <2>. HIDE DEF f
  <2>. QED BY <2>2 DEF Injection, IsInjective
<1>11. IsFiniteSet(N) /\ Cardinality(N) = iNodeOffset
  BY <1>4, FS_Interval
<1>12. Cardinality(W) = iNodeOffset + 1
  BY <1>1, <1>2, <1>8, FS_AddElement DEF Counts
<1>. HIDE DEF W, N, f
<1>13. Cardinality(W) <= Cardinality(N)
  BY <1>10, <1>11, FS_Injection
<1>. QED BY <1>4, <1>11, <1>12, <1>13

\* preOrder ends, and leaves what the calls leave (trie.h:370-397).
LEMMA preOrderIs ==
  ASSUME Sane, NEW p \in Seq(Chars), End(p) # None, NEW max \in Nat
  PROVE  \E s : /\ CallInv(s, p, max, iNodeOffset) /\ s.todo = <<>>
                /\ s.found = preOrder(End(p), p, max)
<1>. DEFINE N == iNodeOffset
            x == [todo |-> <<<<End(p), p>>>>, found |-> <<>>]
            F == [k \in Nat |-> [s \in CallState |-> IF s.todo = <<>> THEN s ELSE OneCall(s, max)]]
            Calls[k \in 0 .. N] ==
              IF k = 0 THEN x
              ELSE IF Calls[k - 1].todo = <<>> THEN Calls[k - 1] ELSE OneCall(Calls[k - 1], max)
            G == {k \in Nat : k <= N => CallInv(Calls[k], p, max, k)}
<1>1. N \in Nat
  BY TrieAssumption DEF Sane, Tree
<1>2. CallInv(x, p, max, 0) /\ x \in CallState
  <2>. HIDE DEF x
  <2>1. CallInv(x, p, max, 0)
    BY FirstCall DEF x
  <2>. QED BY <2>1 DEF CallInv
<1>3. F \in [Nat -> [CallState -> CallState]]
  <2>1. ASSUME NEW s \in CallState, s.todo # <<>> PROVE OneCall(s, max) \in CallState
    <3>1. PICK kids \in Seq(Item), rest \in Seq(Item), n \in Nodes, w \in Seq(Chars),
               found \in Seq(Seq(Chars)) : IsCall(s, max, kids, rest, n, w, found)
      BY <2>1, OneCallIs
    <3>2. kids \o rest \in Seq(Item)
      BY ConcatProperties
    <3>. QED BY <3>1, <3>2 DEF CallState, IsCall
  <2>. QED BY <2>1
<1>4. \E f : f = [k \in 0 .. N |-> IF k = 0 THEN x
                   ELSE IF f[k - 1].todo = <<>> THEN f[k - 1] ELSE OneCall(f[k - 1], max)]
  <2>. HIDE DEF x, N
  <2>1. PICK f \in [0 .. N -> CallState] :
          \A k \in 0 .. N : f[k] = IF k = 0 THEN x ELSE F[k][f[k - 1]]
    <3>. HIDE DEF F, G, Calls
    <3>1. \E f \in [0 .. N -> CallState] : IsLoop(f, x, F, N)
      BY <1>1, <1>2, <1>3, Rounds
    <3>. QED BY <3>1 DEF IsLoop
  <2>2. ASSUME NEW k \in 1 .. N
        PROVE  f[k] = IF f[k - 1].todo = <<>> THEN f[k - 1] ELSE OneCall(f[k - 1], max)
    <3>1. k - 1 \in 0 .. N /\ k \in Nat /\ k # 0 /\ k \in 0 .. N
      BY <1>1
    <3>2. f[k - 1] \in CallState
      BY <2>1, <3>1
    <3>3. F[k][f[k - 1]] = IF f[k - 1].todo = <<>> THEN f[k - 1] ELSE OneCall(f[k - 1], max)
      BY <3>1, <3>2
    <3>4. f[k] = F[k][f[k - 1]]
      <4>. HIDE DEF F
      <4>. QED BY <2>1, <3>1
    <3>. QED BY <3>3, <3>4
  <2>3. f[0] = x
    <3>. HIDE DEF F
    <3>. QED BY <1>1, <2>1
  <2>4. f = [k \in 0 .. N |-> IF k = 0 THEN x
               ELSE IF f[k - 1].todo = <<>> THEN f[k - 1] ELSE OneCall(f[k - 1], max)]
    <3>. HIDE DEF F
    <3>. QED BY <1>1, <2>1, <2>2, <2>3
  <2>. QED BY <2>4
<1>5. Calls = [k \in 0 .. N |-> IF k = 0 THEN x
                ELSE IF Calls[k - 1].todo = <<>> THEN Calls[k - 1] ELSE OneCall(Calls[k - 1], max)]
  <2>. HIDE DEF x, N, F
  <2>. QED BY <1>4 DEF Calls
<1>6. preOrder(End(p), p, max) = Calls[N].found
  BY DEF preOrder
<1>. HIDE DEF x, F, Calls, N
<1>7. /\ Calls[0] = x
      /\ \A k \in 1 .. N : Calls[k] = IF Calls[k - 1].todo = <<>> THEN Calls[k - 1]
                                      ELSE OneCall(Calls[k - 1], max)
  BY <1>1, <1>5
<1>8. 0 \in G
  BY <1>2, <1>7
<1>9. ASSUME NEW k \in Nat, k \in G PROVE k + 1 \in G
  <2>. SUFFICES ASSUME k + 1 <= N PROVE CallInv(Calls[k + 1], p, max, k + 1)
    OBVIOUS
  <2>1. k + 1 \in 1 .. N /\ (k + 1) - 1 = k /\ CallInv(Calls[k], p, max, k)
    BY <1>1, <1>9
  <2>2. Calls[k + 1] = IF Calls[k].todo = <<>> THEN Calls[k] ELSE OneCall(Calls[k], max)
    <3>. HIDE DEF G
    <3>. QED BY <1>7, <2>1
  <2>. HIDE DEF G
  <2>3. CASE Calls[k].todo = <<>>
    BY <2>1, <2>2, <2>3, NoCallLeft
  <2>4. CASE Calls[k].todo # <<>>
    <3>1. CallInv(OneCall(Calls[k], max), p, max, k + 1)
      BY <2>1, <2>4, CallKeeps
    <3>. QED BY <2>2, <2>4, <3>1
  <2>. QED BY <2>3, <2>4
<1>10. CallInv(Calls[N], p, max, N)
  <2>. HIDE DEF G
  <2>1. Nat \subseteq G
    BY <1>8, <1>9, Induction
  <2>. QED BY <1>1, <2>1 DEF G
<1>11. Calls[N].todo = <<>>
  BY <1>10, AllLookedAt DEF N
<1>. QED BY <1>6, <1>10, <1>11 DEF N

\* What the search would report, were it told no limit: in the memory, and by what add
\* and del were told.
LEMMA ToReport ==
  ASSUME IInv, Named, Settled, ~torn
  PROVE  /\ Sane
         /\ \A w \in Words : End(w) # None /\ node[End(w)].status >= 0 <=> told[w] >= 0
         /\ \A w \in Seq(Chars) : End(w) # None /\ node[End(w)].status >= 0 => w \in Words
<1>1. /\ TypeOK /\ Seen = node /\ Tree(node, index, iNodeOffset) /\ Agree(node, index, told)
      /\ ~starved
  BY Still DEF IInv, Sound, Settled
<1>2. Sane /\ Memory(node, index)
  BY <1>1, MemoryIs DEF Sane
<1>3. ASSUME NEW w \in Words
      PROVE  End(w) # None /\ node[End(w)].status >= 0 <=> told[w] >= 0
  <2>1. told[w] = IF End(w) = None THEN None ELSE node[End(w)].status
    BY <1>1 DEF Agree, StatusAt, End
  <2>. QED BY <2>1 DEF None
<1>4. ASSUME NEW w \in Seq(Chars), End(w) # None, node[End(w)].status >= 0 PROVE w \in Words
  <2>1. node[0].status = None
    BY <1>1 DEF Named
  <2>2. End(w) \in 1 .. (iNodeOffset - 1)
    <3>1. End(w) \in 0 .. (iNodeOffset - 1)
      BY <1>2, <1>4, EndIs
    <3>2. End(w) # 0
      BY <1>4, <2>1 DEF None
    <3>. QED BY <3>1, <3>2
  <2>3. PICK key \in Words : \E i \in 1 .. Len(key) : WalkOf(node, index, key)[i] = End(w)
    BY <1>1, <2>2 DEF Named
  <2>4. PICK i \in 1 .. Len(key) : WalkOf(node, index, key)[i] = End(w)
    BY <2>3
  <2>5. key \in Seq(Chars) /\ i \in 0 .. Len(key) /\ Len(w) \in 0 .. Len(w)
    BY KeyIs, LenProperties
  <2>6. Len(w) = i
    BY <1>2, <1>4, <2>4, <2>5, OneKeyThere DEF Sane, End
  <2>7. PICK m \in 1 .. MaxLen : key \in [1 .. m -> Chars]
    BY DEF Words
  <2>8. Len(key) = m
    BY <2>5, <2>7, LenProperties, TrieAssumption
  <2>9. Len(w) \in 1 .. MaxLen
    BY <2>6, <2>7, <2>8, TrieAssumption
  <2>10. w \in [1 .. Len(w) -> Chars]
    BY SeqDef, LenProperties
  <2>. QED BY <2>9, <2>10 DEF Words
<1>. QED BY <1>2, <1>3, <1>4

\* There are no more words reported than nodes: each word ends at a node of its own.
LEMMA AsManyAsNodes ==
  ASSUME Sane, NEW B, B \subseteq Seq(Chars), \A w \in B : End(w) # None
  PROVE  IsFiniteSet(B) /\ Cardinality(B) \in Nat
<1>. DEFINE N == 0 .. (iNodeOffset - 1)
            f == [w \in B |-> End(w)]
<1>1. \A w \in B : w \in Seq(Chars) /\ End(w) \in N
  BY EndIs
<1>2. \A u, w \in B : End(u) = End(w) => u = w
  BY <1>1, EndIs
<1>3. IsFiniteSet(N)
  BY FS_Interval, TrieAssumption DEF Sane, Tree
<1>. HIDE DEF N
<1>4. f \in [B -> N] /\ \A u, w \in B : f[u] = f[w] => u = w
  BY <1>1, <1>2
<1>. HIDE DEF f
<1>5. f \in Injection(B, N)
  BY <1>4 DEF Injection, IsInjective
<1>6. IsFiniteSet(B)
  BY <1>3, <1>5, FS_Injection
<1>. QED BY <1>6, FS_CardinalityType

\* The search by prefix reports the keys below the prefix that were added and not
\* deleted, each once, and no other; all of them, or as many as the limit or more
\* (trie.h:349-397).
THEOREM SearchIsExact == Spec => []SearchExact
<1>1. IInv /\ Named => SearchExact
  <2>1. SUFFICES ASSUME IInv, Named, Settled, ~torn,
                        NEW prefix \in {<<>>} \cup {key \in Words : Len(key) < MaxLen},
                        NEW max \in {1, MaxNode}
                 PROVE  LET below == {key \in Words : told[key] >= 0 /\ IsPrefix(prefix, key)}
                            found == Search(prefix, max)
                        IN /\ Range(found) \subseteq below /\ IsInjective(found)
                           /\ Len(found) >= (IF max < Cardinality(below) THEN max
                                             ELSE Cardinality(below))
    BY DEF SearchExact
  <2>. DEFINE below == {key \in Words : told[key] >= 0 /\ IsPrefix(prefix, key)}
              Hit(w) == w \in Seq(Chars) /\ End(w) # None /\ node[End(w)].status >= 0
                        /\ Begins(prefix, w)
  <2>2. Sane /\ TypeOK
    BY <2>1, ToReport DEF IInv
  <2>3. prefix \in Seq(Chars) /\ max \in Nat
    <3>1. <<>> \in Seq(Chars) /\ \A key \in Words : key \in Seq(Chars)
      BY KeyIs
    <3>2. prefix \in Seq(Chars)
      BY <3>1
    <3>. QED BY <3>2, TrieAssumption
  <2>4. \A w : w \in below <=> Hit(w)
    <3>1. ASSUME NEW w \in Words PROVE w \in below <=> Hit(w)
      BY <2>1, <2>3, KeyIs, PrefixIs, ToReport
    <3>2. ASSUME NEW w, Hit(w) PROVE w \in Words
      BY <2>1, <3>2, ToReport
    <3>. QED BY <3>1, <3>2
  <2>5. Find(prefix) = End(prefix)
    BY <2>2, <2>3, FindIs DEF End
  <2>. HIDE DEF below
  <2>6. IsFiniteSet(below) /\ Cardinality(below) \in Nat
    <3>1. below \subseteq Seq(Chars) /\ \A w \in below : End(w) # None
      BY <2>4
    <3>. QED BY <2>2, <3>1, AsManyAsNodes
  <2>7. PICK found : found = Search(prefix, max)
    OBVIOUS
  <2>8. SUFFICES /\ Range(found) \subseteq below /\ IsInjective(found)
                 /\ Len(found) >= (IF max < Cardinality(below) THEN max ELSE Cardinality(below))
    BY <2>7 DEF below
  \* a prefix with no node has no key below it
  <2>9. CASE End(prefix) = None
    <3>1. found = <<>> /\ Len(found) = 0 /\ DOMAIN found = {}
      BY <2>5, <2>7, <2>9 DEF Search
    <3>2. below = {}
      BY <2>2, <2>3, <2>4, <2>9, EndIs
    <3>3. Cardinality(below) = 0
      BY <3>2, FS_EmptySet
    <3>. QED BY <2>3, <3>1, <3>3 DEF Range, IsInjective
  <2>10. CASE End(prefix) # None
    <3>1. PICK s : CallInv(s, prefix, max, iNodeOffset) /\ s.todo = <<>> /\ s.found = found
      BY <2>2, <2>3, <2>5, <2>7, <2>10, preOrderIs DEF Search
    <3>2. PICK V : LookedAt(s, prefix, V) /\ Reports(s, V) /\ Covers(s, prefix, V, max)
      BY <3>1 DEF CallInv
    <3>3. found \in Seq(Seq(Chars))
      BY <3>1 DEF CallInv, CallState
    <3>4. PICK G \in Nat : G = Len(found) /\ DOMAIN found = 1 .. G
      BY <3>3, LenProperties
    <3>5. \A i \in 1 .. G : found[i] \in below
      BY <2>4, <3>1, <3>2, <3>4 DEF LookedAt, Reports
    <3>6. \A i, j \in 1 .. G : found[i] = found[j] => i = j
      BY <3>1, <3>2, <3>4 DEF Reports
    <3>7. Range(found) \subseteq below /\ IsInjective(found)
      BY <3>4, <3>5, <3>6 DEF Range, IsInjective
    <3>8. CASE G >= max
      BY <2>3, <2>6, <3>4, <3>7, <3>8
    <3>9. CASE ~(G >= max)
      <4>1. ASSUME NEW w \in below PROVE \E i \in 1 .. G : found[i] = w
        <5>1. w \in V
          BY <2>4, <3>1, <3>2, <3>4, <3>9 DEF Covers
        <5>. QED BY <2>4, <3>1, <3>2, <3>4, <5>1 DEF Reports
      <4>2. found \in Surjection(1 .. G, below)
        BY <3>3, <3>4, <3>5, <4>1 DEF Surjection
      <4>3. Cardinality(below) <= Cardinality(1 .. G) /\ Cardinality(1 .. G) = G
        BY <4>2, FS_Interval, FS_Surjection
      <4>. QED BY <2>3, <2>6, <3>4, <3>7, <4>3
    <3>. QED BY <3>8, <3>9
  <2>. QED BY <2>9, <2>10
<1>. QED BY <1>1, Invariant, PTL

-------------------------------------------------------------------------------
(***************************************************************************)
(* The hash tree.                                                          *)
(***************************************************************************)
\* A node is on one level only, and the ways of all keys that come to it are the same so far:
\* the same nodes, and the same indices out of bounds (hashtree.h:85-92).
LEMMA PathIs ==
  ASSUME HashTree_!TreeAssumption, NEW k, NEW l
  PROVE  /\ HashTree_!max_level \in Nat
         /\ HashTree_!Levels = 1 .. (HashTree_!max_level + 1)
         /\ HashTree_!Path(k, 1) = <<>>
         /\ \A n, m \in HashTree_!Levels : HashTree_!Path(k, n) = HashTree_!Path(l, m) =>
              /\ n = m
              /\ \A j \in 1 .. n : HashTree_!Path(k, j) = HashTree_!Path(l, j)
              /\ \A j \in 1 .. (n - 1) : HashTree_!Outside(k, j) <=> HashTree_!Outside(l, j)
<1>1. HashTree_!max_level \in Nat
  <2>1. SIZE \in Int
    BY DEF HashTree_!TreeAssumption
  <2>2. IsFiniteSet(2 .. SIZE)
    BY <2>1, FS_Interval
  <2>3. HashTree_!primes \subseteq 2 .. SIZE
    BY DEF HashTree_!primes
  <2>4. IsFiniteSet(HashTree_!primes)
    BY <2>2, <2>3, FS_Subset
  <2>5. PICK n \in Nat : n = Cardinality(HashTree_!primes)
    BY <2>4, FS_CardinalityType
  <2>6. DOMAIN prime = 1 .. n
    BY <2>5 DEF HashTree_!TreeAssumption, HashTree_!RisingPrimes, HashTree_!Cardinality, Cardinality
  <2>7. prime = [i \in 1 .. n |-> prime[i]]
    <3>. DEFINE Nth(m) == CHOOSE i \in HashTree_!primes :
                            HashTree_!Cardinality(HashTree_!primes \cap 2 .. i) = m
    <3>1. prime = [m \in 1 .. n |-> Nth(m)]
      BY <2>5 DEF HashTree_!TreeAssumption, HashTree_!RisingPrimes, HashTree_!Cardinality, Cardinality
    <3>. HIDE DEF Nth
    <3>. QED BY <3>1
  <2>8. prime \in Seq({prime[i] : i \in 1 .. n})
    BY <2>7, SeqDef
  <2>9. HashTree_!max_level = n
    BY <2>5, <2>6, <2>8, LenProperties DEF HashTree_!max_level
  <2>. QED BY <2>9
<1>2. HashTree_!Levels = 1 .. (HashTree_!max_level + 1)
  BY DEF HashTree_!Levels
<1>3. HashTree_!Path(k, 1) = <<>>
  <2>1. PICK s : s = HashTree_!Path(k, 1)
    OBVIOUS
  <2>2. s \in [1 .. 0 -> {0}]
    BY <2>1 DEF HashTree_!Path
  <2>3. s \in Seq({0}) /\ Len(s) = 0
    BY <2>2, SeqDef, LenProperties
  <2>. QED BY <2>1, <2>3, EmptySeq
<1>. DEFINE R(x) == [n \in Nat |-> HashTree_!Rem(x, prime[n])]
<1>4. \A x : \A n \in HashTree_!Levels : HashTree_!Path(x, n) = [i \in 1 .. (n - 1) |-> R(x)[i]]
  BY <1>1, <1>2 DEF HashTree_!Path
<1>6. \A x : \A j \in Nat :
        HashTree_!Outside(x, j) <=> j <= HashTree_!max_level /\ R(x)[j] < 0
  BY DEF HashTree_!Outside
<1>. HIDE DEF R
<1>5. ASSUME NEW n \in HashTree_!Levels, NEW m \in HashTree_!Levels,
             HashTree_!Path(k, n) = HashTree_!Path(l, m)
      PROVE  /\ n = m
             /\ \A j \in 1 .. n : HashTree_!Path(k, j) = HashTree_!Path(l, j)
             /\ \A j \in 1 .. (n - 1) : HashTree_!Outside(k, j) <=> HashTree_!Outside(l, j)
  <2>1. n \in Nat \ {0} /\ m \in Nat \ {0}
    BY <1>1, <1>2
  <2>2. 1 .. (n - 1) = 1 .. (m - 1)
    BY <1>4, <1>5
  <2>3. n = m
    BY <2>1, <2>2
  <2>4. \A i \in 1 .. (n - 1) : R(k)[i] = R(l)[i]
    BY <1>4, <1>5, <2>3
  <2>5. ASSUME NEW j \in 1 .. n PROVE HashTree_!Path(k, j) = HashTree_!Path(l, j)
    <3>1. j \in HashTree_!Levels /\ \A i \in 1 .. (j - 1) : i \in 1 .. (n - 1)
      BY <1>1, <1>2, <2>1
    <3>. QED BY <1>4, <2>4, <3>1
  <2>6. \A j \in 1 .. (n - 1) : HashTree_!Outside(k, j) <=> HashTree_!Outside(l, j)
    BY <1>6, <2>1, <2>4
  <2>. QED BY <2>3, <2>5, <2>6
<1>. QED BY <1>1, <1>2, <1>3, <1>5

\* The same of two levels.
LEMMA SameWay ==
  ASSUME HashTree_!TreeAssumption, NEW k, NEW l,
         NEW n \in HashTree_!Levels, NEW m \in HashTree_!Levels,
         HashTree_!Path(k, n) = HashTree_!Path(l, m)
  PROVE  /\ n = m
         /\ \A j \in 1 .. n : HashTree_!Path(k, j) = HashTree_!Path(l, j)
         /\ \A j \in 1 .. (n - 1) : HashTree_!Outside(k, j) <=> HashTree_!Outside(l, j)
BY PathIs

\* Of the nodes: each with all above it, on every key's way, and no index out of bounds
\* before it; and the keys in them, but once a key was inserted twice, those a map would
\* hold, each in one node.
TreeTypes ==
  tree \in [DOMAIN tree -> [occupied : BOOLEAN, key : Int, value : Values \cup {HashTree_!Nothing}]]

Rooted ==
  \A k \in TreeKeys :
    /\ HashTree_!Path(k, 1) \in DOMAIN tree
    /\ \A n \in HashTree_!Levels : HashTree_!Path(k, n) \in DOMAIN tree =>
         /\ \A m \in 1 .. n : HashTree_!Path(k, m) \in DOMAIN tree
         /\ \A m \in 1 .. (n - 1) : ~HashTree_!Outside(k, m)

Has(k, n) == HashTree_!Holds(HashTree_!Path(k, n), k)

AsInMap ==
  \A k \in TreeKeys :
    /\ k \in DOMAIN store <=> \E n \in HashTree_!Levels : Has(k, n)
    /\ \A n \in HashTree_!Levels : Has(k, n) =>
         /\ tree[HashTree_!Path(k, n)].value = store[k]
         /\ \A m \in HashTree_!Levels : Has(k, m) => m = n

TreeInv == TreeTypes /\ Rooted /\ (~twice => AsInMap)

\* A set of levels has a least one.
LEMMA LeastIs ==
  ASSUME NEW S, S \subseteq Nat, S # {}
  PROVE  HashTree_!Least(S) \in S /\ \A n \in S : HashTree_!Least(S) <= n
<1>1. Min(S) \in S /\ \A n \in S : Min(S) <= n
  BY LeastIn
<1>. QED BY <1>1 DEF HashTree_!Least

\* Where find and remove come to: to the node that has the key, if one has.
LEMMA EndOfKey ==
  ASSUME HashTree_!TreeAssumption, TreeInv, ~twice, NEW k \in TreeKeys
  PROVE  /\ HashTree_!End(k) \in HashTree_!Levels
         /\ k \in DOMAIN store => Has(k, HashTree_!End(k))
         /\ HashTree_!Dies(k) => \A n \in HashTree_!Levels : HashTree_!Path(k, n) \in DOMAIN tree
<1>. DEFINE M == HashTree_!max_level
            S == {n \in HashTree_!Levels : HashTree_!Ends(k, n)}
<1>1. M \in Nat /\ HashTree_!Levels = 1 .. (M + 1)
  BY PathIs
<1>2. HashTree_!End(k) = HashTree_!Least(S)
  BY DEF HashTree_!End
<1>3. /\ k \in DOMAIN store <=> \E n \in HashTree_!Levels : Has(k, n)
      /\ \A n, m \in HashTree_!Levels : Has(k, n) /\ Has(k, m) => m = n
  BY DEF TreeInv, AsInMap
<1>4. \A n \in HashTree_!Levels : HashTree_!Ends(k, n) <=>
        /\ \/ Has(k, n) \/ n = M + 1 \/ HashTree_!Outside(k, n)
           \/ HashTree_!Path(k, n + 1) \notin DOMAIN tree
        /\ \A m \in 1 .. (n - 1) : ~Has(k, m)
  BY DEF HashTree_!Ends, Has
<1>5. ASSUME NEW n \in HashTree_!Levels, Has(k, n)
      PROVE  n \in S /\ \A m \in S : m >= n
  <2>1. \A m \in 1 .. (n - 1) : m \in HashTree_!Levels /\ ~Has(k, m)
    BY <1>1, <1>3, <1>5
  <2>2. n \in S
    BY <1>4, <1>5, <2>1
  <2>3. ASSUME NEW m \in S, ~(m >= n) PROVE FALSE
    <3>1. m \in 1 .. (n - 1) /\ m + 1 \in 1 .. n /\ m # M + 1
      BY <1>1, <2>3
    <3>2. HashTree_!Path(k, n) \in DOMAIN tree
      BY <1>5 DEF Has, HashTree_!Holds, HashTree_!Occupied
    <3>3. HashTree_!Path(k, m + 1) \in DOMAIN tree /\ ~HashTree_!Outside(k, m)
      BY <3>1, <3>2 DEF TreeInv, Rooted
    <3>. QED BY <1>4, <2>1, <3>1, <3>3
  <2>. QED BY <2>2, <2>3
<1>6. S # {} /\ S \subseteq Nat
  <2>1. S \subseteq Nat
    BY <1>1
  <2>2. CASE \E n \in HashTree_!Levels : Has(k, n)
    BY <1>5, <2>1, <2>2
  <2>3. CASE \A n \in HashTree_!Levels : ~Has(k, n)
    <3>1. M + 1 \in HashTree_!Levels /\ \A m \in 1 .. M : m \in HashTree_!Levels
      BY <1>1
    <3>2. \A m \in 1 .. ((M + 1) - 1) : ~Has(k, m)
      BY <1>1, <2>3, <3>1
    <3>. QED BY <1>4, <2>1, <3>1, <3>2
  <2>. QED BY <2>2, <2>3
<1>. HIDE DEF S
<1>7. HashTree_!End(k) \in S /\ \A n \in S : HashTree_!End(k) <= n
  BY <1>2, <1>6, LeastIs
<1>8. S \subseteq HashTree_!Levels
  BY DEF S
<1>9. ASSUME NEW n \in HashTree_!Levels, Has(k, n) PROVE HashTree_!End(k) = n
  <2>1. n \in S /\ HashTree_!End(k) >= n /\ HashTree_!End(k) <= n /\ HashTree_!End(k) \in Nat
    BY <1>1, <1>5, <1>6, <1>7, <1>9
  <2>. QED BY <1>1, <2>1
<1>10. ASSUME HashTree_!Dies(k), NEW n \in HashTree_!Levels
       PROVE  HashTree_!Path(k, n) \in DOMAIN tree
  <2>1. HashTree_!End(k) = M + 1 /\ ~Has(k, M + 1)
    BY <1>10 DEF HashTree_!Dies, Has
  <2>2. \A m \in HashTree_!Levels : ~Has(k, m)
    BY <1>9, <2>1
  <2>3. CASE n = 1
    BY <2>3 DEF TreeInv, Rooted
  <2>4. CASE n # 1
    <3>1. PICK m \in 1 .. M : m = n - 1 /\ m + 1 = n /\ m \in HashTree_!Levels
      BY <1>1, <2>4
    <3>2. m \notin S
      BY <1>1, <1>7, <2>1
    <3>3. ~HashTree_!Ends(k, m)
      BY <3>1, <3>2 DEF S
    <3>4. \A l \in 1 .. (m - 1) : ~Has(k, l)
      BY <1>1, <2>2
    <3>. QED BY <1>4, <3>1, <3>3, <3>4
  <2>. QED BY <2>3, <2>4
<1>. QED BY <1>3, <1>7, <1>8, <1>9, <1>10
LEMMA TreeInit == ASSUME HashTree_!TreeAssumption, HashTree_!Init PROVE TreeInv
<1>1. tree = [path \in {<<>>} |-> HashTree_!Free] /\ DOMAIN store = {} /\ DOMAIN tree = {<<>>}
  BY DEF HashTree_!Init
<1>2. ~tree[<<>>].occupied /\ TreeTypes
  BY <1>1 DEF TreeTypes, HashTree_!Free
<1>3. Rooted
  <2>1. ASSUME NEW k \in TreeKeys, NEW n \in HashTree_!Levels,
               HashTree_!Path(k, n) \in DOMAIN tree
        PROVE  /\ \A m \in 1 .. n : HashTree_!Path(k, m) \in DOMAIN tree
               /\ \A m \in 1 .. (n - 1) : ~HashTree_!Outside(k, m)
    <3>1. 1 \in HashTree_!Levels /\ HashTree_!Path(k, n) = HashTree_!Path(k, 1)
      BY <1>1, <2>1, PathIs
    <3>2. n = 1
      BY <2>1, <3>1, SameWay
    <3>. QED BY <1>1, <3>2, PathIs
  <2>. QED BY <1>1, <2>1, PathIs DEF Rooted
<1>4. \A k \in TreeKeys, n \in HashTree_!Levels : ~Has(k, n)
  BY <1>1, <1>2 DEF Has, HashTree_!Holds, HashTree_!Occupied
<1>. QED BY <1>1, <1>2, <1>3, <1>4 DEF TreeInv, AsInMap

\* A key is put into the first free node of its way, where no other was.
LEMMA InsertKeeps ==
  ASSUME HashTree_!TreeAssumption, TreeInv, NEW k \in TreeKeys, NEW v \in Values,
         HashTree_!insert(k, v)
  PROVE  TreeInv'
<1>. DEFINE free == {n \in HashTree_!Levels : ~HashTree_!Occupied(HashTree_!Path(k, n))}
<1>1. /\ HashTree_!max_level \in Nat /\ HashTree_!Levels = 1 .. (HashTree_!max_level + 1)
      /\ TreeTypes /\ Rooted
  BY PathIs DEF TreeInv
<1>2. twice' = (twice \/ k \in DOMAIN store)
  BY DEF HashTree_!insert
<1>. DEFINE last == IF free = {} THEN HashTree_!max_level + 1 ELSE HashTree_!Least(free)
            lost == \E n \in 1 .. (last - 1) : HashTree_!Outside(k, n)
<1>5. IF free = {} \/ lost THEN UNCHANGED <<tree, store>>
      ELSE /\ tree' = HashTree_!Put(tree, HashTree_!Path(k, last),
                                    [occupied |-> TRUE, key |-> k, value |-> v])
           /\ store' = HashTree_!Put(store, k, v)
  BY DEF HashTree_!insert
<1>3. CASE free = {} \/ lost
  <2>1. UNCHANGED <<tree, store>>
    BY <1>3, <1>5
  <2>. QED BY <1>2, <2>1 DEF TreeInv, TreeTypes, Rooted, AsInMap, Has, HashTree_!Holds,
                              HashTree_!Occupied
<1>4. CASE ~(free = {} \/ lost)
  <2>. DEFINE l  == HashTree_!Least(free)
              at == HashTree_!Path(k, l)
              nd == [occupied |-> TRUE, key |-> k, value |-> v]
  <2>1. tree' = HashTree_!Put(tree, at, nd) /\ store' = HashTree_!Put(store, k, v)
    BY <1>4, <1>5
  <2>2. /\ l \in HashTree_!Levels /\ ~HashTree_!Occupied(at)
        /\ \A n \in HashTree_!Levels : n < l => HashTree_!Occupied(HashTree_!Path(k, n))
    <3>1. free \subseteq Nat
      BY <1>1
    <3>2. l \in free /\ \A n \in free : l <= n
      BY <1>4, <3>1, LeastIs
    <3>3. ASSUME NEW n \in HashTree_!Levels, n < l, n \in free PROVE FALSE
      BY <1>1, <3>1, <3>2, <3>3
    <3>. QED BY <3>2, <3>3
  <2>7. \A m \in 1 .. (l - 1) : ~HashTree_!Outside(k, m)
    BY <1>4
  <2>. HIDE DEF l, free
  <2>3. /\ DOMAIN tree' = DOMAIN tree \cup {at} /\ tree'[at] = nd
        /\ \A path \in DOMAIN tree : path # at => tree'[path] = tree[path]
        /\ DOMAIN store' = DOMAIN store \cup {k} /\ store'[k] = v
        /\ \A x \in DOMAIN store : x # k => store'[x] = store[x]
    <3>. HIDE DEF at, nd
    <3>. QED BY <2>1 DEF HashTree_!Put
  <2>4. TreeTypes'
    <3>1. nd \in [occupied : BOOLEAN, key : Int, value : Values \cup {HashTree_!Nothing}]
      BY DEF HashTree_!TreeAssumption
    <3>2. tree' = [path \in DOMAIN tree' |-> tree'[path]]
      BY <2>1 DEF HashTree_!Put
    <3>3. \A path \in DOMAIN tree' :
            tree'[path] \in [occupied : BOOLEAN, key : Int, value : Values \cup {HashTree_!Nothing}]
      <4>. HIDE DEF at, nd
      <4>. QED BY <1>1, <2>3, <3>1 DEF TreeTypes
    <3>. QED BY <3>2, <3>3 DEF TreeTypes
  <2>5. Rooted'
    <3>1. ASSUME NEW x \in TreeKeys, NEW n \in HashTree_!Levels,
                 HashTree_!Path(x, n) \in DOMAIN tree', NEW m \in 1 .. n
          PROVE  HashTree_!Path(x, m) \in DOMAIN tree'
      <4>1. CASE HashTree_!Path(x, n) \in DOMAIN tree
        <5>1. HashTree_!Path(x, m) \in DOMAIN tree
          BY <1>1, <4>1 DEF Rooted
        <5>. QED BY <2>3, <5>1
      <4>2. CASE HashTree_!Path(x, n) = at
        <5>1. n = l /\ HashTree_!Path(x, m) = HashTree_!Path(k, m)
          BY <2>2, <4>2, SameWay
        <5>2. CASE m = l
          BY <2>3, <5>1, <5>2
        <5>3. CASE m # l
          <6>1. m \in HashTree_!Levels /\ m < l
            BY <1>1, <5>1, <5>3
          <6>2. HashTree_!Path(k, m) \in DOMAIN tree
            BY <2>2, <6>1 DEF HashTree_!Occupied
          <6>. QED BY <2>3, <5>1, <6>2
        <5>. QED BY <5>2, <5>3
      <4>. QED BY <2>3, <3>1, <4>1, <4>2
    <3>2. \A x \in TreeKeys : HashTree_!Path(x, 1) \in DOMAIN tree'
      BY <1>1, <2>3 DEF Rooted
    <3>3. ASSUME NEW x \in TreeKeys, NEW n \in HashTree_!Levels,
                 HashTree_!Path(x, n) \in DOMAIN tree', NEW m \in 1 .. (n - 1)
          PROVE  ~HashTree_!Outside(x, m)
      <4>1. CASE HashTree_!Path(x, n) \in DOMAIN tree
        BY <1>1, <3>3, <4>1 DEF Rooted
      <4>2. CASE HashTree_!Path(x, n) = at
        <5>1. n = l /\ (HashTree_!Outside(x, m) <=> HashTree_!Outside(k, m))
          BY <2>2, <3>3, <4>2, SameWay
        <5>. QED BY <2>7, <3>3, <5>1
      <4>. QED BY <2>3, <3>3, <4>1, <4>2
    <3>. QED BY <3>1, <3>2, <3>3 DEF Rooted
  <2>6. ASSUME ~twice' PROVE AsInMap'
    <3>1. ~twice /\ k \notin DOMAIN store /\ AsInMap
      BY <1>2, <2>6 DEF TreeInv
    <3>2. \A n \in HashTree_!Levels : ~Has(k, n)
      BY <3>1 DEF AsInMap
    <3>3. ASSUME NEW x \in TreeKeys, NEW n \in HashTree_!Levels
          PROVE  Has(x, n)' <=> Has(x, n) \/ (x = k /\ n = l)
      <4>1. CASE HashTree_!Path(x, n) = at
        <5>1. Has(x, n)' <=> x = k
          BY <2>3, <4>1 DEF Has, HashTree_!Holds, HashTree_!Occupied
        <5>2. n = l /\ ~Has(x, n)
          BY <2>2, <4>1, SameWay DEF Has, HashTree_!Holds
        <5>. QED BY <5>1, <5>2
      <4>2. CASE HashTree_!Path(x, n) # at
        <5>1. Has(x, n)' <=> Has(x, n)
          <6>. HIDE DEF at
          <6>. QED BY <2>3, <4>2 DEF Has, HashTree_!Holds, HashTree_!Occupied
        <5>. QED BY <4>2, <5>1
      <4>. QED BY <4>1, <4>2
    <3>4. ASSUME NEW x \in TreeKeys PROVE x \in DOMAIN store' <=> \E n \in HashTree_!Levels : Has(x, n)'
      BY <2>2, <2>3, <3>1, <3>3 DEF AsInMap
    <3>5. ASSUME NEW x \in TreeKeys, NEW n \in HashTree_!Levels, Has(x, n)'
          PROVE  /\ tree'[HashTree_!Path(x, n)].value = store'[x]
                 /\ \A m \in HashTree_!Levels : Has(x, m)' => m = n
      <4>1. CASE x = k
        BY <2>3, <3>2, <3>3, <3>5, <4>1
      <4>2. CASE x # k
        <5>1. Has(x, n) /\ x \in DOMAIN store
          BY <3>1, <3>3, <3>5, <4>2 DEF AsInMap
        <5>2. HashTree_!Path(x, n) \in DOMAIN tree /\ HashTree_!Path(x, n) # at
          BY <2>2, <5>1 DEF Has, HashTree_!Holds, HashTree_!Occupied
        <5>3. tree'[HashTree_!Path(x, n)] = tree[HashTree_!Path(x, n)] /\ store'[x] = store[x]
          BY <2>3, <4>2, <5>1, <5>2
        <5>. QED BY <3>1, <3>3, <4>2, <5>1, <5>3 DEF AsInMap
      <4>. QED BY <4>1, <4>2
    <3>. QED BY <3>4, <3>5 DEF AsInMap
  <2>. QED BY <2>4, <2>5, <2>6 DEF TreeInv
<1>. QED BY <1>3, <1>4

LEMMA RemoveKeeps ==
  ASSUME HashTree_!TreeAssumption, TreeInv, NEW k \in TreeKeys, HashTree_!remove(k)
  PROVE  TreeInv'
<1>. DEFINE at == HashTree_!Path(k, HashTree_!End(k))
<1>1. /\ tree' = IF HashTree_!Holds(at, k) THEN [tree EXCEPT ![at].occupied = FALSE] ELSE tree
      /\ store' = Restrict(store, DOMAIN store \ {k}) /\ twice' = twice
  BY DEF HashTree_!remove, HashTree_!Restrict, Restrict
<1>2. TreeTypes /\ Rooted /\ HashTree_!Levels = 1 .. (HashTree_!max_level + 1)
  BY PathIs DEF TreeInv
<1>. HIDE DEF at
<1>3. /\ DOMAIN tree' = DOMAIN tree
      /\ \A path \in DOMAIN tree : /\ tree'[path].key = tree[path].key
                                   /\ tree'[path].value = tree[path].value
                                   /\ tree'[path].occupied = (tree[path].occupied
                                        /\ ~(path = at /\ HashTree_!Holds(at, k)))
  BY <1>1, <1>2 DEF TreeTypes, HashTree_!Holds, HashTree_!Occupied
<1>4. TreeTypes'
  BY <1>1, <1>2 DEF TreeTypes
<1>5. Rooted'
  BY <1>2, <1>3 DEF Rooted
<1>6. ASSUME ~twice' PROVE AsInMap'
  <2>1. ~twice /\ AsInMap
    BY <1>1, <1>6 DEF TreeInv
  <2>2. /\ DOMAIN store' = DOMAIN store \ {k}
        /\ \A x \in DOMAIN store : x # k => store'[x] = store[x]
    BY <1>1 DEF Restrict
  <2>3. k \in DOMAIN store => Has(k, HashTree_!End(k)) /\ HashTree_!End(k) \in HashTree_!Levels
    BY <2>1, EndOfKey
  <2>4. ASSUME NEW x \in TreeKeys, NEW n \in HashTree_!Levels
        PROVE  Has(x, n)' <=> Has(x, n) /\ x # k
    <3>1. Has(x, n)' <=> Has(x, n) /\ ~(HashTree_!Path(x, n) = at /\ HashTree_!Holds(at, k))
      BY <1>3 DEF Has, HashTree_!Holds, HashTree_!Occupied
    <3>2. CASE x = k
      <4>1. Has(x, n) => n = HashTree_!End(k) /\ Has(k, HashTree_!End(k))
        BY <2>1, <2>3, <3>2 DEF AsInMap
      <4>. QED BY <3>1, <3>2, <4>1 DEF at, Has
    <3>3. CASE x # k
      <4>1. Has(x, n) => ~(HashTree_!Path(x, n) = at /\ HashTree_!Holds(at, k))
        BY <3>3 DEF Has, HashTree_!Holds
      <4>. QED BY <3>1, <3>3, <4>1
    <3>. QED BY <3>2, <3>3
  <2>5. ASSUME NEW x \in TreeKeys PROVE x \in DOMAIN store' <=> \E n \in HashTree_!Levels : Has(x, n)'
    BY <2>1, <2>2, <2>4 DEF AsInMap
  <2>6. ASSUME NEW x \in TreeKeys, NEW n \in HashTree_!Levels, Has(x, n)'
        PROVE  /\ tree'[HashTree_!Path(x, n)].value = store'[x]
               /\ \A m \in HashTree_!Levels : Has(x, m)' => m = n
    <3>1. Has(x, n) /\ x # k /\ x \in DOMAIN store
      BY <2>1, <2>4, <2>6 DEF AsInMap
    <3>2. HashTree_!Path(x, n) \in DOMAIN tree
      BY <3>1 DEF Has, HashTree_!Holds, HashTree_!Occupied
    <3>. QED BY <1>3, <2>1, <2>2, <2>4, <3>1, <3>2 DEF AsInMap
  <2>. QED BY <2>5, <2>6 DEF AsInMap
<1>. QED BY <1>4, <1>5, <1>6 DEF TreeInv

LEMMA TreeNext ==
  ASSUME HashTree_!TreeAssumption PROVE TreeInv /\ [HashTree_!Next]_(HashTree_!vars) => TreeInv'
<1>1. ASSUME TreeInv, UNCHANGED <<tree, store, twice>> PROVE TreeInv'
  BY <1>1 DEF TreeInv, TreeTypes, Rooted, AsInMap, Has, HashTree_!Holds, HashTree_!Occupied
<1>2. ASSUME NEW k \in TreeKeys, HashTree_!FindDies(k) PROVE UNCHANGED <<tree, store, twice>>
  BY <1>2 DEF HashTree_!FindDies
<1>3. UNCHANGED HashTree_!vars => UNCHANGED <<tree, store, twice>>
  BY DEF HashTree_!vars
<1>. QED BY <1>1, <1>2, <1>3, InsertKeeps, RemoveKeeps DEF HashTree_!Next

\* As long as no key is inserted that is there, and as long as what ran was defined, find
\* of a key that is there returns, and a find that returns gives what a map would; it
\* divides by zero only for a key that is nowhere while all nodes of its way were made
\* (hashtree.h:70-132).
THEOREM TreeIsMap == HashTree_!Spec => []TreeFinds
<1>. SUFFICES ASSUME HashTree_!TreeAssumption PROVE HashTree_!Spec => []TreeFinds
  BY ContainersAssumption
<1>1. HashTree_!Init => TreeInv
  BY TreeInit
<1>2. TreeInv /\ [HashTree_!Next]_(HashTree_!vars) => TreeInv'
  BY TreeNext
<1>3. TreeInv => TreeFinds
  <2>1. SUFFICES ASSUME TreeInv, ~twice, NEW k \in TreeKeys
                 PROVE  IF HashTree_!Dies(k) \/ HashTree_!Strays(k)
                        THEN /\ k \notin DOMAIN store
                             /\ HashTree_!Dies(k) =>
                                  \A n \in HashTree_!Levels : HashTree_!Path(k, n) \in DOMAIN tree
                        ELSE HashTree_!find(k) = IF k \in DOMAIN store THEN store[k]
                                                 ELSE HashTree_!Nothing
    BY DEF TreeFinds, HashTree_!TreeFinds
  <2>2. /\ HashTree_!End(k) \in HashTree_!Levels
        /\ k \in DOMAIN store => Has(k, HashTree_!End(k))
        /\ HashTree_!Dies(k) => \A n \in HashTree_!Levels : HashTree_!Path(k, n) \in DOMAIN tree
    BY <2>1, EndOfKey
  <2>3. /\ k \in DOMAIN store <=> Has(k, HashTree_!End(k))
        /\ Has(k, HashTree_!End(k)) => tree[HashTree_!Path(k, HashTree_!End(k))].value = store[k]
    BY <2>1, <2>2 DEF TreeInv, AsInMap
  <2>. QED BY <2>2, <2>3 DEF HashTree_!Dies, HashTree_!Strays, HashTree_!find, Has
<1>. QED BY <1>1, <1>2, <1>3, PTL DEF HashTree_!Spec

-------------------------------------------------------------------------------
(***************************************************************************)
(* The epoll wrapper.                                                      *)
(***************************************************************************)
\* The array begins with what the last wait reported, each once, and a scan takes every
\* Stride-th entry of it, as far as it has come.
Filled ==
  /\ triggered_num \in 0 .. max_fd
  /\ DOMAIN evs = 0 .. (max_fd - 1)
  /\ reported = {evs[n] : n \in 0 .. (triggered_num - 1)}
  /\ \A n, m \in 0 .. (triggered_num - 1) : evs[n] = evs[m] => n = m

Scanned ==
  /\ pos \in Nat /\ DOMAIN returned = 1 .. pos /\ returned = [n \in 1 .. pos |-> returned[n]]
  /\ \A n \in 1 .. pos :
       /\ returned[n].at = (n - 1) * Stride
       /\ returned[n].at < max_fd => returned[n].event = evs[returned[n].at]

ScanInv == Filled /\ Scanned

\* A wait fills the array anew from its start, each descriptor once.
LEMMA WaitFills ==
  ASSUME Epoller_!EpollerAssumption, Filled, Epoller_!wait
  PROVE  Filled' /\ pos' = 0 /\ returned' = <<>>
<1>1. IsFiniteSet(Fds) /\ max_fd \in Nat \ {0}
  BY DEF Epoller_!EpollerAssumption, Epoller_!IsFiniteSet, IsFiniteSet
<1>2. \A S : Epoller_!Cardinality(S) = Cardinality(S)
  BY DEF Epoller_!Cardinality, Cardinality
<1>3. PICK S \in SUBSET {fd \in Fds : interest[fd] # {}} :
        \E flag \in [S -> SUBSET Flags \ {{}}] :
          /\ Cardinality(S) <= max_fd
          /\ \E order \in [0 .. (Cardinality(S) - 1) -> S] :
               /\ \A fd \in S : \E n \in DOMAIN order : order[n] = fd
               /\ evs' = [n \in DOMAIN evs |->
                            IF n \in DOMAIN order THEN <<order[n], flag[order[n]]>> ELSE evs[n]]
          /\ reported' = {<<fd, flag[fd]>> : fd \in S}
          /\ triggered_num' = Cardinality(S)
          /\ pos' = 0 /\ returned' = <<>>
  BY <1>2 DEF Epoller_!wait
<1>4. PICK flag \in [S -> SUBSET Flags \ {{}}] :
        /\ Cardinality(S) <= max_fd
        /\ \E order \in [0 .. (Cardinality(S) - 1) -> S] :
             /\ \A fd \in S : \E n \in DOMAIN order : order[n] = fd
             /\ evs' = [n \in DOMAIN evs |->
                          IF n \in DOMAIN order THEN <<order[n], flag[order[n]]>> ELSE evs[n]]
        /\ reported' = {<<fd, flag[fd]>> : fd \in S}
        /\ triggered_num' = Cardinality(S)
        /\ pos' = 0 /\ returned' = <<>>
  BY <1>3
<1>5. IsFiniteSet(S)
  BY <1>1, FS_Subset
<1>6. PICK N \in Nat : N = Cardinality(S)
  BY <1>5, FS_CardinalityType
<1>. DEFINE D == 0 .. (N - 1)
<1>7. PICK order \in [D -> S] :
        /\ \A fd \in S : \E n \in D : order[n] = fd
        /\ evs' = [n \in DOMAIN evs |->
                     IF n \in D THEN <<order[n], flag[order[n]]>> ELSE evs[n]]
  BY <1>4, <1>6
<1>8. \A n, m \in D : order[n] = order[m] => n = m
  <2>1. IsFiniteSet(D) /\ Cardinality(D) = N
    <3>1. 0 \in Int /\ N - 1 \in Int
      BY <1>6
    <3>2. IsFiniteSet(0 .. (N - 1))
          /\ Cardinality(0 .. (N - 1)) = IF 0 > N - 1 THEN 0 ELSE (N - 1) - 0 + 1
      BY <3>1, FS_Interval
    <3>3. (IF 0 > N - 1 THEN 0 ELSE (N - 1) - 0 + 1) = N
      BY <1>6
    <3>. QED BY <3>2, <3>3
  <2>2. order \in Surjection(D, S)
    BY <1>7 DEF Surjection
  <2>. HIDE DEF D
  <2>3. order \in Injection(D, S)
    BY <1>6, <2>1, <2>2, FS_Surjection
  <2>. QED BY <2>3 DEF Injection, IsInjective
<1>9. D \subseteq DOMAIN evs /\ DOMAIN evs' = 0 .. (max_fd - 1)
  BY <1>1, <1>4, <1>6, <1>7 DEF Filled
<1>10. \A n \in D : evs'[n] = <<order[n], flag[order[n]]>>
  BY <1>7, <1>9
<1>11. reported' = {evs'[n] : n \in D}
  <2>. HIDE DEF D
  <2>1. reported' = {<<fd, flag[fd]>> : fd \in S}
    BY <1>4
  <2>2. \A x : x \in reported' <=> \E n \in D : x = <<order[n], flag[order[n]]>>
    BY <1>7, <2>1
  <2>3. PICK R : R = reported'
    OBVIOUS
  <2>4. PICK E : E = evs'
    OBVIOUS
  <2>5. \A n \in D : E[n] = <<order[n], flag[order[n]]>>
    BY <1>10, <2>4
  <2>6. ASSUME NEW x PROVE x \in R <=> \E n \in D : x = E[n]
    <3>1. ASSUME x \in R PROVE \E n \in D : x = E[n]
      <4>1. PICK n \in D : x = <<order[n], flag[order[n]]>>
        BY <2>2, <2>3, <3>1
      <4>2. x = E[n]
        BY <2>5, <4>1
      <4>. QED BY <4>2
    <3>2. ASSUME NEW n \in D, x = E[n] PROVE x \in R
      <4>1. x = <<order[n], flag[order[n]]>>
        BY <2>5, <3>2
      <4>. QED BY <2>2, <2>3, <4>1
    <3>. QED BY <3>1, <3>2
  <2>7. R = {E[n] : n \in D}
    BY <2>6
  <2>. QED BY <2>3, <2>4, <2>7
<1>12. \A n, m \in D : evs'[n] = evs'[m] => n = m
  <2>. HIDE DEF D
  <2>. QED BY <1>8, <1>10
<1>13. triggered_num' = N /\ N \in 0 .. max_fd
  BY <1>1, <1>4, <1>6
<1>14. Filled'
  BY <1>9, <1>11, <1>12, <1>13 DEF Filled
<1>. QED BY <1>4, <1>14

LEMMA ScanNext ==
  ASSUME Epoller_!EpollerAssumption
  PROVE  ScanInv /\ [Epoller_!Next]_(Epoller_!vars) => ScanInv'
<1>. SUFFICES ASSUME ScanInv, [Epoller_!Next]_(Epoller_!vars) PROVE ScanInv'
  OBVIOUS
<1>1. max_fd \in Nat \ {0} /\ Stride \in Nat \ {0}
  BY DEF Epoller_!EpollerAssumption
<1>2. ASSUME UNCHANGED <<evs, triggered_num, pos, reported, returned>> PROVE ScanInv'
  BY <1>2 DEF ScanInv, Filled, Scanned
<1>3. ASSUME pos' = 0, returned' = <<>> PROVE Scanned'
  <2>1. 0 \in Nat /\ 1 .. 0 = {} /\ <<>> = [n \in 1 .. 0 |-> <<>>[n]]
    OBVIOUS
  <2>. QED BY <1>3, <2>1 DEF Scanned
<1>4. ASSUME Epoller_!wait PROVE ScanInv'
  BY <1>3, <1>4, WaitFills DEF ScanInv
<1>5. ASSUME Epoller_!WaitFails PROVE ScanInv'
  <2>1. Filled'
    BY <1>5 DEF Epoller_!WaitFails, ScanInv, Filled
  <2>. QED BY <1>3, <1>5, <2>1 DEF Epoller_!WaitFails, ScanInv
<1>6. ASSUME Epoller_!get_ready PROVE ScanInv'
  <2>1. PICK ev \in (IF pos * Stride < max_fd THEN {evs[pos * Stride]} ELSE Fds \X SUBSET Flags) :
          returned' = Append(returned, [at |-> pos * Stride, event |-> ev])
    BY <1>6 DEF Epoller_!get_ready
  <2>2. pos' = pos + 1 /\ UNCHANGED <<evs, triggered_num, reported>>
    BY <1>6 DEF Epoller_!get_ready
  <2>3. Filled'
    BY <2>2 DEF ScanInv, Filled
  <2>4. PICK e : e = [at |-> pos * Stride, event |-> ev]
    OBVIOUS
  <2>5. PICK S : S = {returned[n] : n \in 1 .. pos} \cup {e}
    OBVIOUS
  <2>6. returned \in Seq(S) /\ Len(returned) = pos
    <3>1. returned \in [1 .. pos -> S] /\ pos \in Nat
      BY <2>5 DEF ScanInv, Scanned
    <3>2. returned \in Seq(S)
      BY <3>1, SeqDef
    <3>. QED BY <3>1, <3>2, LenProperties
  <2>7. returned' \in Seq(S) /\ Len(returned') = pos + 1 /\ returned'[pos + 1] = e
        /\ \A n \in 1 .. pos : returned'[n] = returned[n]
    BY <2>1, <2>4, <2>5, <2>6, AppendProperties
  <2>8. DOMAIN returned' = 1 .. pos' /\ returned' = [n \in 1 .. pos' |-> returned'[n]]
    BY <2>2, <2>7, LenProperties
  <2>9. pos \in Nat /\ pos' \in Nat /\ \A n \in 1 .. pos' : n \in 1 .. pos \/ n = pos + 1
    BY <2>2 DEF ScanInv, Scanned
  <2>10. ASSUME NEW n \in 1 .. pos
         PROVE  /\ returned'[n].at = (n - 1) * Stride
                /\ returned'[n].at < max_fd => returned'[n].event = evs'[returned'[n].at]
    BY <2>2, <2>7 DEF ScanInv, Scanned
  <2>11. /\ returned'[pos + 1].at = ((pos + 1) - 1) * Stride
         /\ returned'[pos + 1].at < max_fd =>
              returned'[pos + 1].event = evs'[returned'[pos + 1].at]
    <3>1. e.at = pos * Stride /\ e.event = ev /\ (pos + 1) - 1 = pos
      BY <2>4, <2>9
    <3>2. pos * Stride < max_fd => ev = evs[pos * Stride]
      OBVIOUS
    <3>. QED BY <2>2, <2>7, <3>1, <3>2
  <2>. QED BY <2>3, <2>8, <2>9, <2>10, <2>11 DEF ScanInv, Scanned
<1>7. ASSUME NEW fd \in Fds, NEW flag, Epoller_!add(fd, flag) \/ Epoller_!modify(fd, flag)
                                         \/ Epoller_!remove(fd)
      PROVE  ScanInv'
  BY <1>2, <1>7 DEF Epoller_!add, Epoller_!modify, Epoller_!remove
<1>8. CASE UNCHANGED Epoller_!vars
  BY <1>2, <1>8 DEF Epoller_!vars
<1>. QED BY <1>4, <1>5, <1>6, <1>7, <1>8 DEF Epoller_!Next

\* What a scan returns from below triggered_num_ is what the last wait reported, no event
\* twice, for any size of the array and of an event (epoller.cpp:125-172).
THEOREM ScanIsOfLast == Epoller_!Spec => []ScanIsCurrent
<1>. SUFFICES ASSUME Epoller_!EpollerAssumption PROVE Epoller_!Spec => []ScanIsCurrent
  BY ContainersAssumption
<1>1. Epoller_!Init => ScanInv
  <2>. SUFFICES ASSUME Epoller_!Init PROVE ScanInv
    OBVIOUS
  <2>1. triggered_num = 0 /\ pos = 0 /\ reported = {} /\ returned = <<>>
        /\ DOMAIN evs = 0 .. (max_fd - 1)
    BY DEF Epoller_!Init
  <2>2. Filled
    BY <2>1 DEF Filled, Epoller_!EpollerAssumption
  <2>3. Scanned
    BY <2>1 DEF Scanned
  <2>. QED BY <2>2, <2>3 DEF ScanInv
<1>2. ScanInv => ScanIsCurrent
  <2>. SUFFICES ASSUME ScanInv PROVE Epoller_!ScanIsCurrent
    BY DEF ScanIsCurrent
  <2>1. /\ max_fd \in Nat \ {0} /\ Stride \in Nat \ {0} /\ triggered_num \in 0 .. max_fd
        /\ DOMAIN returned = 1 .. pos /\ pos \in Nat
    BY DEF Epoller_!EpollerAssumption, ScanInv, Filled, Scanned
  <2>2. ASSUME NEW n \in 1 .. pos, returned[n].at < triggered_num
        PROVE  /\ returned[n].at = (n - 1) * Stride /\ returned[n].at \in 0 .. (triggered_num - 1)
               /\ returned[n].event = evs[returned[n].at]
    <3>1. returned[n].at = (n - 1) * Stride /\ (n - 1) * Stride \in Nat
      BY <2>1 DEF ScanInv, Scanned
    <3>2. returned[n].at < max_fd /\ returned[n].at \in 0 .. (triggered_num - 1)
      BY <2>1, <2>2, <3>1
    <3>. QED BY <3>1, <3>2 DEF ScanInv, Scanned
  <2>3. ASSUME NEW n \in 1 .. pos, returned[n].at < triggered_num PROVE returned[n].event \in reported
    BY <2>2, <2>3 DEF ScanInv, Filled
  <2>4. ASSUME NEW n \in 1 .. pos, NEW m \in 1 .. pos, returned[n].at < triggered_num,
               returned[m].at < triggered_num, returned[m].event = returned[n].event
        PROVE  m = n
    <3>1. returned[n].at = returned[m].at
      BY <2>2, <2>4 DEF ScanInv, Filled
    <3>2. PICK a \in Nat, b \in Nat : a = n - 1 /\ b = m - 1
      BY <2>1
    <3>3. a * Stride = b * Stride
      BY <2>2, <2>4, <3>1, <3>2
    <3>4. a = b
      BY <2>1, <3>3
    <3>. QED BY <2>1, <3>2, <3>4
  <2>5. ASSUME triggered_num > 0 PROVE evs[0] \in reported
    <3>1. 0 \in 0 .. (triggered_num - 1)
      BY <2>1, <2>5
    <3>. QED BY <3>1 DEF ScanInv, Filled
  <2>. QED BY <2>1, <2>3, <2>4, <2>5 DEF Epoller_!ScanIsCurrent
<1>. QED BY <1>1, <1>2, ScanNext, PTL DEF Epoller_!Spec
===============================================================================
