------------------------------- MODULE HashTree -------------------------------
(***************************************************************************)
(* src/inc/hashtree.h: a tree in which the key modulo the n-th prime leads *)
(* from level n to the next.  A node is named by its path, the sequence of *)
(* these remainders; nodes are emptied, never taken out.  The remainder of *)
(* a key below zero may be below zero as well: then child_ is indexed out  *)
(* of its bounds, and nothing is said of what follows.                     *)
(***************************************************************************)
EXTENDS Integers, FiniteSets, Sequences, Functions, SequencesExt

CONSTANTS
  SIZE,     \* the children of a node; the primes are those up to SIZE
  prime,    \* prime_, from 1 on
  TreeKeys, \* the keys, of a signed type
  Values    \* the values

VARIABLES
  tree,  \* the nodes: a function on paths to [occupied, key, value]
  died,  \* did a division by zero, or an index out of bounds, end what is defined?
  store, \* what a map from keys to values would hold
  twice  \* was a key inserted that was there already?

vars == <<tree, died, store, twice>>

isprime(n) == \A i \in 2 .. n : i * i < n + 1 => n % i # 0

primes == {i \in 2 .. SIZE : isprime(i)}

\* prime_[1 .. max_level_] as it is filled: the primes in rising order
RisingPrimes ==
  [n \in 1 .. Cardinality(primes) |-> CHOOSE i \in primes : Cardinality(primes \cap 2 .. i) = n]

max_level == Len(prime)

TreeAssumption == SIZE \in Nat /\ SIZE >= 2 /\ prime = RisingPrimes /\ TreeKeys \subseteq Int

\* the operator % of C++: the division goes towards zero
Rem(k, p) == IF k < 0 THEN -((-k) % p) ELSE k % p

\* the node that a key leads to on a level, the root on level 1
Path(k, level) == [n \in 1 .. (level - 1) |-> Rem(k, prime[n])]
Levels         == 1 .. (max_level + 1)

\* a level whose child_ the key indexes out of bounds
Outside(k, level) == level <= max_level /\ Rem(k, prime[level]) < 0

Nothing == "NULL"
Free    == [occupied |-> FALSE, key |-> 0, value |-> Nothing]

TypeOK ==
  /\ DOMAIN tree \subseteq {Path(k, n) : k \in TreeKeys, n \in Levels}
  /\ \A path \in DOMAIN tree : \A n \in 0 .. Len(path) : SubSeq(path, 1, n) \in DOMAIN tree
  /\ \A path \in DOMAIN tree : path \in Seq(0 .. (SIZE - 1))
  /\ died \in BOOLEAN /\ twice \in BOOLEAN /\ DOMAIN store \subseteq TreeKeys

\* the function with the value v at x
Put(f, x, v) == [y \in DOMAIN f \cup {x} |-> IF y = x THEN v ELSE f[y]]

Init == tree = [path \in {<<>>} |-> Free] /\ died = FALSE /\ store = <<>> /\ twice = FALSE

Occupied(path) == path \in DOMAIN tree /\ tree[path].occupied
Holds(path, k) == Occupied(path) /\ tree[path].key = k

Least(S) == CHOOSE n \in S : \A m \in S : n <= m

\* into the first node on the way that is free; no look is taken whether a
\* later one has the key
insert(k, v) ==
  /\ ~died
  /\ LET free == {n \in Levels : ~Occupied(Path(k, n))}
         last == IF free = {} THEN max_level + 1 ELSE Least(free)
     IN /\ died' = \E n \in 1 .. (last - 1) : Outside(k, n)
        /\ IF free = {} \/ died' THEN UNCHANGED <<tree, store>>
           ELSE /\ tree' = Put(tree, Path(k, last), [occupied |-> TRUE, key |-> k, value |-> v])
                /\ store' = Put(store, k, v)
  /\ twice' = (twice \/ k \in DOMAIN store)

\* the level find and remove end on: where the key is, or there is no child, or the
\* index is out of bounds; one below the last the modulus is prime_[max_level_ + 1], a zero
Ends(k, n) ==
  /\ \/ Holds(Path(k, n), k)
     \/ n = max_level + 1
     \/ Outside(k, n)
     \/ Path(k, n + 1) \notin DOMAIN tree
  /\ \A m \in 1 .. (n - 1) : ~Holds(Path(k, m), k)

End(k) == Least({n \in Levels : Ends(k, n)})

Dies(k)   == LET n == End(k) IN n = max_level + 1 /\ ~Holds(Path(k, n), k)
Strays(k) == LET n == End(k) IN Outside(k, n) /\ ~Holds(Path(k, n), k)

find(k) == LET at == Path(k, End(k)) IN IF Holds(at, k) THEN tree[at].value ELSE Nothing

\* a call of find that does not return, or reads what is no child
FindDies(k) == ~died /\ (Dies(k) \/ Strays(k)) /\ died' = TRUE /\ UNCHANGED <<tree, store, twice>>

\* Mutant of remove: the node is taken out with all that is below it.
removeFrees(k) ==
  /\ ~died
  /\ died' = (Dies(k) \/ Strays(k))
  /\ LET at == Path(k, End(k))
     IN tree' = IF ~Holds(at, k) THEN tree
                ELSE IF at = <<>> THEN [path \in {<<>>} |-> Free]
                ELSE Restrict(tree, {path \in DOMAIN tree : ~IsPrefix(at, path)})
  /\ store' = Restrict(store, DOMAIN store \ {k})
  /\ UNCHANGED twice

remove(k) ==
  /\ ~died
  /\ died' = (Dies(k) \/ Strays(k))
  /\ LET at == Path(k, End(k))
     IN tree' = IF Holds(at, k) THEN [tree EXCEPT ![at].occupied = FALSE] ELSE tree
  /\ store' = Restrict(store, DOMAIN store \ {k})
  /\ UNCHANGED twice

Next ==
  \E k \in TreeKeys :
    \/ \E v \in Values : insert(k, v)
    \/ FindDies(k)
    \/ remove(k)

Spec == Init /\ [][Next]_vars

-----------------------------------------------------------------------------
(***************************************************************************)
(* As long as no key is inserted that is there, a find that returns gives  *)
(* what a map would, whatever was inserted and removed around the key; and *)
(* for every key that is there find returns.  For a key that is not it may *)
(* divide by zero, but only when all nodes on its way were made, or index  *)
(* out of bounds with a remainder below zero.                              *)
(***************************************************************************)
TreeFinds ==
  ~twice /\ ~died =>
    \A k \in TreeKeys :
      IF Dies(k) \/ Strays(k)
      THEN /\ k \notin DOMAIN store
           /\ Dies(k) => \A n \in Levels : Path(k, n) \in DOMAIN tree
      ELSE find(k) = IF k \in DOMAIN store THEN store[k] ELSE Nothing
==============================================================================
