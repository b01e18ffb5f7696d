---------------------------------- MODULE Trie ---------------------------------
(***************************************************************************)
(* src/src/trie.h, DTrie<EmptyType>: a trie in two blocks of memory, one of *)
(* nodes and one of index entries.  The children of a node are an array of  *)
(* index entries; to get one child more it moves to a longer array, and the *)
(* old one goes to the pool of its length.                                  *)
(*                                                                         *)
(* add is called by one thread at a time (trie.h:126); del, which is to be  *)
(* thread-safe (trie.h:120), may be called by others meanwhile, and each    *)
(* goes down node by node.  Of the stores that move an array, size comes    *)
(* before pIndex and what follows (trie.h:305-319): there the move is cut   *)
(* in two; and del reads pIndex before it looks at the entries.  The empty  *)
(* key is left out: add takes it and does nothing.                          *)
(***************************************************************************)
EXTENDS Integers, FiniteSets, Sequences, SequencesExt, FiniteSetsExt

CONSTANTS
  Chars,       \* the bytes keys are made of
  MaxLen,      \* the longest key
  Statuses,    \* what add is called with: not -1
  MaxNode,     \* m_iMaxNode
  MaxIndex,    \* m_iMaxIndex
  MaxDels      \* bound: calls of del

ASSUME TrieAssumption ==
  /\ IsFiniteSet(Chars) /\ Cardinality(Chars) < 256   \* size is an unsigned char
  /\ MaxLen \in Nat /\ MaxNode \in Nat \ {0} /\ MaxIndex \in Nat \ {0} /\ MaxDels \in Nat
  /\ Statuses \subseteq Int \ {-1}

VARIABLES
  node,        \* [0 .. MaxNode - 1 -> [pIndex, status, size]]
  index,       \* [0 .. MaxIndex - 1 -> [pNode, ch]]
  iNodeOffset, iIndexOffset,
  pool,        \* m_IndexPool: [lengths -> sequence of arrays]
  adding,      \* the call of add on the stack, or NotAdding: [key, status, i, cur,
               \* and array, where cur's array moves to, or None]
  deleting,    \* [the calls of del -> [key, i, cur, array], or NotDeleting: i characters
               \* led to cur, whose pIndex was read as array, or not yet]
  \* what the properties look back on
  told,        \* [Words -> the status add and del left it with]
  starved,     \* an add failed for want of index entries
  torn,        \* a del looked at an array that was moving, or had moved
  dels         \* calls of del so far

trie    == <<node, index, iNodeOffset, iIndexOffset, pool>>
vars    == <<trie, adding, deleting, told, starved, torn, dels>>

Words == UNION {[1 .. n -> Chars] : n \in 1 .. MaxLen}
None  == -1                          \* NULL, and the status of no word
NotAdding == [key |-> <<>>, status |-> None, i |-> 0, cur |-> 0, array |-> None]
NotDeleting == [key |-> <<>>, i |-> 0, cur |-> 0, array |-> None]

Blank == [pIndex |-> 0, status |-> None, size |-> 0]    \* INIT_NODE

\* create
Init ==
  /\ node = [n \in 0 .. (MaxNode - 1) |-> Blank]
  /\ index = [x \in 0 .. (MaxIndex - 1) |-> [pNode |-> 0, ch |-> None]]
  /\ iNodeOffset = 1 /\ iIndexOffset = 1
  /\ pool = [length \in 1 .. (Cardinality(Chars) + 1) |-> <<>>]
  /\ adding = NotAdding
  /\ deleting = [d \in 1 .. MaxDels |-> NotDeleting]
  /\ told = [w \in Words |-> None] /\ starved = FALSE /\ torn = FALSE /\ dels = 0

\* the first entry with the character, of the size entries at an array; nothing is
\* found past the block's end
Lookup(at, size, ch) ==
  LET hits == {x \in DOMAIN index : x \in at .. (at + size - 1) /\ index[x].ch = ch}
  IN IF hits = {} THEN None ELSE index[Min(hits)].pNode

GetNextNode(n, ch) == Lookup(node[n].pIndex, node[n].size, ch)

\* find(sKey): the node at the end of the key, or NULL
Find(key) ==
  LET walk[i \in 0 .. Len(key)] ==
        IF i = 0 THEN 0
        ELSE IF walk[i - 1] = None THEN None ELSE GetNextNode(walk[i - 1], key[i])
  IN walk[Len(key)]

\* find(sKey, stResult): the status
Status(key) == IF Find(key) = None THEN None ELSE node[Find(key)].status

(***************************************************************************)
(* find(sKey, iSameNum, vecData, iMaxNum) by preOrder.  todo are the calls *)
(* still to be made, nodes with their keys, found the keys reported.  A    *)
(* call looks at a node, and there are no more calls than nodes.           *)
(***************************************************************************)
\* Mutant of Children: the last child is left out.
ChildrenButLast(n, key) ==
  [i \in 1 .. (node[n].size - 1) |->
     LET entry == index[node[n].pIndex + i - 1] IN <<entry.pNode, Append(key, entry.ch)>>]

\* the calls a call makes
Children(n, key) ==
  [i \in 1 .. node[n].size |->
     LET entry == index[node[n].pIndex + i - 1] IN <<entry.pNode, Append(key, entry.ch)>>]

\* The call that reports the iMaxNum-th key, or a later one, does not go further
\* down; the calls above it go on, so iMaxNum may be exceeded.
OneCall(s, iMaxNum) ==
  LET m     == Head(s.todo)
      hit   == node[m[1]].status >= 0
      found == IF hit THEN Append(s.found, m[2]) ELSE s.found
      full  == hit /\ Len(found) >= iMaxNum
  IN [found |-> found,
      todo  |-> (IF full THEN <<>> ELSE Children(m[1], m[2])) \o Tail(s.todo)]

preOrder(n, key, iMaxNum) ==
  LET Calls[k \in 0 .. iNodeOffset] ==
        IF k = 0 THEN [todo |-> <<<<n, key>>>>, found |-> <<>>]
        ELSE LET s == Calls[k - 1]
             IN IF s.todo = <<>> THEN s ELSE OneCall(s, iMaxNum)
  IN Calls[iNodeOffset].found

Search(prefix, iMaxNum) ==
  IF Find(prefix) = None THEN <<>> ELSE preOrder(Find(prefix), prefix, iMaxNum)

(***************************************************************************)
(* add, one character a step.                                              *)
(***************************************************************************)
\* Once the index entries ran out or a del met a moving array, nothing is claimed and
\* the model takes no more keys.
Add(key, status) ==
  /\ ~starved /\ ~torn                    \* bound
  /\ adding = NotAdding
  /\ adding' = [key |-> key, status |-> status, i |-> 0, cur |-> 0,
               array |-> None]
  /\ UNCHANGED <<trie, told, starved, torn, dels, deleting>>

ch_i == adding.key[adding.i + 1]

\* the last character's node gets the status, and the call returns 0
IsLast == adding.i + 1 = Len(adding.key)

Marked(nodes, n) ==
  IF IsLast THEN [nodes EXCEPT ![n].status = adding.status] ELSE nodes

Proceed(n) ==
  IF IsLast
  THEN adding' = NotAdding /\ told' = [told EXCEPT ![adding.key] = adding.status]
  ELSE adding' = [adding EXCEPT !.i = @ + 1, !.cur = n, !.array = None] /\ UNCHANGED told

Walks == adding # NotAdding /\ adding.array = None

GoDown ==
  /\ Walks
  /\ LET next == GetNextNode(adding.cur, ch_i)
     IN /\ next # None
        /\ node' = Marked(node, next)
        /\ Proceed(next)
  /\ UNCHANGED <<index, iNodeOffset, iIndexOffset, pool, starved, torn, dels, deleting>>

NeedsChild == Walks /\ GetNextNode(adding.cur, ch_i) = None

\* AddChild's first check
NoNodeLeft == iNodeOffset + 1 > MaxNode

\* AddChild and add fail; what the key has got so far stays
OutOfNodes ==
  /\ NeedsChild /\ NoNodeLeft
  /\ adding' = NotAdding
  /\ UNCHANGED <<trie, told, starved, torn, dels, deleting>>

\* Mutant of Returned: the array goes to the pool of the next length.
ReturnedLonger(at, size) ==
  IF size > 0 /\ at # 0 THEN [pool EXCEPT ![size + 1] = Append(@, at)] ELSE pool

\* the current array goes to the pool of its length
Returned(at, size) ==
  IF size > 0 /\ at # 0 THEN [pool EXCEPT ![size] = Append(@, at)] ELSE pool

\* the array is in the pool already when AddChild fails
OutOfIndexes ==
  LET cur   == node[adding.cur]
      pools == Returned(cur.pIndex, cur.size)
  IN /\ NeedsChild /\ ~NoNodeLeft
     /\ pools[cur.size + 1] = <<>> /\ iIndexOffset + cur.size + 1 > MaxIndex
     /\ pool' = pools
     /\ adding' = NotAdding
     /\ starved' = TRUE
     /\ UNCHANGED <<node, index, iNodeOffset, iIndexOffset, told, torn, dels, deleting>>

\* Mutant of Moved: the entries are not copied to the new array.
MovedBlank(old, new, size) == index

\* the entries of the old array copied to the new one
Moved(old, new, size) ==
  [x \in DOMAIN index |->
     IF x \in new .. (new + size - 1) THEN index[old + (x - new)] ELSE index[x]]

\* AddChild, down to the store of size
Enlarge ==
  LET n      == adding.cur
      old    == node[n].pIndex
      size   == node[n].size
      pools  == Returned(old, size)
      pooled == pools[size + 1] # <<>>
      new    == IF pooled THEN Head(pools[size + 1]) ELSE iIndexOffset
  IN /\ NeedsChild /\ ~NoNodeLeft
     /\ pooled \/ iIndexOffset + size + 1 <= MaxIndex
     /\ pool' = IF pooled THEN [pools EXCEPT ![size + 1] = Tail(@)] ELSE pools
     /\ index' = Moved(old, new, size)
     /\ iIndexOffset' = IF pooled THEN iIndexOffset ELSE iIndexOffset + size + 1
     /\ node' = [node EXCEPT ![n].size = size + 1]
     /\ adding' = [adding EXCEPT !.array = new]
     /\ UNCHANGED <<iNodeOffset, told, starved, torn, dels, deleting>>

\* AddChild from the store of pIndex on: the new child's entry is the last
Repoint ==
  LET child == iNodeOffset
      last  == adding.array + node[adding.cur].size - 1
  IN /\ adding.array # None
     /\ index' = [index EXCEPT ![last] = [pNode |-> child, ch |-> ch_i]]
     /\ node' = Marked([node EXCEPT ![adding.cur].pIndex = adding.array, ![child] = Blank], child)
     /\ iNodeOffset' = iNodeOffset + 1
     /\ Proceed(child)
     /\ UNCHANGED <<iIndexOffset, pool, starved, torn, dels, deleting>>

(***************************************************************************)
(* del, node by node, the calls numbered as they come.                     *)
(***************************************************************************)
del(key) ==
  /\ dels < MaxDels                       \* bound
  /\ dels' = dels + 1
  /\ deleting' = [deleting EXCEPT ![dels + 1] = [key |-> key, i |-> 0, cur |-> 0, array |-> None]]
  /\ UNCHANGED <<trie, adding, told, starved, torn>>

IsDeleting(d) == deleting[d] # NotDeleting

\* the last node has been reached
AtEnd(d) == deleting[d].i = Len(deleting[d].key)

Ends(d) == deleting' = [deleting EXCEPT ![d] = NotDeleting]

\* GetNextNode up to the load of pIndex; a node without children ends the call
Reads(d) ==
  LET cur == node[deleting[d].cur]
  IN /\ IsDeleting(d) /\ ~AtEnd(d) /\ deleting[d].array = None
     /\ IF cur.size = 0 THEN Ends(d)
        ELSE deleting' = [deleting EXCEPT ![d].array = cur.pIndex]
     /\ UNCHANGED <<trie, adding, told, starved, torn, dels>>

\* the array is not, or no longer, the one that size counts
Tears(d) ==
  \/ adding.array # None /\ adding.cur = deleting[d].cur
  \/ deleting[d].array # node[deleting[d].cur].pIndex

\* GetNextNode from the load of pIndex on; a character that is not there ends the call
Looks(d) ==
  LET call == deleting[d]
      next == Lookup(call.array, node[call.cur].size, call.key[call.i + 1])
  IN /\ IsDeleting(d) /\ call.array # None
     /\ IF next = None THEN Ends(d)
        ELSE deleting' = [deleting EXCEPT ![d] = [key |-> call.key, i |-> call.i + 1,
                                                  cur |-> next, array |-> None]]
     /\ torn' = (torn \/ Tears(d))
     /\ UNCHANGED <<trie, adding, told, starved, dels>>

Unmarked(n) == [node EXCEPT ![n].status = None]

\* the node reached loses its status and stays; a node without one is no key
Unmarks(d) ==
  LET call == deleting[d]
  IN /\ IsDeleting(d) /\ AtEnd(d)
     /\ IF node[call.cur].status = None THEN UNCHANGED <<node, told>>
        ELSE node' = Unmarked(call.cur) /\ told' = [told EXCEPT ![call.key] = None]
     /\ Ends(d)
     /\ UNCHANGED <<index, iNodeOffset, iIndexOffset, pool, adding, starved, torn, dels>>

Next ==
  \/ \E key \in Words, status \in Statuses : Add(key, status)
  \/ GoDown \/ OutOfNodes \/ OutOfIndexes \/ Enlarge \/ Repoint
  \/ \E key \in Words : del(key)
  \/ \E d \in 1 .. MaxDels : Reads(d) \/ Looks(d) \/ Unmarks(d)

Spec == Init /\ [][Next]_vars

-------------------------------------------------------------------------------
(***************************************************************************)
(* Properties.                                                             *)
(***************************************************************************)
\* the entries of an array, and the arrays of the nodes made so far
Entries(at, length) == at .. (at + length - 1)
Nodes   == 0 .. (iNodeOffset - 1)
InUse   == {n \in Nodes : node[n].size > 0}
Lengths == DOMAIN pool

CallsOK ==
  /\ deleting \in [1 .. MaxDels -> {NotDeleting} \cup
                     [key : Words, i : Nat, cur : 0 .. (MaxNode - 1), array : {None} \cup Nat]]
  /\ \A d \in 1 .. MaxDels :
       /\ deleting[d].i <= Len(deleting[d].key)
       /\ deleting[d].array # None => ~AtEnd(d)

TypeOK ==
  /\ node \in [0 .. (MaxNode - 1) -> [pIndex : Nat, status : Statuses \cup {None},
                                      size : 0 .. Cardinality(Chars)]]
  /\ index \in [0 .. (MaxIndex - 1) -> [pNode : 0 .. (MaxNode - 1), ch : Chars \cup {None}]]
  /\ iNodeOffset \in 1 .. MaxNode /\ iIndexOffset \in 1 .. MaxIndex
  /\ pool \in [1 .. (Cardinality(Chars) + 1) -> Seq(1 .. (MaxIndex - 1))]
  /\ adding # NotAdding =>
       /\ adding \in [key : Words, status : Statuses, i : Nat, cur : Nodes,
                      array : {None} \cup 1 .. (MaxIndex - 1)]
       /\ adding.i < Len(adding.key)
  /\ CallsOK
  /\ told \in [Words -> Statuses \cup {None}]
  /\ starved \in BOOLEAN /\ torn \in BOOLEAN /\ dels \in 0 .. MaxDels

Settled == ~starved /\ adding.array = None

\* Every key is found with the status it was last added with, and a deleted one is
\* not, however arrays move, come back from the pool and run out of nodes half way
\* down a key, and whenever between two characters of an add the del comes
\* (trie.h:209-244, 271-323); an add that ran out of index entries and a del that met
\* a moving array void it.
FindExact == Settled /\ ~torn => \A key \in Words : Status(key) = told[key]

\* The search by prefix reports every key below the prefix that was added and not
\* deleted, and each once, or at least as many of them as the limit, and no other
\* (trie.h:349-397).
SearchExact ==
  Settled /\ ~torn =>
    \A prefix \in {<<>>} \cup {key \in Words : Len(key) < MaxLen}, iMaxNum \in {1, MaxNode} :
      LET below == {key \in Words : told[key] >= 0 /\ IsPrefix(prefix, key)}
          found == Search(prefix, iMaxNum)
      IN /\ Range(found) \subseteq below /\ IsInjective(found)
         /\ Len(found) >= (IF iMaxNum < Cardinality(below) THEN iMaxNum ELSE Cardinality(below))

\* Two arrays never share an entry, be they a node's or in the pool, and all of them
\* are where entries have been handed out: a node's children are its own
\* (trie.h:277-306).
ArraysApart ==
  Settled =>
    /\ \A n \in InUse :
         /\ Entries(node[n].pIndex, node[n].size) \subseteq 1 .. (iIndexOffset - 1)
         /\ \A o \in InUse \ {n} :
              Entries(node[n].pIndex, node[n].size) \cap Entries(node[o].pIndex, node[o].size) = {}
         /\ \A length \in Lengths : \A i \in DOMAIN pool[length] :
              Entries(node[n].pIndex, node[n].size) \cap Entries(pool[length][i], length) = {}
    /\ \A j, k \in Lengths : \A a \in DOMAIN pool[j], b \in DOMAIN pool[k] :
         <<j, a>> # <<k, b>> => Entries(pool[j][a], j) \cap Entries(pool[k][b], k) = {}

\* del is thread-safe (trie.h:120): called while another thread adds a key, it takes
\* its own key's status and no other one's.
DelThreadSafe == Settled => \A key \in Words : Status(key) = told[key]
===============================================================================
