-------------------------- MODULE PriorityQueueTimer --------------------------
(***************************************************************************)
(* src/src/timer/priority_queue_timer.{h,cpp}: timers in a binary heap kept *)
(* in a vector.  The vector is a function on 0 .. size - 1 and a node is a  *)
(* record; node.index is kept as the code keeps it, because cancel_timer    *)
(* trusts it.  The clock counts in the unit of now_usec().                  *)
(***************************************************************************)
EXTENDS Integers, FiniteSets

CONSTANTS
  Delays,      \* ms_time values callers pass to add_timer
  CbKinds,     \* whether a callback is callable
  ClockMoves,  \* movements of now_usec(), negative: set back
  MaxTimers,   \* bound: ids handed out
  MaxClock     \* bound: range of the clock

ASSUME QueueAssumption ==
  /\ Delays \subseteq Nat /\ CbKinds \subseteq BOOLEAN /\ ClockMoves \subseteq Int
  /\ MaxTimers \in Nat /\ MaxClock \in Nat

VARIABLES
  heap,        \* min_heap_: [0 .. size - 1 -> node]
  counter,     \* counter_
  clock,       \* now_usec() - start_time_
  updating,    \* update() is on the stack
  seen,        \* update's local now
  running,     \* id of the timer whose callback is running, or None
  crashed,     \* the process died calling a destroyed callback
  due,         \* [id -> expires]: what add_timer was asked, kept for the properties
  left         \* [id -> why it left the heap]: "no", "cancelled", "popped"

vars == <<heap, counter, clock, updating, seen, running, crashed, due, left>>

None     == -1
TimerIds == 0 .. (MaxTimers - 1)
Size(h)  == Cardinality(DOMAIN h)

(***************************************************************************)
(* The heap.                                                               *)
(***************************************************************************)
Less(h, i, j) == h[i].expires < h[j].expires

\* swap two elements and set both index fields, as siftdown and siftup do
SwapIndexed(h, i, j) ==
  [h EXCEPT ![i] = [h[j] EXCEPT !.index = i], ![j] = [h[i] EXCEPT !.index = j]]

\* bring the last element n to i; only its index is set, the other one goes
SwapInto(h, i, n) == [h EXCEPT ![n] = h[i], ![i] = [h[n] EXCEPT !.index = i]]

\* pop_back
PopBack(h) == [i \in (DOMAIN h) \ {Size(h) - 1} |-> h[i]]

\* Mutant of LeastChild: the right child is not considered.
LeftChild(h, i, n) == 2 * i + 1

\* the child of i below n that siftdown compares with i
LeastChild(h, i, n) ==
  LET j1 == 2 * i + 1
      j2 == j1 + 1
  IN IF j2 < n /\ ~Less(h, j1, j2) THEN j2 ELSE j1

\* Heap and place of a loop are a record, and the loop's rounds are counted, as
\* many as there may be; one that has stopped stays.
DownRound(s, n) ==
  LET j == LeastChild(s.heap, s.at, n)
  IN IF 2 * s.at + 1 < n /\ Less(s.heap, j, s.at)
     THEN [heap |-> SwapIndexed(s.heap, s.at, j), at |-> j]
     ELSE s

\* siftdown: the heap and where element i is now, for its result
SiftDown(h, i, n) ==
  LET Down[k \in 0 .. n] == IF k = 0 THEN [heap |-> h, at |-> i]
                            ELSE DownRound(Down[k - 1], n)
  IN Down[n]

UpRound(s) ==
  LET i == IF s.at = 0 THEN 0 ELSE (s.at - 1) \div 2
  IN IF i # s.at /\ Less(s.heap, s.at, i)
     THEN [heap |-> SwapIndexed(s.heap, i, s.at), at |-> i]
     ELSE s

SiftUp(h, j) ==
  LET Up[k \in 0 .. j] == IF k = 0 THEN [heap |-> h, at |-> j] ELSE UpRound(Up[k - 1])
  IN Up[j].heap

\* Mutant of Remove: siftup is left out, as if only the top were ever removed.
RemoveDownOnly(h, i) ==
  LET n == Size(h) - 1
  IN IF i = n THEN PopBack(h) ELSE PopBack(SiftDown(SwapInto(h, i, n), i, n).heap)

\* cancel_timer's removal of element i
Remove(h, i) ==
  LET n    == Size(h) - 1
      down == SiftDown(SwapInto(h, i, n), i, n)
  IN IF i = n THEN PopBack(h)
     ELSE PopBack(IF down.at > i THEN down.heap ELSE SiftUp(down.heap, i))

\* update's removal of the front
RemoveFront(h) ==
  LET n == Size(h) - 1 IN PopBack(SiftDown(SwapInto(h, 0, n), 0, n).heap)

(***************************************************************************)
(* Operations.                                                             *)
(***************************************************************************)
Init ==
  /\ heap = [i \in {} |-> 0]
  /\ counter = 0
  /\ clock = 0 /\ updating = FALSE /\ seen = 0
  /\ running = None /\ crashed = FALSE
  /\ due = [id \in TimerIds |-> 0]
  /\ left = [id \in TimerIds |-> "no"]

\* Callers run between updates or inside a callback.
CallerRuns == ~crashed /\ (~updating \/ running # None)

AddTimer(ms_time, cb) ==
  /\ CallerRuns
  /\ counter < MaxTimers                 \* bound
  /\ LET n     == Size(heap)
         fresh == [id |-> counter, expires |-> clock + ms_time, index |-> n,
                   cb |-> cb]
     IN heap' = SiftUp([i \in 0 .. n |-> IF i = n THEN fresh ELSE heap[i]], n)
  /\ due' = [due EXCEPT ![counter] = clock + ms_time]
  /\ counter' = counter + 1
  /\ UNCHANGED <<clock, updating, seen, running, crashed, left>>

\* the linear search finds the element, node.index says which one to remove
CancelTimer(id) ==
  /\ CallerRuns
  /\ \E idx \in DOMAIN heap :
       /\ heap[idx].id = id
       /\ heap' = Remove(heap, heap[idx].index)
  /\ left' = [left EXCEPT ![id] = "cancelled"]
  /\ UNCHANGED <<counter, clock, updating, seen, running, crashed, due>>

BeginUpdate ==
  /\ CallerRuns /\ ~updating
  /\ updating' = TRUE
  /\ seen' = clock
  /\ UNCHANGED <<heap, counter, clock, running, crashed, due, left>>

\* Mutant of FrontDue: the loop runs one timer late.
FrontDueLate == DOMAIN heap # {} /\ heap[0].expires < seen

\* the loop goes on: the front is due
FrontDue == DOMAIN heap # {} /\ heap[0].expires <= seen

\* One turn of the loop.  The reference `node` names slot 0, not the timer that
\* was there: after pop_back it is the NEXT timer's callback that is called, and
\* when the vector became empty a destroyed one, which may still run as before
\* or take the process down.  (A callback that cancels the timer it is stored
\* in moves the closure under its own feet; nothing here depends on it.)
PopAndCall ==
  /\ updating /\ running = None /\ ~crashed
  /\ FrontDue
  /\ heap' = RemoveFront(heap)
  /\ left' = [left EXCEPT ![heap[0].id] = "popped"]
  /\ \/ /\ Size(heap) > 1
        /\ running' = IF heap'[0].cb THEN heap'[0].id ELSE None
        /\ crashed' = FALSE
     \/ /\ Size(heap) = 1
        /\ \/ running' = (IF heap[0].cb THEN heap[0].id ELSE None) /\ crashed' = FALSE
           \/ running' = None /\ crashed' = heap[0].cb
  /\ UNCHANGED <<counter, clock, updating, seen, due>>

CallbackReturns ==
  /\ running # None
  /\ running' = None
  /\ UNCHANGED <<heap, counter, clock, updating, seen, crashed, due, left>>

EndUpdate ==
  /\ updating /\ running = None /\ ~crashed
  /\ ~FrontDue
  /\ updating' = FALSE
  /\ UNCHANGED <<heap, counter, clock, seen, running, crashed, due, left>>

\* gettimeofday moves
ClockMoved(d) ==
  /\ ~crashed
  /\ clock + d \in (-MaxClock) .. MaxClock     \* bound
  /\ clock' = clock + d
  /\ UNCHANGED <<heap, counter, updating, seen, running, crashed, due, left>>

Next ==
  \/ \E ms_time \in Delays, cb \in CbKinds : AddTimer(ms_time, cb)
  \/ \E id \in TimerIds : CancelTimer(id)
  \/ BeginUpdate \/ PopAndCall \/ CallbackReturns \/ EndUpdate
  \/ \E d \in ClockMoves : ClockMoved(d)

Spec == Init /\ [][Next]_vars

-------------------------------------------------------------------------------
(***************************************************************************)
(* Properties.                                                             *)
(***************************************************************************)
Node == [id : TimerIds, expires : Int, index : Nat, cb : BOOLEAN]

TypeOK ==
  /\ DOMAIN heap = 0 .. (Size(heap) - 1)
  /\ \A i \in DOMAIN heap : heap[i] \in Node
  /\ counter \in 0 .. MaxTimers
  /\ clock \in Int /\ seen \in Int
  /\ updating \in BOOLEAN /\ crashed \in BOOLEAN
  /\ running \in TimerIds \cup {None}
  /\ due \in [TimerIds -> Int]
  /\ left \in [TimerIds -> {"no", "cancelled", "popped"}]

\* A parent is never due after its child, whatever mix of adds, cancels from
\* the middle and re-entrant callbacks the heap has seen; otherwise update()
\* stops at a front that is not the earliest (priority_queue_timer.cpp:25-67).
HeapOrdered ==
  \A i \in (DOMAIN heap) \ {0} : heap[(i - 1) \div 2].expires <= heap[i].expires

\* node.index is the node's place: cancel_timer removes heap[index], not the
\* element its search found (priority_queue_timer.cpp:92-102).
IndexExact == \A i \in DOMAIN heap : heap[i].index = i

\* The heap holds each issued timer that neither was cancelled nor came due,
\* once, with the due time it was given (priority_queue_timer.cpp:69-129).
MembersExact ==
  /\ {heap[i].id : i \in DOMAIN heap}
       = {id \in TimerIds : id < counter /\ left[id] = "no"}
  /\ \A i, j \in DOMAIN heap : heap[i].id = heap[j].id => i = j
  /\ \A i \in DOMAIN heap : heap[i].expires = due[heap[i].id]

\* All that cancel_timer and update rely on when they take an element out by its
\* index: the order, the indices and the members, in heaps of any shape that adds,
\* cancels from the middle and re-entrant callbacks leave behind.
QueueSound == TypeOK /\ HeapOrdered /\ IndexExact /\ MembersExact

\* When update() returns, no timer that was due when it read the clock is left
\* in the heap: not one added or moved by a callback meanwhile either.
NothingDueLeft ==
  [][updating /\ ~updating' => \A i \in DOMAIN heap' : heap'[i].expires > seen]_vars

\* A callback runs only once its timer is due: "add  a timer to schedule after ms
\* milliseconds" (timer_base.h:20).
NotEarly == running # None => due[running] <= seen
===============================================================================
