------------------------------- MODULE TimeHeap -------------------------------
(***************************************************************************)
(* src/src/server/heap_timer.h: the reactor's timers, a binary heap of      *)
(* pointers with lazy deletion.  A heap_timer* is the id of the timer it    *)
(* points to; array is the function heap on 0 .. cur_size - 1.              *)
(***************************************************************************)
EXTENDS Integers, FiniteSets

CONSTANTS
  Delays,      \* delay of a heap_timer, in seconds, counted from its insertion:
               \* negative when it was constructed that long before
  ClockMoves,  \* movements of time(NULL)
  Capacities,  \* cap arguments of the constructors
  MaxInit,     \* bound: timers in init_array
  MaxTimers,   \* bound: heap_timers ever constructed
  MaxClock     \* bound: range of the clock

ASSUME TimeHeapAssumption ==
  /\ Delays \subseteq Int /\ ClockMoves \subseteq Int
  /\ Capacities \subseteq Nat \ {0}
  /\ MaxTimers \in Nat /\ MaxInit \in 0 .. MaxTimers /\ MaxClock \in Nat

VARIABLES
  heap,        \* array: [0 .. cur_size - 1 -> id]
  capacity,    \* capacity
  timer,       \* the heap_timers allocated: [id -> [expire, cb]]; cb is FALSE
               \* when cb_func is NULL
  issued,      \* heap_timers constructed so far
  clock,       \* time(NULL)
  ticking,     \* tick() is on the stack
  cur,         \* tick's cur
  running,     \* the timer whose callback is running, or None
  outcome      \* [id -> what became of it]: what callers observe

vars == <<heap, capacity, timer, issued, clock, ticking, cur, running, outcome>>

None     == -1
TimerIds == 0 .. (MaxTimers - 1)
Outcomes == {"none", "ran", "ran again", "deleted", "popped", "destroyed"}

(***************************************************************************)
(* The heap.  A hole moves through the array, and the timer is stored where *)
(* it stops: array and hole of a loop are a record, and the loop's rounds    *)
(* are counted, as many as there may be; one that has stopped stays.        *)
(***************************************************************************)
cur_size == Cardinality(DOMAIN heap)
empty    == cur_size = 0
top      == IF empty THEN None ELSE heap[0]

\* Mutant of SmallerChild: the last child is not looked at.
SmallerChildShort(h, t, n, hole) ==
  LET child == 2 * hole + 1
  IN IF child + 1 < n - 1 /\ t[h[child + 1]].expire < t[h[child]].expire
     THEN child + 1 ELSE child

\* t: the timers' expire, n: cur_size
SmallerChild(h, t, n, hole) ==
  LET child == 2 * hole + 1
  IN IF child < n - 1 /\ t[h[child + 1]].expire < t[h[child]].expire
     THEN child + 1 ELSE child

\* the smaller child moves into the hole that temp is to fill
DownRound(s, t, temp, n) ==
  LET child == SmallerChild(s.array, t, n, s.hole)
  IN IF 2 * s.hole + 1 <= n - 1 /\ t[s.array[child]].expire < t[temp].expire
     THEN [array |-> [s.array EXCEPT ![s.hole] = s.array[child]], hole |-> child]
     ELSE s

percolate_down(h, t, i) ==
  LET n == Cardinality(DOMAIN h)
      Down[k \in 0 .. n] == IF k = 0 THEN [array |-> h, hole |-> i]
                            ELSE DownRound(Down[k - 1], t, h[i], n)
  IN [Down[n].array EXCEPT ![Down[n].hole] = h[i]]

\* Mutant of UpRound: a new timer passes the ones due at the same time.
UpRoundEqual(s, t, id) ==
  LET parent == (s.hole - 1) \div 2
  IN IF s.hole > 0 /\ t[id].expire <= t[s.array[parent]].expire
     THEN [array |-> [s.array EXCEPT ![s.hole] = s.array[parent]], hole |-> parent]
     ELSE s

\* the insertion loop of add_timer: the parent moves into the hole
UpRound(s, t, id) ==
  LET parent == (s.hole - 1) \div 2
  IN IF s.hole > 0 /\ t[id].expire < t[s.array[parent]].expire
     THEN [array |-> [s.array EXCEPT ![s.hole] = s.array[parent]], hole |-> parent]
     ELSE s

percolate_up(h, t, id) ==
  LET n == Cardinality(DOMAIN h)
      wider == [i \in 0 .. n |-> IF i = n THEN id ELSE h[i]]
      Up[k \in 0 .. n] == IF k = 0 THEN [array |-> wider, hole |-> n]
                          ELSE UpRound(Up[k - 1], t, id)
  IN [Up[n].array EXCEPT ![Up[n].hole] = id]

\* the loop of the second constructor, from (cur_size - 1) / 2 down to 0
Heapify(h, t) ==
  LET rounds == (Cardinality(DOMAIN h) - 1) \div 2 + 1
      Heap[k \in 0 .. rounds] == IF k = 0 THEN h
                                 ELSE percolate_down(Heap[k - 1], t, rounds - k)
  IN IF DOMAIN h = {} THEN h ELSE Heap[rounds]

\* array[0] = array[--cur_size]; percolate_down(0)
PopTop(h, t) ==
  LET last == Cardinality(DOMAIN h) - 1
      moved == [i \in 0 .. (last - 1) |-> IF i = 0 THEN h[last] ELSE h[i]]
  IN IF last = 0 THEN moved ELSE percolate_down(moved, t, 0)

(***************************************************************************)
(* Operations.  Who may call them is said in Next: between ticks, and from  *)
(* the callback that tick runs.                                            *)
(***************************************************************************)
Construct(n, expires) ==
  timer = [id \in 0 .. (n - 1) |-> [expire |-> expires[id], cb |-> TRUE]]

\* Both constructors: the first is the second with size 0.
Init ==
  /\ clock = 0
  /\ \E size \in 0 .. MaxInit : \E expires \in [0 .. (size - 1) -> Delays] :
       /\ issued = size
       /\ Construct(size, expires)
       /\ heap = Heapify([i \in 0 .. (size - 1) |-> i], timer)
  /\ capacity \in {cap \in Capacities : cap >= issued}   \* else it throws
  /\ ticking = FALSE /\ cur = 0 /\ running = None
  /\ outcome = [id \in TimerIds |-> "none"]

\* resize() when the array is full
Grown == IF cur_size >= capacity THEN 2 * capacity ELSE capacity

\* new heap_timer(delay), its callback set, and add_timer; the clock may have
\* moved between the constructor and the insertion (a negative delay)
add_timer(delay) ==
  /\ issued < MaxTimers                  \* bound
  /\ timer' = [id \in (DOMAIN timer) \cup {issued} |->
                 IF id = issued THEN [expire |-> clock + delay, cb |-> TRUE]
                                ELSE timer[id]]
  /\ capacity' = Grown
  /\ heap' = percolate_up(heap, timer', issued)
  /\ issued' = issued + 1
  /\ UNCHANGED <<clock, ticking, cur, running, outcome>>

\* lazy: the timer stays in the heap until it is popped
del_timer(id) ==
  /\ id \in DOMAIN timer
  /\ timer' = [timer EXCEPT ![id].cb = FALSE]
  /\ outcome' = [outcome EXCEPT ![id] = IF @ = "none" THEN "deleted" ELSE @]
  /\ UNCHANGED <<heap, capacity, issued, clock, ticking, cur, running>>

Popped ==
  /\ timer' = [id \in (DOMAIN timer) \ {heap[0]} |-> timer[id]]
  /\ heap' = PopTop(heap, timer)

\* called by the owner, not by tick; in a callback it would free the timer
\* whose callback it is
pop_timer ==
  /\ ~empty
  /\ Popped
  /\ outcome' = [outcome EXCEPT ![heap[0]] = IF @ = "none" THEN "popped" ELSE @]
  /\ UNCHANGED <<capacity, issued, clock, ticking, cur, running>>

\* ~time_heap
Destroy ==
  /\ capacity > 0
  /\ heap' = [i \in {} |-> 0]
  /\ timer' = [id \in {} |-> 0]
  /\ capacity' = 0
  /\ outcome' = [id \in TimerIds |->
       IF id \in DOMAIN timer /\ outcome[id] = "none" THEN "destroyed" ELSE outcome[id]]
  /\ UNCHANGED <<issued, clock, ticking, cur, running>>

\* the clock is read once, before the loop
BeginTick ==
  /\ ~ticking
  /\ ticking' = TRUE
  /\ cur' = clock
  /\ UNCHANGED <<heap, capacity, timer, issued, clock, running, outcome>>

\* Mutant of TopDue: a timer due in this very second waits.
TopDueLate == ~empty /\ timer[top].expire < cur

TopDue == ~empty /\ timer[top].expire <= cur

RunTop ==
  /\ ticking /\ running = None
  /\ TopDue /\ timer[top].cb
  /\ running' = top
  /\ outcome' = [outcome EXCEPT ![top] = IF @ = "none" THEN "ran" ELSE "ran again"]
  /\ UNCHANGED <<heap, capacity, timer, issued, clock, ticking, cur>>

\* Mutant of CallbackReturns: pop_timer() is only called for deleted timers.
CallbackReturnsUnpopped ==
  /\ running # None
  /\ running' = None
  /\ UNCHANGED <<heap, timer, capacity, issued, clock, ticking, cur, outcome>>

\* tick's pop_timer() pops what is on top when the callback returns
CallbackReturns ==
  /\ running # None
  /\ running' = None
  /\ Popped
  /\ UNCHANGED <<capacity, issued, clock, ticking, cur, outcome>>

\* a lazily deleted timer that came due
DropTop ==
  /\ ticking /\ running = None
  /\ TopDue /\ ~timer[top].cb
  /\ Popped
  /\ UNCHANGED <<capacity, issued, clock, ticking, cur, running, outcome>>

EndTick ==
  /\ ticking /\ running = None
  /\ ~TopDue
  /\ ticking' = FALSE
  /\ UNCHANGED <<heap, capacity, timer, issued, clock, cur, running, outcome>>

ClockMoved(d) ==
  /\ clock + d \in 0 .. MaxClock        \* bound
  /\ clock' = clock + d
  /\ UNCHANGED <<heap, capacity, timer, issued, ticking, cur, running, outcome>>

CallerRuns == capacity > 0 /\ (~ticking \/ running # None)

Next ==
  \/ CallerRuns /\ \E delay \in Delays : add_timer(delay)
  \/ CallerRuns /\ \E id \in TimerIds : del_timer(id)
  \/ CallerRuns /\ ~ticking /\ (pop_timer \/ Destroy \/ BeginTick)
  \/ RunTop \/ CallbackReturns \/ DropTop \/ EndTick
  \/ \E d \in ClockMoves : ClockMoved(d)

Spec == Init /\ [][Next]_vars

-------------------------------------------------------------------------------
(***************************************************************************)
(* Properties.                                                             *)
(***************************************************************************)
TypeOK ==
  /\ DOMAIN heap = 0 .. (cur_size - 1)
  /\ \A i \in DOMAIN heap : heap[i] \in TimerIds
  /\ DOMAIN timer \subseteq TimerIds
  /\ \A id \in DOMAIN timer : timer[id] \in [expire : Int, cb : BOOLEAN]
  /\ capacity \in Nat /\ issued \in 0 .. MaxTimers
  /\ clock \in Int /\ cur \in Int
  /\ ticking \in BOOLEAN /\ running \in TimerIds \cup {None}
  /\ outcome \in [TimerIds -> Outcomes]

\* The array holds exactly the allocated timers, each once: nothing freed is
\* still pointed to and nothing leaks (heap_timer.h:97-149).
OwnsItsTimers ==
  /\ {heap[i] : i \in DOMAIN heap} = DOMAIN timer
  /\ \A i, j \in DOMAIN heap : heap[i] = heap[j] => i = j

\* No timer is due before its parent, from the heapifying constructor on
\* (heap_timer.h:81-84, 109-118, 175-196): tick and the reactor's timeout look at
\* the top only.
HeapOrdered ==
  \A i \in (DOMAIN heap) \ {0} :
    timer[heap[(i - 1) \div 2]].expire <= timer[heap[i]].expire

\* The array is never written past its end (heap_timer.h:103-118).
FitsCapacity == cur_size <= capacity

\* All that tick and the destructor rely on: the array has room for, and holds,
\* exactly the timers allocated, the one due first on top.
HeapSound == TypeOK /\ OwnsItsTimers /\ HeapOrdered /\ FitsCapacity

\* The timer that pop_timer frees after a callback is the one whose callback ran,
\* although the callback may have added timers (heap_timer.h:164-168): every
\* timer that leaves ran once, or was deleted or popped by its owner before.
OneOutcome ==
  \A id \in TimerIds :
    /\ outcome[id] # "ran again"
    /\ id < issued /\ id \notin DOMAIN timer => outcome[id] # "none"
    /\ id \in DOMAIN timer /\ outcome[id] = "ran" => id = running

\* tick() returns only when nothing that was due when it read the clock is left,
\* not even what callbacks added meanwhile (heap_timer.h:150-171).
NothingDueLeft ==
  [][ticking /\ ~ticking' =>
       \A id \in DOMAIN timer' : timer'[id].expire > cur]_vars
===============================================================================
