------------------------------ MODULE WheelTimer ------------------------------
(***************************************************************************)
(* src/src/timer/wheel_timer.{h,cpp}: the hierarchical timing wheel.       *)
(*                                                                         *)
(* A timer lives in one of the lists of the wheel.  Lists are named by     *)
(* their ADDRESS, counted in lists from near_[0], because the code indexes *)
(* near_, declared with TVN_SIZE lists, by TVR_MASK: near_[TVN_SIZE + k]   *)
(* is the k-th list of buckets_[0], the member declared right after it.    *)
(* A list is kept as the set of the timers in it: no property depends on   *)
(* the order in which one tick runs its callbacks.                         *)
(***************************************************************************)
EXTENDS Integers, FiniteSets

CONSTANTS
  TVR_SIZE,    \* lists of the first level (256 in the code)
  TVN_SIZE,    \* lists of an upper level in use (64 in the code)
  TIME_UNIT,   \* clock units per tick (10000 usec in the code)
  Delays,      \* ms_time values callers pass to add_timer
  CbKinds,     \* whether a callback is callable: {TRUE} or BOOLEAN
  Elapsed,     \* clock movements between two updates, negative: set back
  MaxTimers,   \* bound: ids handed out
  Horizon,     \* bound: ticks the run lasts, every due time lies below it
  MaxBehind,   \* bound: how far the clock may be set back
  MaxCancels   \* bound: -size_ never grows past it

ASSUME WheelAssumption ==
  /\ TVN_SIZE \in Nat /\ TVN_SIZE >= 2
  /\ TVR_SIZE \in Nat /\ TVR_SIZE >= TVN_SIZE
  /\ TIME_UNIT \in Nat \ {0}
  /\ Delays \subseteq Nat
  /\ CbKinds \subseteq BOOLEAN
  /\ Elapsed \subseteq Int
  /\ MaxTimers \in Nat /\ Horizon \in Nat
  /\ MaxBehind \in Nat /\ MaxCancels \in Nat

VARIABLES
  alive,       \* the object is constructed
  jiffies,     \* jiffies_
  behind,      \* clock at the last update - current_
  ticks,       \* iterations of update's loop still to run
  slots,       \* near_ and buckets_: [address -> ids in that list]
  node,        \* the allocated TimerNodes, by timer_id
  ref,         \* keys of ref_ that map to a node ...
  nullref,     \* ... and keys that operator[] inserted with nullptr
  size,        \* size_
  counter,     \* counter_
  expired,     \* tick's local list, what is left to visit
  running,     \* id of the node whose callback is running, or None
  calls        \* [id -> callbacks started]: what the caller observes

wheel   == <<slots, node, ref, nullref, size, counter>>
loop    == <<jiffies, behind, ticks, expired, running, calls>>
vars    == <<alive, wheel, loop>>

None     == -1
TimerIds == 0 .. (MaxTimers - 1)

(***************************************************************************)
(* The lists and where a timer goes.                                       *)
(***************************************************************************)
WHEEL_BUCKETS == 4
Levels        == 0 .. (WHEEL_BUCKETS - 1)

Near(i)      == i
Bucket(b, i) == TVN_SIZE + b * TVR_SIZE + i
Addresses    == 0 .. (TVN_SIZE + WHEEL_BUCKETS * TVR_SIZE - 1)

\* 1 << (TVR_BITS + b * TVN_BITS): ticks one list of level b stands for
Span(b) == TVR_SIZE * (IF b = 0 THEN 1
                       ELSE IF b = 1 THEN TVN_SIZE
                       ELSE IF b = 2 THEN TVN_SIZE * TVN_SIZE
                       ELSE IF b = 3 THEN TVN_SIZE * TVN_SIZE * TVN_SIZE
                       ELSE TVN_SIZE * TVN_SIZE * TVN_SIZE * TVN_SIZE)

MAX_TVAL == Span(4) - 1

\* (t >> (TVR_BITS + b * TVN_BITS)) & TVN_MASK
IndexPos(t, b) == (t \div Span(b)) % TVN_SIZE

\* add_timernode: the list for a timer that expires at e, at jiffies_ = j
\* (idx > MAX_TVAL takes a delay longer than a uint32_t holds)
ListFor(e, j) ==
  LET idx     == e - j
      clamped == IF idx > MAX_TVAL THEN j + MAX_TVAL ELSE e
  IN IF idx < 0            THEN Near(j % TVR_SIZE)
     ELSE IF idx < Span(0) THEN Near(e % TVR_SIZE)
     ELSE IF idx < Span(1) THEN Bucket(0, IndexPos(e, 0))
     ELSE IF idx < Span(2) THEN Bucket(1, IndexPos(e, 1))
     ELSE IF idx < Span(3) THEN Bucket(2, IndexPos(e, 2))
     ELSE Bucket(3, IndexPos(clamped, 3))

\* Mutant of CascadeTimers: the list is walked without being swapped out.
CascadeTimersNoSwap(s, b, i) ==
  [a \in Addresses |->
     s[a] \cup {n \in s[Bucket(b, i)] : ListFor(node[n].expires, jiffies) = a}]

\* cascade_timers(b, i) on the lists s: empty that list, then add_timernode
\* each of its timers
CascadeTimers(s, b, i) ==
  LET from == Bucket(b, i)
  IN [a \in Addresses |->
        (IF a = from THEN {} ELSE s[a])
          \cup {n \in s[from] : ListFor(node[n].expires, jiffies) = a}]

\* The nested condition of tick(): level b + 1 cascades only when the index
\* of level b came round to 0.
CascadeFrom0(s) == CascadeTimers(s, 0, IndexPos(jiffies, 0))

\* Mutant of CascadeFrom1: level 1 never cascades.
CascadeFrom1Never(s) == s

CascadeFrom1(s) == IF IndexPos(jiffies, 0) = 0
                   THEN CascadeTimers(s, 1, IndexPos(jiffies, 1)) ELSE s
CascadeFrom2(s) == IF IndexPos(jiffies, 0) = 0 /\ IndexPos(jiffies, 1) = 0
                   THEN CascadeTimers(s, 2, IndexPos(jiffies, 2)) ELSE s
CascadeFrom3(s) == IF /\ IndexPos(jiffies, 0) = 0 /\ IndexPos(jiffies, 1) = 0
                      /\ IndexPos(jiffies, 2) = 0
                   THEN CascadeTimers(s, 3, IndexPos(jiffies, 3)) ELSE s
Cascade(s) == CascadeFrom3(CascadeFrom2(CascadeFrom1(CascadeFrom0(s))))

(***************************************************************************)
(* Construction and destruction.                                           *)
(***************************************************************************)
Init ==
  /\ alive = TRUE
  /\ jiffies = 0 /\ behind = 0 /\ ticks = 0
  /\ slots = [a \in Addresses |-> {}]
  /\ node = [n \in {} |-> 0]
  /\ ref = {} /\ nullref = {}
  /\ size = 0 /\ counter = 0
  /\ expired = {} /\ running = None
  /\ calls = [id \in TimerIds |-> 0]

\* update() is not on the stack
Idle == ticks = 0 /\ expired = {} /\ running = None

\* Callers run between updates or inside a callback.
CallerRuns == alive /\ (Idle \/ running # None)

InLists == UNION {slots[a] : a \in Addresses}

\* clear_all: near_ up to TVN_SIZE, then every list of every bucket
ClearedIds == InLists

\* free the nodes of S: [delete node]
Free(S) == node' = [n \in (DOMAIN node) \ S |-> node[n]]

\* ~wheel_timer: clear_all deletes what the lists hold and clears ref_
Destroy ==
  /\ alive /\ Idle
  /\ alive' = FALSE
  /\ Free(ClearedIds)
  /\ slots' = [a \in Addresses |-> {}]
  /\ ref' = {} /\ nullref' = {}
  /\ UNCHANGED <<size, counter, loop>>

(***************************************************************************)
(* The callers' operations.                                                *)
(***************************************************************************)
DueTick(ms_time) == jiffies + ms_time

AddTimer(ms_time, cb) ==
  /\ CallerRuns
  /\ counter < MaxTimers                 \* bound
  /\ jiffies + ms_time < Horizon         \* bound
  /\ LET expires == DueTick(ms_time)
         list    == ListFor(expires, jiffies)
     IN /\ node' = [n \in (DOMAIN node) \cup {counter} |->
                      IF n = counter
                      THEN [canceled |-> FALSE, expires |-> expires, cb |-> cb]
                      ELSE node[n]]
        /\ slots' = [slots EXCEPT ![list] = @ \cup {counter}]
  /\ ref' = ref \cup {counter}
  /\ nullref' = nullref \ {counter}
  /\ size' = size + 1
  /\ counter' = counter + 1
  /\ UNCHANGED <<alive, loop>>

\* cancel_timer of an id ref_ maps to a node: lazy, and counted every time
CancelKnown(id) ==
  /\ CallerRuns
  /\ id \in ref
  /\ size > -MaxCancels                  \* bound
  /\ node' = [n \in DOMAIN node |->
                IF n = id THEN [node[n] EXCEPT !.canceled = TRUE] ELSE node[n]]
  /\ size' = size - 1
  /\ UNCHANGED <<alive, slots, ref, nullref, counter, loop>>

\* cancel_timer of any other id: ref_[id] inserts a null entry
CancelUnknown(id) ==
  /\ CallerRuns
  /\ id \notin ref
  /\ nullref' = nullref \cup {id}
  /\ UNCHANGED <<alive, slots, node, ref, size, counter, loop>>

(***************************************************************************)
(* update() and its ticks.                                                 *)
(***************************************************************************)
\* The clock has moved by d since the last update; a clock set back, or less
\* than one tick, leaves current_ alone, otherwise the remainder is dropped.
Update(d) ==
  /\ alive /\ Idle
  /\ behind + d >= -MaxBehind            \* bound
  /\ LET late == behind + d
         n    == IF late < 0 THEN 0 ELSE late \div TIME_UNIT
     IN /\ jiffies + n <= Horizon        \* bound
        /\ ticks' = n
        /\ behind' = IF n > 0 THEN 0 ELSE late
  /\ UNCHANGED <<alive, wheel, jiffies, expired, running, calls>>

\* Mutant of Tick: jiffies_++ is forgotten.
TickUncounted ==
  /\ ticks > 0 /\ expired = {} /\ running = None
  /\ LET index == jiffies % TVR_SIZE
         s     == IF index = 0 THEN Cascade(slots) ELSE slots
     IN /\ expired' = s[Near(index)]
        /\ slots' = [s EXCEPT ![Near(index)] = {}]
  /\ ticks' = ticks - 1
  /\ UNCHANGED <<alive, node, ref, nullref, size, counter, behind, running,
                 calls, jiffies>>

Tick ==
  /\ ticks > 0 /\ expired = {} /\ running = None
  /\ LET index == jiffies % TVR_SIZE
         s     == IF index = 0 THEN Cascade(slots) ELSE slots
     IN /\ expired' = s[Near(index)]
        /\ slots' = [s EXCEPT ![Near(index)] = {}]
  /\ jiffies' = jiffies + 1
  /\ ticks' = ticks - 1
  /\ UNCHANGED <<alive, node, ref, nullref, size, counter, behind, running,
                 calls>>

\* Mutant of Runnable: the cancelled flag is not looked at.
RunnableAnyway(n) == node[n].cb

Runnable(n) == ~node[n].canceled /\ node[n].cb

EraseRef(n) == ref' = ref \ {n} /\ nullref' = nullref \ {n}

\* the loop visits n: node->cb() starts
StartCallback(n) ==
  /\ running = None
  /\ n \in expired
  /\ Runnable(n)
  /\ running' = n
  /\ expired' = expired \ {n}
  /\ calls' = [calls EXCEPT ![n] = @ + 1]
  /\ UNCHANGED <<alive, wheel, jiffies, behind, ticks>>

\* Mutant of CallbackReturns: size_-- is forgotten.
CallbackUncounted ==
  /\ running # None
  /\ EraseRef(running)
  /\ Free({running})
  /\ running' = None
  /\ UNCHANGED <<alive, slots, size, counter, jiffies, behind, ticks, expired,
                 calls>>

\* node->cb() returns: size_--, then the entry and the node go
CallbackReturns ==
  /\ running # None
  /\ size' = size - 1
  /\ EraseRef(running)
  /\ Free({running})
  /\ running' = None
  /\ UNCHANGED <<alive, slots, counter, jiffies, behind, ticks, expired, calls>>

\* the loop visits a cancelled node or one without a callable callback
SkipNode(n) ==
  /\ running = None
  /\ n \in expired
  /\ ~Runnable(n)
  /\ expired' = expired \ {n}
  /\ EraseRef(n)
  /\ Free({n})
  /\ UNCHANGED <<alive, slots, size, counter, jiffies, behind, ticks, running,
                 calls>>

Next ==
  \/ \E ms_time \in Delays, cb \in CbKinds : AddTimer(ms_time, cb)
  \/ \E id \in TimerIds : CancelKnown(id) \/ CancelUnknown(id)
  \/ \E d \in Elapsed : Update(d)
  \/ Tick
  \/ \E n \in expired : StartCallback(n) \/ SkipNode(n)
  \/ CallbackReturns
  \/ Destroy

Spec == Init /\ [][Next]_vars

(***************************************************************************)
(* Fairness: the owner keeps calling update() while the clock advances (the *)
(* loop of test/wheel_timer_test.cpp), update runs to its end once called,  *)
(* and callbacks return.  Nothing is assumed of callers.                    *)
(***************************************************************************)
UpdateTicks == (\E d \in Elapsed : Update(d)) /\ ticks' > 0
VisitNode   == \E n \in expired : StartCallback(n) \/ SkipNode(n)

Fairness == /\ WF_vars(UpdateTicks)
            /\ WF_vars(Tick)
            /\ WF_vars(VisitNode)
            /\ WF_vars(CallbackReturns)

FairSpec == Spec /\ Fairness

-------------------------------------------------------------------------------
(***************************************************************************)
(* Properties.                                                             *)
(***************************************************************************)
TypeOK ==
  /\ alive \in BOOLEAN
  /\ jiffies \in Nat /\ ticks \in Nat /\ behind \in Int
  /\ slots \in [Addresses -> SUBSET TimerIds]
  /\ DOMAIN node \subseteq TimerIds
  /\ \A n \in DOMAIN node :
       node[n] \in [canceled : BOOLEAN, expires : Nat, cb : BOOLEAN]
  /\ ref \subseteq TimerIds /\ nullref \subseteq TimerIds
  /\ size \in Int
  /\ counter \in 0 .. MaxTimers
  /\ expired \subseteq TimerIds
  /\ running \in TimerIds \cup {None}
  /\ calls \in [TimerIds -> Nat]

InCallback == IF running = None THEN {} ELSE {running}

\* Every allocated node is in exactly one place: one list of the wheel, the
\* list the current tick is visiting, or the callback now running; nothing
\* else holds a node.  A cascade that copied a list without emptying it, or a
\* visit that freed a node still listed, would free a node twice or use it
\* after the free (wheel_timer.cpp:153-197).
OneOwner ==
  /\ DOMAIN node = InLists \cup expired \cup InCallback
  /\ \A a, b \in Addresses : a # b => slots[a] \cap slots[b] = {}
  /\ InLists \cap expired = {}
  /\ running \notin InLists \cup expired

\* ref_ names exactly the allocated nodes, so cancel_timer never touches a
\* freed node and never misses a live one; null entries never shadow one
\* (wheel_timer.cpp:134, 142, 195).
RefExact == ref = DOMAIN node /\ nullref \cap ref = {}

\* No timer is left behind: between ticks every listed timer is due at the
\* next tick or later, whatever cascades and wrap-arounds of the index did to
\* it (wheel_timer.cpp:77-123, 169-178).
NeverLate ==
  /\ \A n \in InLists : node[n].expires >= jiffies
  /\ \A n \in expired \cup InCallback : node[n].expires >= jiffies - 1

\* Why NeverLate holds: a timer waits either in the first-level list of its own
\* due tick, or in a list of a level b that cascades at a tick t * Span(b) that
\* is still to come and not past the due tick (wheel_timer.cpp:77-123,
\* 153-178).  near_ overlapping buckets_[0] does not break it.
WaitsIn(e, a, j) ==
  \/ a = Near(e % TVR_SIZE)
  \/ \E b \in Levels, t \in 0 .. e :
       /\ a = Bucket(b, t % TVN_SIZE)
       /\ j <= t * Span(b) /\ t * Span(b) <= e

Placement ==
  \A a \in Addresses : \A n \in slots[a] :
    node[n].expires >= jiffies /\ WaitsIn(node[n].expires, a, jiffies)

\* A timer's callback is not started before its due tick: "add a timer to
\* schedule after ms milliseconds" (timer_base.h:20).  tick() has already
\* counted the tick it is processing.
NeverEarly == running # None => node[running].expires <= jiffies - 1

\* Once destroyed the wheel has freed every node: clear_all visits every list
\* although it counts near_ with TVN_SIZE and add_timernode fills it up to
\* TVR_MASK (wheel_timer.cpp:35-49).
NothingLeaks == ~alive => DOMAIN node = {}

\* Every node is accounted for at all times: it has one owner, ref_ finds
\* exactly the nodes there are, and a destroyed wheel has kept none
\* (wheel_timer.cpp:35-49, 134, 142, 153-197).
NodesAccounted == OneOwner /\ RefExact /\ NothingLeaks

\* Ids of the timers still to fire.
PendingIds == {n \in DOMAIN node : ~node[n].canceled /\ n # running}

\* size_ never counts more than the timers still to fire or firing, so a loop
\* "while (size() > 0) update()" ends (test/wheel_timer_test.cpp:29).  It holds
\* when every callback is callable (CbKinds = {TRUE}): a timer whose callback
\* is empty leaves without being counted off (wheel_timer.cpp:189-193).
SizeNeverOvercounts ==
  alive => size <= Cardinality(PendingIds \cup InCallback)

\* Every timer that is still to fire eventually fires, or is cancelled, or goes
\* down with the wheel.
EveryTimerLeaves == \A id \in TimerIds : id \in PendingIds ~> id \notin PendingIds

\* The wheel does what TimerService promises: the pending timers are the
\* allocated nodes that are neither cancelled nor running.
PendingView == [n \in PendingIds |-> [due |-> node[n].expires, cb |-> node[n].cb]]

Service == INSTANCE TimerService
             WITH Ids <- TimerIds, now <- jiffies, issued <- counter,
                  pending <- PendingView

\* At most one callback per id, none after a cancel, none lost, and the clock
\* never passes a pending timer: every step is a step of TimerService.
ImplementsTimerService == Service!Spec
===============================================================================
