----------------------------- MODULE TimerService -----------------------------
(***************************************************************************)
(* What a timer_base promises to the code that uses it, whatever structure *)
(* keeps the timers: ids are handed out once, a pending timer leaves the   *)
(* pending set exactly once (it fires, it is cancelled, or the service is  *)
(* destroyed), only a pending timer fires, so a callback never runs twice  *)
(* nor after a cancel, and the clock never leaves a due timer behind by    *)
(* more than the tick being processed.  Firing EARLY is not excluded here: *)
(* punctuality from below is a property of its own (WheelTimer!NeverEarly).*)
(***************************************************************************)
EXTENDS Integers

CONSTANTS
  Ids,        \* timer ids that may be handed out, an initial segment of Nat
  Delays      \* delays a caller may ask for, in ticks

VARIABLES
  now,        \* ticks counted so far
  issued,     \* number of ids handed out
  pending,    \* [id -> [due, cb]] of the timers still to fire
  calls       \* [id -> how many times its callback was started]

vars == <<now, issued, pending, calls>>

Init ==
  /\ now = 0
  /\ issued = 0
  /\ pending = [id \in {} |-> 0]
  /\ calls = [id \in Ids |-> 0]

\* pending without the timers of S
Without(S) == [id \in (DOMAIN pending) \ S |-> pending[id]]

Add(delay, cb) ==
  /\ issued \in Ids
  /\ pending' = [id \in (DOMAIN pending) \cup {issued} |->
                   IF id = issued THEN [due |-> now + delay, cb |-> cb]
                                  ELSE pending[id]]
  /\ issued' = issued + 1
  /\ UNCHANGED <<now, calls>>

Cancel(id) ==
  /\ id \in DOMAIN pending
  /\ pending' = Without({id})
  /\ UNCHANGED <<now, issued, calls>>

\* A timer with a callback leaves the pending set by starting it ...
Fire(id) ==
  /\ id \in DOMAIN pending
  /\ pending[id].cb
  /\ pending' = Without({id})
  /\ calls' = [calls EXCEPT ![id] = @ + 1]
  /\ UNCHANGED <<now, issued>>

\* ... and one that was given an empty callback by being dropped.
Drop(id) ==
  /\ id \in DOMAIN pending
  /\ ~pending[id].cb
  /\ pending' = Without({id})
  /\ UNCHANGED <<now, issued, calls>>

\* Time moves only when nothing due before the current tick is pending.
Advance ==
  /\ \A id \in DOMAIN pending : pending[id].due >= now
  /\ now' = now + 1
  /\ UNCHANGED <<issued, pending, calls>>

\* The owner destroys the service: what was pending will never fire.
Close ==
  /\ pending' = Without(DOMAIN pending)
  /\ UNCHANGED <<now, issued, calls>>

Next ==
  \/ \E delay \in Delays, cb \in BOOLEAN : Add(delay, cb)
  \/ \E id \in DOMAIN pending : Cancel(id) \/ Fire(id) \/ Drop(id)
  \/ Advance
  \/ Close

Spec == Init /\ [][Next]_vars
===============================================================================
