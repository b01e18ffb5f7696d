----------------------------- MODULE ReactorProofs -----------------------------
(***************************************************************************)
(* Proofs about Reactor for every set of handles, handlers and requests and *)
(* every bound: what dispatch relies on, which depends on the timers only   *)
(* in that their callbacks run while the loop is ticking; and at the end    *)
(* that the timers inside the reactor are TimeHeap's, and what the timeout  *)
(* of epoll_wait owes to them.                                              *)
(***************************************************************************)
EXTENDS Reactor, FiniteSetTheorems, SequenceTheorems, TLAPS

(***************************************************************************)
(* The inductive invariant.                                                *)
(***************************************************************************)
\* Each handler in the map is registered and is there under its own handle, and
\* epoll knows no handle without one.
MapInv ==
  /\ \A fd \in DOMAIN handlers : handlers[fd] \in registered
  /\ \A fd \in DOMAIN handlers : HandleOf[handlers[fd]] = fd
  /\ DOMAIN interest \subseteq DOMAIN handlers

\* There is a batch only while it is dispatched, a callback only for its first
\* event, and no handle is in it twice.
BatchInv ==
  /\ stage # "dispatching" => batch = <<>> /\ calling = "none"
  /\ calling # "none" => batch # <<>>
  /\ \A i, j \in DOMAIN batch : batch[i].fd = batch[j].fd => i = j

\* Until a callback removes a handler, every event to come has one.
Handled ==
  /\ died = "no" /\ ~removed => \A i \in DOMAIN batch : batch[i].fd \in DOMAIN handlers
  /\ DiesOnlyOfRemoval

\* What registrations are good for: an armed handle, and an event not yet
\* dispatched, are one callback each.
Armed(fd) == fd \in DOMAIN interest /\ interest[fd] # {}
Owed(fd)  == \E i \in DOMAIN batch : batch[i].fd = fd /\ (calling = "none" \/ i > 1)
Due(fd)   == (IF Armed(fd) THEN 1 ELSE 0) + (IF Owed(fd) THEN 1 ELSE 0)
CreditInv == \A fd \in Handles : credit[fd] >= Due(fd)

\* fd_num_ covers the interest list.
NumInv ==
  /\ fd_num \in Nat /\ closes \in Nat
  /\ IsFiniteSet(DOMAIN interest)
  /\ FdNumCovers

\* A timer's callback is on the stack only while the loop is ticking.
TimerInv == stage = "ticking" \/ (running = Timers!None /\ ~ticking)

IInv == /\ TypeOK /\ TimerInv /\ BatchInv /\ MapInv
        /\ Handled /\ CreditInv /\ NumInv

USE ReactorAssumption DEF ReactorAssumption

(***************************************************************************)
(* The steps that touch nothing of the reactor but the set of open handles  *)
(* and the timers.                                                         *)
(***************************************************************************)
QuietStep ==
  \/ \E fd \in Handles : Reopen(fd)
  \/ \E delay \in Delays : register_timertask(delay)
  \/ \E id \in Timers!TimerIds : forget_timer(id)
  \/ TickStep
  \/ \E d \in ClockMoves : ClockMoved(d)
  \/ UNCHANGED vars

Kept == <<handlers, fd_num, stage, batch, calling, died, interest, ready, credit,
          registered, removed, requests, closes>>

\* Neither opening a handle nor anything the timers do changes what is Kept.
LEMMA QuietKeeps ==
  ASSUME QuietStep
  PROVE  UNCHANGED Kept /\ (open \subseteq Handles => open' \subseteq Handles)
<1>1. ASSUME NEW fd \in Handles, Reopen(fd)
      PROVE  UNCHANGED Kept /\ (open \subseteq Handles => open' \subseteq Handles)
  BY <1>1 DEF Reopen, Kept, reactorVars, history
<1>2. CASE (\E delay \in Delays : register_timertask(delay))
           \/ (\E id \in Timers!TimerIds : forget_timer(id))
           \/ TickStep \/ \E d \in ClockMoves : ClockMoved(d)
  BY <1>2 DEF register_timertask, forget_timer, TickStep, ClockMoved, Kept,
              reactorVars, kernelVars, history
<1>3. CASE UNCHANGED vars
  BY <1>3 DEF Kept, vars, reactorVars, kernelVars, history
<1> QED
  BY <1>1, <1>2, <1>3 DEF QuietStep

\* Entering and erasing a handler, and disarming handles, handle by handle.
LEMMA Entered ==
  ASSUME NEW h \in Handlers, handlers' = Enter(h)
  PROVE  /\ HandleOf[h] \in Handles
         /\ DOMAIN handlers' = (DOMAIN handlers) \cup {HandleOf[h]}
         /\ \A fd \in DOMAIN handlers' :
              handlers'[fd] = IF fd \in DOMAIN handlers THEN handlers[fd] ELSE h
  BY DEF Enter

\* Erasing a handler, handle by handle.
LEMMA Erased ==
  ASSUME NEW gone, handlers' = Erase(gone)
  PROVE  /\ DOMAIN handlers' = (DOMAIN handlers) \ {gone}
         /\ \A fd \in DOMAIN handlers' : handlers'[fd] = handlers[fd]
  BY DEF Erase

\* Disarming handles, handle by handle.
LEMMA DisarmedHandles ==
  ASSUME NEW S, interest' = Disarmed(S)
  PROVE  /\ DOMAIN interest' = DOMAIN interest
         /\ \A fd \in DOMAIN interest :
              interest'[fd] = IF fd \in S THEN {} ELSE interest[fd]
  BY DEF Disarmed

\* The handlers, the handles and the events that a type invariant speaks of.
HandlersType == /\ DOMAIN handlers \subseteq Handles
                /\ \A fd \in DOMAIN handlers : handlers[fd] \in Handlers
InterestType == /\ DOMAIN interest \subseteq Handles
                /\ \A fd \in DOMAIN interest : interest[fd] \subseteq Events
BatchType    == batch \in Seq([fd : Handles, events : SUBSET Events])
ReadyType    == ready \in [Handles -> SUBSET Events]
CreditType   == credit \in [Handles -> Int]
ScalarType   ==
  /\ fd_num \in Nat
  /\ stage \in {"idle", "waiting", "dispatching", "ticking"}
  /\ calling \in {"none", "handle_read", "handle_write", "handle_error"}
  /\ died \in {"no", "destroyed", "assert", "null handler"}
  /\ open \subseteq Handles
  /\ registered \subseteq Handlers /\ removed \in BOOLEAN
  /\ requests \in Nat /\ closes \in Nat

\* The parts of the type invariant; the same in the next state below.
LEMMA TypeParts ==
  TypeOK <=> /\ HandlersType /\ InterestType /\ BatchType
             /\ ReadyType /\ CreditType /\ ScalarType
  BY DEF TypeOK, HandlersType, InterestType, BatchType, ReadyType, CreditType,
         ScalarType

\* The parts of the type invariant in the next state.
LEMMA TypePartsPrime ==
  TypeOK' <=> /\ HandlersType' /\ InterestType' /\ BatchType'
              /\ ReadyType' /\ CreditType' /\ ScalarType'
  BY DEF TypeOK, HandlersType, InterestType, BatchType, ReadyType, CreditType,
         ScalarType

\* What dispatch reads of the first event has its type.
LEMMA FirstReported ==
  ASSUME BatchType, batch # <<>>
  PROVE fd_0 \in Handles /\ events_0 \subseteq Events
<1>1. Head(batch) \in [fd : Handles, events : SUBSET Events]
  BY HeadTailProperties DEF BatchType
<1> QED
  BY <1>1 DEF fd_0, events_0

\* A handler that reads or writes keeps readiness typed.
LEMMA UsedType ==
  ASSUME NEW e, BatchType, ReadyType, batch # <<>>, Used(e)
  PROVE ReadyType'
<1>1. CASE ready' = ready
  BY <1>1 DEF ReadyType
<1>2. CASE ready' = [ready EXCEPT ![fd_0] = @ \ e]
  <2>1. fd_0 \in Handles
    BY FirstReported
  <2>2. ready[fd_0] \ e \in SUBSET Events
    BY <2>1 DEF ReadyType
  <2> QED
    BY <1>2, <2>1, <2>2 DEF ReadyType
<1> QED
  BY <1>1, <1>2 DEF Used

\* fd_num_ never gets negative, by request_event or by unrequest_event.
LEMMA CountedType ==
  ASSUME NEW fd, NumInv
  PROVE Counted(fd) \in Nat /\ Uncounted(fd) \in Nat
<1>1. CASE fd \in DOMAIN interest
  <2>1. Cardinality(DOMAIN interest) # 0
    BY <1>1, FS_EmptySet DEF NumInv
  <2>2. Cardinality(DOMAIN interest) \in Nat
    BY FS_CardinalityType DEF NumInv
  <2> QED
    BY <1>1, <2>1, <2>2 DEF Counted, Uncounted, NumInv, FdNumCovers
<1>2. CASE fd \notin DOMAIN interest
  BY <1>2 DEF Counted, Uncounted, NumInv
<1> QED
  BY <1>1, <1>2

\* The events of a batch and of what is left of it when the first is dispatched.
LEMMA TailHandles ==
  ASSUME TypeOK, batch # <<>>
  PROVE  /\ 1 \in DOMAIN batch /\ fd_0 = batch[1].fd
         /\ \A i \in DOMAIN Tail(batch) :
              i \in Nat /\ i > 0 /\ i + 1 \in DOMAIN batch /\ Tail(batch)[i] = batch[i + 1]
         /\ \A i \in DOMAIN batch : i \in Nat /\ i > 0 /\ (i > 1 => i - 1 \in DOMAIN Tail(batch))
  BY TypeParts DEF BatchType, fd_0

\* EPOLL_CTL_ADD keeps fd_num_ covering the interest list.
LEMMA Added ==
  ASSUME NumInv, NEW fd, fd_num' = Counted(fd), closes' = closes,
         DOMAIN interest' = (DOMAIN interest) \cup {fd}
  PROVE  NumInv'
<1> DEFINE n == Cardinality(DOMAIN interest)
<1>1. n \in Nat /\ n <= fd_num /\ fd_num <= n + closes /\ fd_num \in Nat /\ closes \in Nat
  BY FS_CardinalityType DEF NumInv, FdNumCovers
<1>2. /\ IsFiniteSet(DOMAIN interest')
      /\ Cardinality(DOMAIN interest') = IF fd \in DOMAIN interest THEN n ELSE n + 1
  BY FS_AddElement DEF NumInv
<1>3. fd_num' = IF fd \in DOMAIN interest THEN fd_num ELSE fd_num + 1
  BY DEF Counted
<1> QED
  BY <1>1, <1>2, <1>3 DEF NumInv, FdNumCovers

\* EPOLL_CTL_DEL keeps fd_num_ covering the interest list.
LEMMA Deleted ==
  ASSUME NumInv, NEW fd, fd_num' = Uncounted(fd), closes' = closes,
         DOMAIN interest' = (DOMAIN interest) \ {fd}
  PROVE  NumInv'
<1> DEFINE n == Cardinality(DOMAIN interest)
<1>1. n \in Nat /\ n <= fd_num /\ fd_num <= n + closes /\ fd_num \in Nat /\ closes \in Nat
  BY FS_CardinalityType DEF NumInv, FdNumCovers
<1>2. /\ IsFiniteSet(DOMAIN interest')
      /\ Cardinality(DOMAIN interest') = IF fd \in DOMAIN interest THEN n - 1 ELSE n
  BY FS_RemoveElement DEF NumInv
<1>3. Cardinality(DOMAIN interest') \in Nat
  BY <1>2, FS_CardinalityType
<1>4. fd_num' = IF fd \in DOMAIN interest THEN fd_num - 1 ELSE fd_num
  BY DEF Uncounted
<1> QED
  BY <1>1, <1>2, <1>3, <1>4 DEF NumInv, FdNumCovers

\* A handle closed behind the reactor's back leaves one counted too many.
LEMMA Dropped ==
  ASSUME NumInv, NEW fd, fd_num' = fd_num, closes' = closes + 1,
         DOMAIN interest' = (DOMAIN interest) \ {fd}
  PROVE  NumInv'
<1> DEFINE n == Cardinality(DOMAIN interest)
<1>1. n \in Nat /\ n <= fd_num /\ fd_num <= n + closes /\ fd_num \in Nat /\ closes \in Nat
  BY FS_CardinalityType DEF NumInv, FdNumCovers
<1>2. /\ IsFiniteSet(DOMAIN interest')
      /\ Cardinality(DOMAIN interest') = IF fd \in DOMAIN interest THEN n - 1 ELSE n
  BY FS_RemoveElement DEF NumInv
<1>3. Cardinality(DOMAIN interest') \in Nat
  BY <1>2, FS_CardinalityType
<1> QED
  BY <1>1, <1>2, <1>3 DEF NumInv, FdNumCovers

\* At most two callbacks are due for a handle.
LEMMA DueType == \A f \in Handles : Due(f) \in Nat /\ Due(f)' \in Nat
  BY DEF Due

\* Disarming handles makes no callback due.
LEMMA FewerDue ==
  ASSUME CreditInv, TypeOK, UNCHANGED <<batch, calling, credit>>,
      \A f \in Handles : Armed(f)' => Armed(f)
  PROVE  CreditInv'
<1>1. \A f \in Handles : Owed(f)' <=> Owed(f)
  BY DEF Owed
<1>2. \A f \in Handles : credit[f] \in Int
  BY DEF TypeOK
<1> QED
  BY <1>1, <1>2 DEF CreditInv, Due

\* Every step keeps the types.
LEMMA TypeStep ==
  ASSUME TypeOK, BatchInv, NumInv, [Next]_vars
  PROVE  TypeOK'
<1>0. /\ HandlersType /\ InterestType /\ BatchType
      /\ ReadyType /\ CreditType /\ ScalarType
  BY TypeParts
<1>1. ASSUME NEW h \in Handlers, NEW evt \in Requests, register_handler(h, evt)
      PROVE  TypeOK'
  <2>1. HandleOf[h] \in Handles
    OBVIOUS
  <2>2. handlers' = Enter(h)
    BY <1>1 DEF register_handler
  <2>3. /\ DOMAIN handlers' = (DOMAIN handlers) \cup {HandleOf[h]}
        /\ \A fd \in DOMAIN handlers' :
             handlers'[fd] = IF fd \in DOMAIN handlers THEN handlers[fd] ELSE h
    BY <2>2, Entered
  <2>4. HandlersType'
    BY <1>0, <2>3 DEF HandlersType
  <2>5. interest' = [f \in (DOMAIN interest) \cup {HandleOf[h]} |->
                       IF f = HandleOf[h] THEN evt \cup {"err"} ELSE interest[f]]
    BY <1>1 DEF register_handler
  <2>6. evt \cup {"err"} \subseteq Events
    BY DEF Events
  <2>7. InterestType'
    BY <1>0, <2>1, <2>5, <2>6 DEF InterestType
  <2>8. fd_num' = Counted(HandleOf[h]) /\ registered' = registered \cup {h} /\ requests' = requests + 1
    BY <1>1 DEF register_handler
  <2>9. CreditType'
    BY <1>1, <1>0 DEF CreditType, register_handler
  <2>10. UNCHANGED <<stage, timeout, deadline, batch, calling, died, open, ready,
      removed, closes>>
    BY <1>1 DEF register_handler
  <2>11. BatchType' /\ ReadyType'
    BY <1>0, <2>10 DEF BatchType, ReadyType
  <2>12. fd_num' \in Nat
    BY <2>8, CountedType
  <2>13. requests' \in Nat
    <3>1. requests \in Nat
      BY <1>0 DEF ScalarType
    <3> QED
      BY <2>8, <3>1
  <2>14. registered' \subseteq Handlers
    BY <1>0, <2>8 DEF ScalarType
  <2>15. ScalarType'
    BY <1>0, <2>10, <2>12, <2>13, <2>14 DEF ScalarType
  <2> QED
    BY <2>4, <2>7, <2>9, <2>11, <2>15, TypePartsPrime
<1>2. ASSUME NEW h \in Handlers, register_fails(h)
      PROVE  TypeOK'
  <2>1. handlers' = Enter(h) /\ registered' = registered \cup {h}
    BY <1>2 DEF register_fails
  <2>2. /\ DOMAIN handlers' = (DOMAIN handlers) \cup {HandleOf[h]}
        /\ \A fd \in DOMAIN handlers' :
             handlers'[fd] = IF fd \in DOMAIN handlers THEN handlers[fd] ELSE h
    BY <2>1, Entered
  <2>3. HandlersType'
    BY <1>0, <2>2 DEF HandlersType
  <2>4. UNCHANGED <<fd_num, stage, timeout, deadline, batch, calling, died,
      kernelVars, credit, removed, requests, closes>>
    BY <1>2 DEF register_fails
  <2>5. BatchType' /\ ReadyType' /\ CreditType' /\ InterestType'
    BY <1>0, <2>4 DEF BatchType, ReadyType, CreditType, InterestType, kernelVars
  <2>6. ScalarType'
    BY <1>0, <2>1, <2>4 DEF ScalarType, kernelVars
  <2> QED
    BY <2>3, <2>5, <2>6, TypePartsPrime
<1>3. ASSUME NEW h \in Handlers, remove_handler(h)
      PROVE  TypeOK'
  <2>1. handlers' = Erase(HandleOf[h])
    BY <1>3 DEF remove_handler
  <2>2. HandlersType'
    BY <1>0, <2>1, Erased DEF HandlersType
  <2>3. interest' = [f \in (DOMAIN interest) \ {HandleOf[h]} |-> interest[f]]
    BY <1>3 DEF remove_handler
  <2>4. InterestType'
    BY <1>0, <2>3 DEF InterestType
  <2>5. fd_num' = Uncounted(HandleOf[h]) /\ registered' = registered \ {h}
    BY <1>3 DEF remove_handler
  <2>6. removed' \in BOOLEAN
    BY <1>3 DEF remove_handler
  <2>7. UNCHANGED <<stage, timeout, deadline, batch, calling, died, open, ready,
      credit, requests, closes>>
    BY <1>3 DEF remove_handler
  <2>8. BatchType' /\ ReadyType' /\ CreditType'
    BY <1>0, <2>7 DEF BatchType, ReadyType, CreditType
  <2>9. ScalarType'
    BY <1>0, <2>5, <2>6, <2>7, CountedType DEF ScalarType
  <2> QED
    BY <2>2, <2>4, <2>8, <2>9, TypePartsPrime
<1>4. ASSUME NEW fd \in Handles, Close(fd)
      PROVE  TypeOK'
  <2>1. interest' = [f \in (DOMAIN interest) \ {fd} |-> interest[f]]
    BY <1>4 DEF Close
  <2>2. InterestType'
    BY <1>0, <2>1 DEF InterestType
  <2>3. open' = open \ {fd} /\ closes' = closes + 1
    BY <1>4 DEF Close
  <2>4. ReadyType'
    BY <1>4, <1>0 DEF Close, ReadyType
  <2>5. UNCHANGED <<handlers, fd_num, stage, timeout, deadline, batch, calling,
                    died, credit, registered, removed, requests>>
    BY <1>4 DEF Close, reactorVars
  <2>6. HandlersType' /\ BatchType' /\ CreditType'
    BY <1>0, <2>5 DEF HandlersType, BatchType, CreditType
  <2>7. ScalarType'
    <3>0. closes \in Nat
      BY <1>0 DEF ScalarType
    <3>1. closes' \in Nat
      BY <2>3, <3>0
    <3>2. open' \subseteq Handles
      BY <1>0, <2>3 DEF ScalarType
    <3> QED
      BY <1>0, <2>5, <3>1, <3>2 DEF ScalarType
  <2> QED
    BY <2>2, <2>4, <2>6, <2>7, TypePartsPrime
<1>5. ASSUME Destroy
      PROVE  TypeOK'
  BY <1>5 DEF Destroy, TypeOK, history
<1>6. ASSUME handle_events
      PROVE  TypeOK'
  <2>1. /\ stage' = "waiting" /\ removed' = FALSE
        /\ deadline' = clock + (timeout' + SECOND - 1) \div SECOND
        /\ UNCHANGED <<handlers, fd_num, batch, calling, died, kernelVars, credit,
                       registered, requests, closes>>
    BY <1>6 DEF handle_events
  <2>2. HandlersType' /\ BatchType' /\ CreditType' /\ ReadyType' /\ InterestType'
    BY <1>0, <2>1
    DEF HandlersType, InterestType, BatchType, CreditType, ReadyType, kernelVars
  <2>3. ScalarType'
    BY <1>0, <2>1 DEF ScalarType, kernelVars
  <2> QED
    BY <2>2, <2>3, TypePartsPrime
<1>7. ASSUME WaitReturnsEvents
      PROVE  TypeOK'
  <2>1. PICK order \in Orders(Reportable, Room) :
          /\ batch' = [i \in 1 .. Room |-> [fd |-> order[i],
              events |-> Reported(order[i])]]
          /\ interest' = Disarmed({order[i] : i \in 1 .. Room})
    BY <1>7 DEF WaitReturnsEvents
  <2>2. InterestType'
    BY <1>0, <2>1, DisarmedHandles DEF InterestType
  <2>3. Room \in Nat
    <3>1. IsFiniteSet(Reportable)
      BY FS_Subset DEF NumInv, Reportable
    <3> QED
      BY <1>0, <3>1, FS_CardinalityType DEF Room, ScalarType
  <2>4. \A i \in 1 .. Room : order[i] \in Handles /\ Reported(order[i]) \in SUBSET Events
    BY <1>0 DEF Orders, Reportable, Reported, InterestType
  <2>5. batch' \in [1 .. Room -> [fd : Handles, events : SUBSET Events]]
    BY <2>1, <2>4
  <2> DEFINE S == [fd : Handles, events : SUBSET Events]
  <2>6. BatchType'
    <3>1. [1 .. Room -> S] \in {[1 .. n -> S] : n \in Nat}
      BY <2>3
    <3>2. batch' \in UNION {[1 .. n -> S] : n \in Nat}
      BY <2>5, <3>1
    <3> QED
      BY <3>2, SeqDef DEF BatchType
  <2>7. UNCHANGED <<handlers, fd_num, timeout, deadline, calling, died, open,
      ready, history>>
        /\ stage' = "dispatching"
    BY <1>7 DEF WaitReturnsEvents
  <2>8. HandlersType' /\ CreditType' /\ ReadyType'
    BY <1>0, <2>7 DEF HandlersType, CreditType, ReadyType, history
  <2>9. ScalarType'
    BY <1>0, <2>7 DEF ScalarType, history
  <2> QED
    BY <2>2, <2>6, <2>8, <2>9, TypePartsPrime
<1>8. ASSUME WaitTimesOut
      PROVE  TypeOK'
  BY <1>8 DEF WaitTimesOut, TypeOK, kernelVars, history
<1>9. ASSUME NEW signalled \in BOOLEAN, WaitFails(signalled)
      PROVE  TypeOK'
  BY <1>9 DEF WaitFails, TypeOK, kernelVars, history
<1>10. ASSUME DispatchEvent
      PROVE  TypeOK'
  <2>1. batch # <<>>
    BY <1>10 DEF DispatchEvent
  <2>2. UNCHANGED <<handlers, fd_num, stage, timeout, deadline, batch, open,
                 interest, registered, removed, requests, closes>>
    BY <1>10 DEF DispatchEvent
  <2>3. HandlersType' /\ InterestType' /\ BatchType'
    BY <1>0, <2>2 DEF HandlersType, InterestType, BatchType
  <2>4. CASE UNCHANGED <<calling, ready, credit>> /\ died' = "assert"
    <3>1. CreditType' /\ ReadyType' /\ ScalarType'
      BY <1>0, <2>2, <2>4 DEF CreditType, ReadyType, ScalarType
    <3> QED
      BY <2>3, <3>1, TypePartsPrime
  <2>5. ASSUME NEW name \in {"handle_read", "handle_write", "handle_error"}, NEW e,
               Call(name, e), credit' = [credit EXCEPT ![fd_0] = @ - 1]
        PROVE  TypeOK'
    <3>1. fd_0 \in Handles
      BY <1>0, <2>1, FirstReported
    <3>2. credit[fd_0] - 1 \in Int
      BY <1>0, <3>1 DEF CreditType
    <3>3. CreditType'
      BY <1>0, <2>5, <3>1, <3>2 DEF CreditType
    <3>4. ReadyType'
      BY <1>0, <2>1, <2>5, UsedType DEF Call
    <3>5. ScalarType'
      BY <1>0, <2>2, <2>5 DEF Call, ScalarType
    <3> QED
      BY <2>3, <3>3, <3>4, <3>5, TypePartsPrime
  <2> QED
    BY <1>10, <2>4, <2>5 DEF DispatchEvent
<1>11. ASSUME HandlerWritesToo
      PROVE  TypeOK'
  <2>1. batch # <<>>
    BY <1>11 DEF HandlerWritesToo, WriteFollows, BatchInv
  <2>2. UNCHANGED <<handlers, fd_num, stage, timeout, deadline, batch, open,
      interest, history>>
    BY <1>11 DEF HandlerWritesToo
  <2>3. HandlersType' /\ InterestType' /\ BatchType' /\ CreditType'
    BY <1>0, <2>2 DEF HandlersType, InterestType, BatchType, CreditType, history
  <2>4. ReadyType'
    BY <1>11, <1>0, <2>1, UsedType DEF HandlerWritesToo, Call, ReadyType
  <2>5. ScalarType'
    BY <1>11, <1>0, <2>2 DEF HandlerWritesToo, Call, ScalarType, history
  <2> QED
    BY <2>3, <2>4, <2>5, TypePartsPrime
<1>12. ASSUME HandlerReturns
      PROVE  TypeOK'
  <2>1. batch # <<>>
    BY <1>12 DEF HandlerReturns, InHandler, BatchInv
  <2>2. batch' = Tail(batch) /\ calling' = "none"
        /\ UNCHANGED <<handlers, fd_num, stage, timeout, deadline, died,
            kernelVars, history>>
    BY <1>12 DEF HandlerReturns
  <2>3. BatchType'
    BY <1>0, <2>1, <2>2 DEF BatchType
  <2>4. HandlersType' /\ InterestType' /\ CreditType' /\ ReadyType'
    BY <1>0, <2>2
    DEF HandlersType, InterestType, CreditType, ReadyType, kernelVars, history
  <2>5. ScalarType'
    BY <1>0, <2>2 DEF ScalarType, kernelVars, history
  <2> QED
    BY <2>3, <2>4, <2>5, TypePartsPrime
<1>13. ASSUME BeginTick
      PROVE  TypeOK'
  BY <1>13 DEF BeginTick, TypeOK, kernelVars, history
<1>14. ASSUME EndTick
      PROVE  TypeOK'
  BY <1>14 DEF EndTick, TypeOK, kernelVars, history
<1>15. ASSUME NEW fd \in Handles, NEW e \in Arrivals, Arrive(fd, e)
      PROVE  TypeOK'
  BY <1>15 DEF Arrive, TypeOK, reactorVars, history
<1>16. ASSUME QuietStep
      PROVE  TypeOK'
  BY <1>16, QuietKeeps DEF Kept, TypeOK
<1> QED
  BY <1>1, <1>2, <1>3, <1>4, <1>5, <1>6, <1>7, <1>8, <1>9, <1>10, <1>11, <1>12,
     <1>13, <1>14, <1>15, <1>16
  DEF Next, Program, Loop, QuietStep

\* Every step keeps the callbacks of timers inside the tick.
LEMMA TimerStep ==
  ASSUME TimerInv, [Next]_vars
  PROVE  TimerInv'
<1>1. ASSUME NEW h \in Handlers, NEW evt \in Requests, register_handler(h, evt)
      PROVE  TimerInv'
  BY <1>1 DEF register_handler, TimerInv, timerVars
<1>2. ASSUME NEW h \in Handlers, register_fails(h)
      PROVE  TimerInv'
  BY <1>2 DEF register_fails, TimerInv, timerVars
<1>3. ASSUME NEW h \in Handlers, remove_handler(h)
      PROVE  TimerInv'
  BY <1>3 DEF remove_handler, TimerInv, timerVars
<1>4. ASSUME NEW fd \in Handles, Close(fd)
      PROVE  TimerInv'
  BY <1>4 DEF Close, TimerInv, timerVars, reactorVars
<1>5. ASSUME Destroy
      PROVE  TimerInv'
  BY <1>5 DEF Destroy, TimerInv, timerVars
<1>6. ASSUME handle_events
      PROVE  TimerInv'
  BY <1>6 DEF handle_events, TimerInv, timerVars
<1>7. ASSUME WaitReturnsEvents
      PROVE  TimerInv'
  BY <1>7 DEF WaitReturnsEvents, TimerInv, timerVars
<1>8. ASSUME WaitTimesOut
      PROVE  TimerInv'
  BY <1>8 DEF WaitTimesOut, TimerInv, timerVars
<1>9. ASSUME NEW signalled \in BOOLEAN, WaitFails(signalled)
      PROVE  TimerInv'
  BY <1>9 DEF WaitFails, TimerInv, timerVars
<1>10. ASSUME DispatchEvent
      PROVE  TimerInv'
  BY <1>10 DEF DispatchEvent, TimerInv, timerVars
<1>11. ASSUME HandlerWritesToo
      PROVE  TimerInv'
  BY <1>11 DEF HandlerWritesToo, TimerInv, timerVars
<1>12. ASSUME HandlerReturns
      PROVE  TimerInv'
  BY <1>12 DEF HandlerReturns, TimerInv, timerVars
<1>13. ASSUME BeginTick
      PROVE  TimerInv'
  BY <1>13 DEF BeginTick, TimerInv
<1>14. ASSUME EndTick
      PROVE  TimerInv'
  BY <1>14 DEF EndTick, TimerInv, Timers!EndTick
<1>15. ASSUME NEW fd \in Handles, NEW e \in Arrivals, Arrive(fd, e)
      PROVE  TimerInv'
  BY <1>15 DEF Arrive, TimerInv, timerVars, reactorVars
<1>16. ASSUME QuietStep
      PROVE  TimerInv'
  <2>1. stage' = stage
    BY <1>16, QuietKeeps DEF Kept
  <2>2. CASE stage = "ticking"
    BY <2>1, <2>2 DEF TimerInv
  <2>3. CASE stage # "ticking"
    <3>1. running = Timers!None /\ ~ticking
      BY <2>3 DEF TimerInv
    <3>2. UNCHANGED <<running, ticking>>
      <4>1. CASE TickStep
        BY <3>1, <4>1
        DEF TickStep, Timers!RunTop, Timers!CallbackReturns, Timers!DropTop
      <4>2. CASE UNCHANGED vars
        BY <4>2 DEF vars, timerVars
      <4>3. CASE \E fd \in Handles : Reopen(fd)
        BY <4>3 DEF Reopen, timerVars
      <4>4. CASE (\E delay \in Delays : register_timertask(delay))
                 \/ (\E id \in Timers!TimerIds : forget_timer(id))
                 \/ \E d \in ClockMoves : ClockMoved(d)
        BY <4>4 DEF register_timertask, forget_timer, ClockMoved, Timers!add_timer,
                    Timers!del_timer, Timers!ClockMoved
      <4> QED
        BY <1>16, <4>1, <4>2, <4>3, <4>4 DEF QuietStep
    <3> QED
      BY <2>1, <3>1, <3>2 DEF TimerInv
  <2> QED
    BY <2>2, <2>3
<1> QED
  BY <1>1, <1>2, <1>3, <1>4, <1>5, <1>6, <1>7, <1>8, <1>9, <1>10, <1>11, <1>12,
     <1>13, <1>14, <1>15, <1>16
  DEF Next, Program, Loop, QuietStep

\* Every step keeps the batch in order.
LEMMA BatchStep ==
  ASSUME TypeOK, TimerInv, BatchInv, [Next]_vars
  PROVE  BatchInv'
<1>1. ASSUME NEW h \in Handlers, NEW evt \in Requests, register_handler(h, evt)
      PROVE  BatchInv'
  BY <1>1 DEF register_handler, BatchInv
<1>2. ASSUME NEW h \in Handlers, register_fails(h)
      PROVE  BatchInv'
  BY <1>2 DEF register_fails, BatchInv
<1>3. ASSUME NEW h \in Handlers, remove_handler(h)
      PROVE  BatchInv'
  BY <1>3 DEF remove_handler, BatchInv
<1>4. ASSUME NEW fd \in Handles, Close(fd)
      PROVE  BatchInv'
  BY <1>4 DEF Close, BatchInv, reactorVars
<1>5. ASSUME Destroy
      PROVE  BatchInv'
  BY <1>5 DEF Destroy, BatchInv
<1>6. ASSUME handle_events
      PROVE  BatchInv'
  BY <1>6 DEF handle_events, BatchInv
<1>7. ASSUME WaitReturnsEvents
      PROVE  BatchInv'
  <2>1. PICK order \in Orders(Reportable, Room) :
          batch' = [i \in 1 .. Room |-> [fd |-> order[i],
              events |-> Reported(order[i])]]
    BY <1>7 DEF WaitReturnsEvents
  <2>2. \A i, j \in 1 .. Room : order[i] = order[j] => i = j
    BY DEF Orders
  <2>3. DOMAIN batch' = 1 .. Room /\ \A i \in 1 .. Room : batch'[i].fd = order[i]
    BY <2>1
  <2>4. stage' = "dispatching" /\ calling' = "none"
    BY <1>7 DEF WaitReturnsEvents, BatchInv
  <2> QED
    BY <2>2, <2>3, <2>4 DEF BatchInv
<1>8. ASSUME WaitTimesOut
      PROVE  BatchInv'
  BY <1>8 DEF WaitTimesOut, BatchInv
<1>9. ASSUME NEW signalled \in BOOLEAN, WaitFails(signalled)
      PROVE  BatchInv'
  BY <1>9 DEF WaitFails, BatchInv
<1>10. ASSUME DispatchEvent
      PROVE  BatchInv'
  BY <1>10 DEF DispatchEvent, BatchInv
<1>11. ASSUME HandlerWritesToo
      PROVE  BatchInv'
  BY <1>11 DEF HandlerWritesToo, BatchInv, WriteFollows
<1>12. ASSUME HandlerReturns
      PROVE  BatchInv'
  <2>1. batch # <<>> /\ stage = "dispatching"
    BY <1>12 DEF HandlerReturns, InHandler, BatchInv
  <2>2. batch' = Tail(batch) /\ calling' = "none" /\ stage' = stage
    BY <1>12 DEF HandlerReturns
  <2>3. \A i \in DOMAIN batch' : i + 1 \in DOMAIN batch /\ batch'[i] = batch[i + 1] /\ i \in Nat
    BY <2>1, <2>2, TailHandles
  <2> QED
    BY <2>1, <2>2, <2>3 DEF BatchInv
<1>13. ASSUME BeginTick
      PROVE  BatchInv'
  BY <1>13 DEF BeginTick, BatchInv
<1>14. ASSUME EndTick
      PROVE  BatchInv'
  BY <1>14 DEF EndTick, TimerInv, Timers!EndTick, BatchInv
<1>15. ASSUME NEW fd \in Handles, NEW e \in Arrivals, Arrive(fd, e)
      PROVE  BatchInv'
  BY <1>15 DEF Arrive, BatchInv, reactorVars
<1>16. ASSUME QuietStep
      PROVE  BatchInv'
  BY <1>16, QuietKeeps DEF Kept, BatchInv
<1> QED
  BY <1>1, <1>2, <1>3, <1>4, <1>5, <1>6, <1>7, <1>8, <1>9, <1>10, <1>11, <1>12,
     <1>13, <1>14, <1>15, <1>16
  DEF Next, Program, Loop, QuietStep

\* Every step keeps the map and the interest list together.
LEMMA MapStep ==
  ASSUME TypeOK, MapInv, [Next]_vars
  PROVE  MapInv'
<1>1. ASSUME NEW h \in Handlers, NEW evt \in Requests, register_handler(h, evt)
      PROVE  MapInv'
  <2>1. handlers' = Enter(h) /\ registered' = registered \cup {h}
        /\ DOMAIN interest' = (DOMAIN interest) \cup {HandleOf[h]}
    BY <1>1 DEF register_handler
  <2>2. /\ DOMAIN handlers' = (DOMAIN handlers) \cup {HandleOf[h]}
        /\ \A fd \in DOMAIN handlers' :
             handlers'[fd] = IF fd \in DOMAIN handlers THEN handlers[fd] ELSE h
    BY <2>1, Entered
  <2> QED
    BY <2>1, <2>2 DEF MapInv
<1>2. ASSUME NEW h \in Handlers, register_fails(h)
      PROVE  MapInv'
  BY <1>2 DEF register_fails, MapInv, Enter, kernelVars
<1>3. ASSUME NEW h \in Handlers, remove_handler(h)
      PROVE  MapInv'
  <2>1. handlers' = Erase(HandleOf[h]) /\ registered' = registered \ {h}
        /\ DOMAIN interest' = (DOMAIN interest) \ {HandleOf[h]}
    BY <1>3 DEF remove_handler
  <2>2. /\ DOMAIN handlers' = (DOMAIN handlers) \ {HandleOf[h]}
        /\ \A fd \in DOMAIN handlers' : handlers'[fd] = handlers[fd]
    BY <2>1, Erased
  <2> QED
    BY <2>1, <2>2 DEF MapInv
<1>4. ASSUME NEW fd \in Handles, Close(fd)
      PROVE  MapInv'
  BY <1>4 DEF Close, MapInv, reactorVars
<1>5. ASSUME Destroy
      PROVE  MapInv'
  BY <1>5 DEF Destroy, MapInv, history
<1>6. ASSUME handle_events
      PROVE  MapInv'
  BY <1>6 DEF handle_events, MapInv, kernelVars
<1>7. ASSUME WaitReturnsEvents
      PROVE  MapInv'
  BY <1>7 DEF WaitReturnsEvents, MapInv, Disarmed, history
<1>8. ASSUME WaitTimesOut
      PROVE  MapInv'
  BY <1>8 DEF WaitTimesOut, MapInv, kernelVars, history
<1>9. ASSUME NEW signalled \in BOOLEAN, WaitFails(signalled)
      PROVE  MapInv'
  BY <1>9 DEF WaitFails, MapInv, kernelVars, history
<1>10. ASSUME DispatchEvent
      PROVE  MapInv'
  BY <1>10 DEF DispatchEvent, MapInv
<1>11. ASSUME HandlerWritesToo
      PROVE  MapInv'
  BY <1>11 DEF HandlerWritesToo, MapInv, history
<1>12. ASSUME HandlerReturns
      PROVE  MapInv'
  BY <1>12 DEF HandlerReturns, MapInv, kernelVars, history
<1>13. ASSUME BeginTick
      PROVE  MapInv'
  BY <1>13 DEF BeginTick, MapInv, kernelVars, history
<1>14. ASSUME EndTick
      PROVE  MapInv'
  BY <1>14 DEF EndTick, MapInv, kernelVars, history
<1>15. ASSUME NEW fd \in Handles, NEW e \in Arrivals, Arrive(fd, e)
      PROVE  MapInv'
  BY <1>15 DEF Arrive, MapInv, reactorVars, history
<1>16. ASSUME QuietStep
      PROVE  MapInv'
  BY <1>16, QuietKeeps DEF Kept, MapInv
<1> QED
  BY <1>1, <1>2, <1>3, <1>4, <1>5, <1>6, <1>7, <1>8, <1>9, <1>10, <1>11, <1>12,
     <1>13, <1>14, <1>15, <1>16
  DEF Next, Program, Loop, QuietStep

\* Every step keeps the events to come handled.
LEMMA HandledStep ==
  ASSUME TypeOK, TimerInv, BatchInv, MapInv, Handled, [Next]_vars
  PROVE  Handled'
<1>1. ASSUME NEW h \in Handlers, NEW evt \in Requests, register_handler(h, evt)
      PROVE  Handled'
  BY <1>1 DEF register_handler, Handled, DiesOnlyOfRemoval, Enter
<1>2. ASSUME NEW h \in Handlers, register_fails(h)
      PROVE  Handled'
  BY <1>2 DEF register_fails, Handled, DiesOnlyOfRemoval, Enter
<1>3. ASSUME NEW h \in Handlers, remove_handler(h)
      PROVE  Handled'
  <2>1. handlers' = Erase(HandleOf[h]) /\ batch' = batch /\ died' = died /\ removed' = (removed \/ InHandler)
        /\ ProgramRuns
    BY <1>3 DEF remove_handler
  <2>2. CASE InHandler
    BY <2>1, <2>2 DEF Handled, DiesOnlyOfRemoval, ProgramRuns
  <2>3. CASE ~InHandler
    <3>1. batch = <<>>
      BY <2>1, <2>3 DEF ProgramRuns, InTimer, TimerInv, BatchInv
    <3> QED
      BY <2>1, <3>1 DEF Handled, DiesOnlyOfRemoval, ProgramRuns
  <2> QED
    BY <2>2, <2>3
<1>4. ASSUME NEW fd \in Handles, Close(fd)
      PROVE  Handled'
  BY <1>4 DEF Close, Handled, DiesOnlyOfRemoval, reactorVars
<1>5. ASSUME Destroy
      PROVE  Handled'
  BY <1>5 DEF Destroy, Handled, DiesOnlyOfRemoval
<1>6. ASSUME handle_events
      PROVE  Handled'
  BY <1>6 DEF handle_events, BatchInv, Handled, DiesOnlyOfRemoval
<1>7. ASSUME WaitReturnsEvents
      PROVE  Handled'
  <2>1. PICK order \in Orders(Reportable, Room) :
          batch' = [i \in 1 .. Room |-> [fd |-> order[i],
              events |-> Reported(order[i])]]
    BY <1>7 DEF WaitReturnsEvents
  <2>2. \A i \in 1 .. Room : order[i] \in DOMAIN interest
    BY DEF Orders, Reportable
  <2>3. DOMAIN batch' = 1 .. Room /\ \A i \in 1 .. Room : batch'[i].fd = order[i]
    BY <2>1
  <2>4. UNCHANGED <<handlers, died, removed>> /\ died = "no"
    BY <1>7 DEF WaitReturnsEvents, history
  <2> QED
    BY <2>2, <2>3, <2>4 DEF Handled, DiesOnlyOfRemoval, MapInv
<1>8. ASSUME WaitTimesOut
      PROVE  Handled'
  BY <1>8 DEF WaitTimesOut, BatchInv, Handled, DiesOnlyOfRemoval
<1>9. ASSUME NEW signalled \in BOOLEAN, WaitFails(signalled)
      PROVE  Handled'
  BY <1>9 DEF WaitFails, BatchInv, Handled, DiesOnlyOfRemoval
<1>10. ASSUME DispatchEvent
      PROVE  Handled'
  <2>1. UNCHANGED <<handlers, batch, removed>> /\ died = "no" /\ batch # <<>>
    BY <1>10 DEF DispatchEvent
  <2>2. fd_0 \notin DOMAIN handlers => removed
    BY <2>1, TailHandles DEF Handled
  <2>3. died' = died \/ fd_0 \notin DOMAIN handlers
    BY <1>10 DEF DispatchEvent, Call
  <2> QED
    BY <2>1, <2>2, <2>3 DEF Handled, DiesOnlyOfRemoval
<1>11. ASSUME HandlerWritesToo
      PROVE  Handled'
  <2>1. UNCHANGED <<handlers, batch, removed>> /\ died = "no" /\ batch # <<>>
    BY <1>11 DEF HandlerWritesToo, WriteFollows, BatchInv, history
  <2>2. fd_0 \notin DOMAIN handlers => removed
    BY <2>1, TailHandles DEF Handled
  <2>3. died' = died \/ fd_0 \notin DOMAIN handlers
    BY <1>11 DEF HandlerWritesToo, Call
  <2> QED
    BY <2>1, <2>2, <2>3 DEF Handled, DiesOnlyOfRemoval
<1>12. ASSUME HandlerReturns
      PROVE  Handled'
  <2>1. batch # <<>> /\ batch' = Tail(batch)
    BY <1>12 DEF HandlerReturns, InHandler, BatchInv
  <2>2. \A i \in DOMAIN batch' : i + 1 \in DOMAIN batch /\ batch'[i] = batch[i + 1]
    BY <2>1, TailHandles
  <2>3. UNCHANGED <<handlers, died, removed>>
    BY <1>12 DEF HandlerReturns, history
  <2>4. ASSUME died' = "no", ~removed', NEW i \in DOMAIN batch'
        PROVE  batch'[i].fd \in DOMAIN handlers'
    BY <2>2, <2>3, <2>4 DEF Handled
  <2> QED
    BY <2>3, <2>4 DEF Handled, DiesOnlyOfRemoval
<1>13. ASSUME BeginTick
      PROVE  Handled'
  BY <1>13 DEF BeginTick, Handled, DiesOnlyOfRemoval
<1>14. ASSUME EndTick
      PROVE  Handled'
  BY <1>14 DEF EndTick, Handled, DiesOnlyOfRemoval, history
<1>15. ASSUME NEW fd \in Handles, NEW e \in Arrivals, Arrive(fd, e)
      PROVE  Handled'
  BY <1>15 DEF Arrive, Handled, DiesOnlyOfRemoval, reactorVars, history
<1>16. ASSUME QuietStep
      PROVE  Handled'
  BY <1>16, QuietKeeps DEF Kept, Handled, DiesOnlyOfRemoval
<1> QED
  BY <1>1, <1>2, <1>3, <1>4, <1>5, <1>6, <1>7, <1>8, <1>9, <1>10, <1>11, <1>12,
     <1>13, <1>14, <1>15, <1>16
  DEF Next, Program, Loop, QuietStep

\* Every step keeps one registration for each callback that is due.
LEMMA CreditStep ==
  ASSUME TypeOK, BatchInv, CreditInv, [Next]_vars
  PROVE  CreditInv'
<1>1. ASSUME NEW h \in Handlers, NEW evt \in Requests, register_handler(h, evt)
      PROVE  CreditInv'
  <2>1. UNCHANGED <<batch, calling>>
    BY <1>1 DEF register_handler
  <2>2. \A f \in Handles : credit'[f] = IF f = HandleOf[h] THEN credit[f] + 1 ELSE credit[f]
    BY <1>1 DEF register_handler, TypeOK
  <2>3. \A f \in Handles : f # HandleOf[h] => (Armed(f)' <=> Armed(f))
    BY <1>1 DEF register_handler, Armed
  <2>4. \A f \in Handles : Owed(f)' <=> Owed(f)
    BY <2>1 DEF Owed
  <2>5. \A f \in Handles : credit[f] \in Int
    BY DEF TypeOK
  <2> QED
    BY <2>2, <2>3, <2>4, <2>5 DEF CreditInv, Due
<1>2. ASSUME NEW h \in Handlers, register_fails(h)
      PROVE  CreditInv'
  BY <1>2 DEF register_fails, CreditInv, Due, Armed, Owed, kernelVars
<1>3. ASSUME NEW h \in Handlers, remove_handler(h)
      PROVE  CreditInv'
  <2>1. UNCHANGED <<batch, calling, credit>>
    BY <1>3 DEF remove_handler
  <2>2. \A f \in Handles : Armed(f)' => Armed(f)
    BY <1>3 DEF remove_handler, Armed
  <2> QED
    BY <2>1, <2>2, FewerDue
<1>4. ASSUME NEW fd \in Handles, Close(fd)
      PROVE  CreditInv'
  <2>1. UNCHANGED <<batch, calling, credit>>
    BY <1>4 DEF Close, reactorVars
  <2>2. \A f \in Handles : Armed(f)' => Armed(f)
    BY <1>4 DEF Close, Armed
  <2> QED
    BY <2>1, <2>2, FewerDue
<1>5. ASSUME Destroy
      PROVE  CreditInv'
  <2>1. UNCHANGED <<batch, calling, credit>>
    BY <1>5 DEF Destroy, history
  <2>2. \A f \in Handles : Armed(f)' => Armed(f)
    BY <1>5 DEF Destroy, Armed
  <2> QED
    BY <2>1, <2>2, FewerDue
<1>6. ASSUME handle_events
      PROVE  CreditInv'
  BY <1>6 DEF handle_events, CreditInv, Due, Armed, Owed, kernelVars
<1>7. ASSUME WaitReturnsEvents
      PROVE  CreditInv'
  <2>1. PICK order \in Orders(Reportable, Room) :
          /\ batch' = [i \in 1 .. Room |-> [fd |-> order[i],
              events |-> Reported(order[i])]]
          /\ interest' = Disarmed({order[i] : i \in 1 .. Room})
    BY <1>7 DEF WaitReturnsEvents
  <2>2. batch = <<>> /\ UNCHANGED credit
    BY <1>7 DEF WaitReturnsEvents, BatchInv, history
  <2>3. \A f \in Handles : Owed(f)' => f \in {order[i] : i \in 1 .. Room}
    BY <2>1 DEF Owed
  <2>4. \A i \in 1 .. Room : Armed(order[i])
    BY DEF Orders, Reportable, Reported, Armed
  <2>5. \A f \in Handles : Armed(f)' => Armed(f) /\ f \notin {order[i] : i \in 1 .. Room}
    BY <2>1, DisarmedHandles DEF Armed
  <2>6. \A f \in Handles : credit[f] \in Int
    BY DEF TypeOK
  <2>7. \A f \in Handles : Due(f)' <= Due(f)
    BY <2>3, <2>4, <2>5 DEF Due
  <2> QED
    BY <2>2, <2>6, <2>7, DueType DEF CreditInv
<1>8. ASSUME WaitTimesOut
      PROVE  CreditInv'
  BY <1>8 DEF WaitTimesOut, CreditInv, Due, Armed, Owed, kernelVars, history
<1>9. ASSUME NEW signalled \in BOOLEAN, WaitFails(signalled)
      PROVE  CreditInv'
  BY <1>9 DEF WaitFails, CreditInv, Due, Armed, Owed, kernelVars, history
<1>10. ASSUME DispatchEvent
      PROVE  CreditInv'
  <2>1. batch # <<>> /\ calling = "none" /\ UNCHANGED <<batch, interest>>
    BY <1>10 DEF DispatchEvent
  <2>2. CASE UNCHANGED <<calling, credit>>
    BY <2>1, <2>2, FewerDue DEF Armed
  <2>3. CASE calling' # "none" /\ credit' = [credit EXCEPT ![fd_0] = @ - 1]
    <3>1. \A f \in Handles : credit[f] \in Int /\ credit'[f] = IF f = fd_0 THEN credit[f] - 1 ELSE credit[f]
      BY <2>3 DEF TypeOK
    <3> DEFINE first == fd_0
    <3>2. 1 \in DOMAIN batch /\ first = batch[1].fd
      BY <2>1, TailHandles
    <3>3. Owed(first)
      BY <2>1, <3>2 DEF Owed
    <3>4. \A i \in DOMAIN batch : batch[i].fd = first => i = 1
      BY <3>2 DEF BatchInv
    <3>5. \A f \in Handles : Owed(f)' => f # first
      BY <2>1, <2>3, <3>4 DEF Owed
    <3>6. \A f \in Handles : Owed(f)' => Owed(f)
      BY <2>1 DEF Owed
    <3>7. \A f \in Handles : Armed(f)' <=> Armed(f)
      BY <2>1 DEF Armed
    <3>8. \A f \in Handles : Due(f)' <= IF f = first THEN Due(f) - 1 ELSE Due(f)
      BY <3>3, <3>5, <3>6, <3>7 DEF Due
    <3> HIDE DEF first
    <3> QED
      BY <3>1, <3>8, DueType DEF CreditInv, first
  <2> QED
    BY <1>10, <2>2, <2>3 DEF DispatchEvent, Call
<1>11. ASSUME HandlerWritesToo
      PROVE  CreditInv'
  <2>1. UNCHANGED <<batch, interest,
      credit>> /\ calling # "none" /\ calling' # "none"
    BY <1>11 DEF HandlerWritesToo, WriteFollows, Call, history
  <2>2. \A f \in Handles : Armed(f)' => Armed(f)
    BY <2>1 DEF Armed
  <2>3. \A f \in Handles : Owed(f)' => Owed(f)
    BY <2>1 DEF Owed
  <2>4. \A f \in Handles : credit[f] \in Int
    BY DEF TypeOK
  <2> QED
    BY <2>1, <2>2, <2>3, <2>4 DEF CreditInv, Due
<1>12. ASSUME HandlerReturns
      PROVE  CreditInv'
  <2>1. UNCHANGED <<interest,
      credit>> /\ calling # "none" /\ batch # <<>> /\ batch' = Tail(batch)
    BY <1>12 DEF HandlerReturns, InHandler, BatchInv, kernelVars, history
  <2>2. \A f \in Handles : Armed(f)' => Armed(f)
    BY <2>1 DEF Armed
  <2>3. \A i \in DOMAIN batch' : i + 1 > 1 /\ i + 1 \in DOMAIN batch /\ batch'[i] = batch[i + 1]
    BY <2>1, TailHandles
  <2>4. \A f \in Handles : Owed(f)' => Owed(f)
    BY <2>1, <2>3 DEF Owed
  <2>5. \A f \in Handles : credit[f] \in Int
    BY DEF TypeOK
  <2> QED
    BY <2>1, <2>2, <2>4, <2>5 DEF CreditInv, Due
<1>13. ASSUME BeginTick
      PROVE  CreditInv'
  BY <1>13 DEF BeginTick, CreditInv, Due, Armed, Owed, kernelVars, history
<1>14. ASSUME EndTick
      PROVE  CreditInv'
  BY <1>14 DEF EndTick, CreditInv, Due, Armed, Owed, kernelVars, history
<1>15. ASSUME NEW fd \in Handles, NEW e \in Arrivals, Arrive(fd, e)
      PROVE  CreditInv'
  BY <1>15 DEF Arrive, CreditInv, Due, Armed, Owed, reactorVars, history
<1>16. ASSUME QuietStep
      PROVE  CreditInv'
  BY <1>16, QuietKeeps DEF Kept, CreditInv, Due, Armed, Owed
<1> QED
  BY <1>1, <1>2, <1>3, <1>4, <1>5, <1>6, <1>7, <1>8, <1>9, <1>10, <1>11, <1>12,
     <1>13, <1>14, <1>15, <1>16
  DEF Next, Program, Loop, QuietStep

\* Every step keeps fd_num_ covering the interest list.
LEMMA NumStep ==
  ASSUME TypeOK, NumInv, [Next]_vars
  PROVE  NumInv'
<1>1. ASSUME NEW h \in Handlers, NEW evt \in Requests, register_handler(h, evt)
      PROVE  NumInv'
  <2>1. DOMAIN interest' = (DOMAIN interest) \cup {HandleOf[h]}
        /\ fd_num' = Counted(HandleOf[h]) /\ closes' = closes
    BY <1>1 DEF register_handler
  <2> QED
    BY <2>1, Added
<1>2. ASSUME NEW h \in Handlers, register_fails(h)
      PROVE  NumInv'
  BY <1>2 DEF register_fails, NumInv, FdNumCovers, kernelVars
<1>3. ASSUME NEW h \in Handlers, remove_handler(h)
      PROVE  NumInv'
  <2>1. DOMAIN interest' = (DOMAIN interest) \ {HandleOf[h]}
        /\ fd_num' = Uncounted(HandleOf[h]) /\ closes' = closes
    BY <1>3 DEF remove_handler
  <2> QED
    BY <2>1, Deleted
<1>4. ASSUME NEW fd \in Handles, Close(fd)
      PROVE  NumInv'
  <2>1. DOMAIN interest' = (DOMAIN interest) \ {fd}
        /\ fd_num' = fd_num /\ closes' = closes + 1
    BY <1>4 DEF Close, reactorVars
  <2> QED
    BY <2>1, Dropped
<1>5. ASSUME Destroy
      PROVE  NumInv'
  <2>1. DOMAIN interest' = {} /\ fd_num' = 0 /\ closes' = closes
    BY <1>5 DEF Destroy, history
  <2> QED
    BY <2>1, FS_EmptySet DEF NumInv, FdNumCovers
<1>6. ASSUME handle_events
      PROVE  NumInv'
  BY <1>6 DEF handle_events, NumInv, FdNumCovers, kernelVars
<1>7. ASSUME WaitReturnsEvents
      PROVE  NumInv'
  BY <1>7 DEF WaitReturnsEvents, NumInv, FdNumCovers, Disarmed, history
<1>8. ASSUME WaitTimesOut
      PROVE  NumInv'
  BY <1>8 DEF WaitTimesOut, NumInv, FdNumCovers, kernelVars, history
<1>9. ASSUME NEW signalled \in BOOLEAN, WaitFails(signalled)
      PROVE  NumInv'
  BY <1>9 DEF WaitFails, NumInv, FdNumCovers, kernelVars, history
<1>10. ASSUME DispatchEvent
      PROVE  NumInv'
  BY <1>10 DEF DispatchEvent, NumInv, FdNumCovers
<1>11. ASSUME HandlerWritesToo
      PROVE  NumInv'
  BY <1>11 DEF HandlerWritesToo, NumInv, FdNumCovers, history
<1>12. ASSUME HandlerReturns
      PROVE  NumInv'
  BY <1>12 DEF HandlerReturns, NumInv, FdNumCovers, kernelVars, history
<1>13. ASSUME BeginTick
      PROVE  NumInv'
  BY <1>13 DEF BeginTick, NumInv, FdNumCovers, kernelVars, history
<1>14. ASSUME EndTick
      PROVE  NumInv'
  BY <1>14 DEF EndTick, NumInv, FdNumCovers, kernelVars, history
<1>15. ASSUME NEW fd \in Handles, NEW e \in Arrivals, Arrive(fd, e)
      PROVE  NumInv'
  BY <1>15 DEF Arrive, NumInv, FdNumCovers, reactorVars, history
<1>16. ASSUME QuietStep
      PROVE  NumInv'
  BY <1>16, QuietKeeps DEF Kept, NumInv, FdNumCovers
<1> QED
  BY <1>1, <1>2, <1>3, <1>4, <1>5, <1>6, <1>7, <1>8, <1>9, <1>10, <1>11, <1>12,
     <1>13, <1>14, <1>15, <1>16
  DEF Next, Program, Loop, QuietStep

(***************************************************************************)
(* The theorems.                                                           *)
(***************************************************************************)

\* The initial states satisfy the invariant.
LEMMA InitInv == Init => IInv
<1> SUFFICES ASSUME Init PROVE IInv
  OBVIOUS
<1>1. TypeOK
  <2>1. HandlersType /\ InterestType /\ BatchType
    BY DEF Init, HandlersType, InterestType, BatchType
  <2>2. ReadyType /\ CreditType
    BY DEF Init, ReadyType, CreditType
  <2>3. ScalarType
    BY DEF Init, ScalarType
  <2> QED
    BY <2>1, <2>2, <2>3, TypeParts
<1>2. TimerInv /\ BatchInv /\ MapInv /\ Handled
  BY DEF Init, Timers!Init, TimerInv, BatchInv, MapInv, Handled, DiesOnlyOfRemoval
<1>3. CreditInv
  BY DEF Init, CreditInv, Due, Armed, Owed
<1>4. NumInv
  BY FS_EmptySet DEF Init, NumInv, FdNumCovers
<1> QED
  BY <1>1, <1>2, <1>3, <1>4 DEF IInv

\* Every step keeps the invariant.
LEMMA NextInv == IInv /\ [Next]_vars => IInv'
  BY TypeStep, TimerStep, BatchStep, MapStep, HandledStep, CreditStep, NumStep
  DEF IInv

\* Every reachable state of the reactor satisfies the inductive invariant.
THEOREM Inductive == Spec => []IInv
  BY InitInv, NextInv, PTL DEF Spec

\* The types hold in every reachable state.
THEOREM TypeCorrect == Spec => []TypeOK
<1>1. IInv => TypeOK
  BY DEF IInv
<1> QED
  BY <1>1, Inductive, PTL

\* ep_evts always has room for every handle epoll knows, and what fd_num_ counts
\* too many never exceeds the handles closed behind the reactor's back.
THEOREM RoomForAll == Spec => []FdNumCovers
<1>1. IInv => FdNumCovers
  BY DEF IInv, NumInv
<1> QED
  BY <1>1, Inductive, PTL

\* Whatever epoll may report has a handler, so that the assert of wait_events holds
\* when epoll_wait returns, and no removed handler is left where dispatch would find
\* it.
THEOREM MapHolds == Spec => []MapIsCurrent
<1>1. IInv => MapIsCurrent
  BY DEF IInv, MapInv, MapIsCurrent
<1> QED
  BY <1>1, Inductive, PTL

\* A registration is answered by at most one callback.
THEOREM AtMostOneCallback == Spec => []OneShot
<1>1. IInv => OneShot
  <2>1. ASSUME IInv, NEW fd \in Handles PROVE credit[fd] >= 0
    <3>1. credit[fd] \in Int /\ credit[fd] >= Due(fd)
      BY <2>1 DEF IInv, CreditInv, TypeOK
    <3> QED
      BY <3>1, DueType
  <2> QED
    BY <2>1 DEF OneShot
<1> QED
  BY <1>1, Inductive, PTL

\* Dispatch only fails when a callback removed a handler from the batch.
THEOREM OnlyRemovalKills == Spec => []DiesOnlyOfRemoval
<1>1. IInv => DiesOnlyOfRemoval
  BY DEF IInv, Handled
<1> QED
  BY <1>1, Inductive, PTL

(***************************************************************************)
(* The timers inside the reactor.  Whatever the program and the loop do, a  *)
(* TimeHeap sees nothing but its own operations, called where it allows     *)
(* them: all that is proved of it holds here.                               *)
(***************************************************************************)
\* ~time_heap is never called: the array keeps its room.
RoomKept == capacity \in Nat \ {0}

\* What leaves the timers alone, and what is an operation of theirs.
LEMMA TimersMove ==
  ASSUME [Next]_vars
  PROVE  \/ UNCHANGED timerVars
         \/ /\ ProgramRuns
            /\ \/ \E delay \in Delays : Timers!add_timer(delay)
               \/ \E id \in Timers!TimerIds : Timers!del_timer(id)
         \/ stage = "dispatching" /\ Timers!BeginTick
         \/ Timers!RunTop \/ Timers!CallbackReturns \/ Timers!DropTop \/ Timers!EndTick
         \/ \E d \in ClockMoves : Timers!ClockMoved(d)
<1>1. CASE Program
  <2>1. ASSUME NEW h \in Handlers, NEW evt \in Requests, register_handler(h, evt)
        PROVE  UNCHANGED timerVars
    BY <2>1 DEF register_handler
  <2>2. ASSUME NEW h \in Handlers, register_fails(h) \/ remove_handler(h)
        PROVE  UNCHANGED timerVars
    BY <2>2 DEF register_fails, remove_handler
  <2>3. ASSUME NEW fd \in Handles, Close(fd) \/ Reopen(fd) PROVE UNCHANGED timerVars
    BY <2>3 DEF Close, Reopen
  <2>4. Destroy => UNCHANGED timerVars
    BY DEF Destroy
  <2>5. ASSUME NEW delay \in Delays, register_timertask(delay)
        PROVE  ProgramRuns /\ Timers!add_timer(delay)
    BY <2>5 DEF register_timertask
  <2>6. ASSUME NEW id \in Timers!TimerIds, forget_timer(id)
        PROVE  ProgramRuns /\ Timers!del_timer(id)
    BY <2>6 DEF forget_timer
  <2>. QED BY <1>1, <2>1, <2>2, <2>3, <2>4, <2>5, <2>6 DEF Program
<1>2. CASE Loop
  <2>1. handle_events \/ WaitReturnsEvents \/ WaitTimesOut \/ WaitFails(FALSE)
        => UNCHANGED timerVars
    BY DEF handle_events, WaitReturnsEvents, WaitTimesOut, WaitFails
  <2>2. DispatchEvent \/ HandlerWritesToo \/ HandlerReturns => UNCHANGED timerVars
    BY DEF DispatchEvent, HandlerWritesToo, HandlerReturns
  <2>3. BeginTick => stage = "dispatching" /\ Timers!BeginTick
    BY DEF BeginTick
  <2>4. TickStep => Timers!RunTop \/ Timers!CallbackReturns \/ Timers!DropTop
    BY DEF TickStep
  <2>5. EndTick => Timers!EndTick
    BY DEF EndTick
  <2>. QED BY <1>2, <2>1, <2>2, <2>3, <2>4, <2>5 DEF Loop
<1>3. CASE WaitFails(TRUE)
  BY <1>3 DEF WaitFails
<1>4. ASSUME NEW fd \in Handles, NEW e \in Arrivals, Arrive(fd, e) PROVE UNCHANGED timerVars
  BY <1>4 DEF Arrive
<1>5. ASSUME NEW d \in ClockMoves, ClockMoved(d) PROVE Timers!ClockMoved(d)
  BY <1>5 DEF ClockMoved
<1>6. CASE UNCHANGED vars
  BY <1>6 DEF vars
<1>. QED BY <1>1, <1>2, <1>3, <1>4, <1>5, <1>6 DEF Next

\* Each of these operations is called where TimeHeap allows it: the program runs
\* between ticks, or in the callback that tick runs.
LEMMA TimersNext ==
  IInv /\ RoomKept /\ [Next]_vars => [Timers!Next]_(Timers!vars) /\ RoomKept'
<1>. SUFFICES ASSUME IInv, RoomKept, [Next]_vars
     PROVE  [Timers!Next]_(Timers!vars) /\ RoomKept'
  OBVIOUS
<1>1. capacity > 0
  BY DEF RoomKept
<1>2. ProgramRuns \/ stage = "dispatching" => Timers!CallerRuns
  <2>1. stage # "ticking" => ~ticking
    BY DEF IInv, TimerInv
  <2>2. calling # "none" => stage = "dispatching"
    BY DEF IInv, BatchInv
  <2>. QED BY <1>1, <2>1, <2>2 DEF ProgramRuns, InHandler, InTimer, Timers!CallerRuns
<1>3. stage = "dispatching" => ~ticking
  BY DEF IInv, TimerInv
<1>4. UNCHANGED timerVars => UNCHANGED Timers!vars
  BY DEF timerVars, Timers!vars
<1>5. [Timers!Next]_(Timers!vars)
  BY <1>2, <1>3, <1>4, TimersMove DEF Timers!Next
<1>6. capacity' \in {capacity, 2 * capacity}
  <2>1. UNCHANGED timerVars => capacity' = capacity
    BY DEF timerVars
  <2>2. ASSUME NEW delay \in Delays, Timers!add_timer(delay)
        PROVE  capacity' \in {capacity, 2 * capacity}
    BY <2>2 DEF Timers!add_timer, Timers!Grown
  <2>3. ASSUME NEW id \in Timers!TimerIds, Timers!del_timer(id) PROVE capacity' = capacity
    BY <2>3 DEF Timers!del_timer
  <2>4. Timers!BeginTick \/ Timers!RunTop \/ Timers!CallbackReturns \/ Timers!DropTop
        \/ Timers!EndTick => capacity' = capacity
    BY DEF Timers!BeginTick, Timers!RunTop, Timers!CallbackReturns, Timers!DropTop,
           Timers!EndTick
  <2>5. ASSUME NEW d \in ClockMoves, Timers!ClockMoved(d) PROVE capacity' = capacity
    BY <2>5 DEF Timers!ClockMoved
  <2>. QED BY <2>1, <2>2, <2>3, <2>4, <2>5, TimersMove
<1>7. RoomKept'
  BY <1>6 DEF RoomKept
<1>. QED BY <1>5, <1>7

\* Every behaviour of the reactor is one of TimeHeap: its timers are added, deleted
\* and run as TimeHeap allows.
THEOREM TimersBehave == Spec => Timers!Spec
<1>1. Init => Timers!Init /\ RoomKept
  BY DEF Init, Timers!Init, RoomKept
<1>. QED BY <1>1, TimersNext, Inductive, PTL DEF Spec, Timers!Spec

\* What the timers of the reactor assume of the constants.
LEMMA TimersAssumption == Timers!TimeHeapAssumption
BY DEF Timers!TimeHeapAssumption

\* While the reactor runs, a timer that left the heap ran once or was deleted before,
\* if neither delays nor the clock go back.
THEOREM TimersEndOnce == Timers!NoneGoesBack => (Spec => []Timers!OneOutcome)
<1>. SUFFICES ASSUME Timers!NoneGoesBack PROVE Spec => []Timers!OneOutcome
  OBVIOUS
<1>1. Timers!Spec => []Timers!OneOutcome
  BY TimersAssumption, Timers!RanOrDeleted
<1>. QED BY <1>1, TimersBehave, PTL

\* The wait ends no later than the first timer, when d seconds are left till then.
LEMMA WaitEnds ==
  ASSUME NEW d \in Nat, NEW t, t = ToInt(d * SECOND), t >= 0
  PROVE  \E w \in Int : w = (t + SECOND - 1) \div SECOND /\ w <= d
<1>. DEFINE y == d * SECOND + INT_MAX + 1
            K == 2 * (INT_MAX + 1)
<1>1. d * SECOND \in Nat /\ y \in Nat /\ K \in Nat \ {0}
  OBVIOUS
<1>2. y % K \in Nat /\ y % K <= y
  <2>. HIDE DEF y, K
  <2>. QED BY <1>1
<1>3. t = (y % K) - (INT_MAX + 1)
  BY DEF ToInt
<1>4. t \in Nat /\ t <= d * SECOND
  <2>. HIDE DEF K
  <2>. QED BY <1>1, <1>2, <1>3
<1>5. \E w \in Int : w = (t + SECOND - 1) \div SECOND /\ w <= d
  <2>1. PICK q \in Int : q = (t + SECOND - 1) \div SECOND
    BY <1>4
  <2>2. q * SECOND <= t + SECOND - 1
    BY <1>4, <2>1
  <2>3. q * SECOND < (d + 1) * SECOND
    BY <1>4, <2>2
  <2>4. ASSUME d + 1 <= q PROVE FALSE
    <3>1. (d + 1) * SECOND <= q * SECOND
      BY <2>4
    <3>. QED BY <2>3, <3>1
  <2>. QED BY <2>1, <2>4
<1>. QED BY <1>4, <1>5

\* A step that neither begins nor ends the wait leaves its timeout.
LEMMA WaitGoesOn ==
  ASSUME [Next]_vars, stage' = "waiting", ~handle_events
  PROVE  stage = "waiting" /\ timeout' = timeout /\ deadline' = deadline
<1>1. CASE Program
  <2>1. ASSUME NEW h \in Handlers, NEW evt \in Requests, register_handler(h, evt)
        PROVE  UNCHANGED <<stage, timeout, deadline>>
    BY <2>1 DEF register_handler
  <2>2. ASSUME NEW h \in Handlers, register_fails(h) \/ remove_handler(h)
        PROVE  UNCHANGED <<stage, timeout, deadline>>
    BY <2>2 DEF register_fails, remove_handler
  <2>3. ASSUME NEW fd \in Handles, Close(fd) \/ Reopen(fd)
        PROVE  UNCHANGED <<stage, timeout, deadline>>
    BY <2>3 DEF Close, Reopen, reactorVars
  <2>4. Destroy => UNCHANGED <<stage, timeout, deadline>>
    BY DEF Destroy
  <2>5. ASSUME NEW delay \in Delays, register_timertask(delay)
        PROVE  UNCHANGED <<stage, timeout, deadline>>
    BY <2>5 DEF register_timertask, reactorVars
  <2>6. ASSUME NEW id \in Timers!TimerIds, forget_timer(id)
        PROVE  UNCHANGED <<stage, timeout, deadline>>
    BY <2>6 DEF forget_timer, reactorVars
  <2>. QED BY <1>1, <2>1, <2>2, <2>3, <2>4, <2>5, <2>6 DEF Program
<1>2. CASE Loop
  <2>1. ~(WaitReturnsEvents \/ WaitTimesOut \/ WaitFails(FALSE) \/ BeginTick \/ EndTick)
    BY DEF WaitReturnsEvents, WaitTimesOut, WaitFails, BeginTick, EndTick
  <2>2. DispatchEvent \/ HandlerWritesToo \/ HandlerReturns
        => UNCHANGED <<stage, timeout, deadline>>
    BY DEF DispatchEvent, HandlerWritesToo, HandlerReturns
  <2>3. TickStep => UNCHANGED <<stage, timeout, deadline>>
    BY DEF TickStep, reactorVars
  <2>. QED BY <1>2, <2>1, <2>2, <2>3 DEF Loop
<1>3. CASE WaitFails(TRUE)
  BY <1>3 DEF WaitFails
<1>4. ASSUME NEW fd \in Handles, NEW e \in Arrivals, Arrive(fd, e)
      PROVE  UNCHANGED <<stage, timeout, deadline>>
  BY <1>4 DEF Arrive, reactorVars
<1>5. ASSUME NEW d \in ClockMoves, ClockMoved(d) PROVE UNCHANGED <<stage, timeout, deadline>>
  BY <1>5 DEF ClockMoved, reactorVars
<1>6. CASE UNCHANGED vars
  BY <1>6 DEF vars, reactorVars
<1>. QED BY <1>1, <1>2, <1>3, <1>4, <1>5, <1>6 DEF Next

\* Nothing happens to the timers while epoll_wait waits, but that time passes.
LEMMA WaitKeepsTimers ==
  ASSUME IInv, [Next]_vars, stage = "waiting"
  PROVE  /\ timer' = timer
         /\ clock' = clock \/ \E d \in ClockMoves : clock' = clock + d
<1>1. calling = "none" /\ running = Timers!None /\ ~ticking
  BY DEF IInv, TimerInv, BatchInv
<1>2. ~ProgramRuns
  BY <1>1 DEF ProgramRuns, InHandler, InTimer
<1>3. ~(Timers!RunTop \/ Timers!CallbackReturns \/ Timers!DropTop \/ Timers!EndTick)
  BY <1>1 DEF Timers!RunTop, Timers!CallbackReturns, Timers!DropTop, Timers!EndTick
<1>4. CASE UNCHANGED timerVars
  BY <1>4 DEF timerVars
<1>5. ASSUME NEW d \in ClockMoves, Timers!ClockMoved(d) PROVE timer' = timer /\ clock' = clock + d
  BY <1>5 DEF Timers!ClockMoved
<1>. QED BY <1>2, <1>3, <1>4, <1>5, TimersMove

\* epoll_wait is called with the time to the first timer, the one on top of the heap.
LEMMA WaitBegins ==
  ASSUME Timers!HeapInv, handle_events
  PROVE  WaitsForFirst'
<1>. USE TimersAssumption
<1>1. timer' = timer /\ clock' = clock /\ clock \in Int
  BY DEF handle_events, timerVars, Timers!HeapInv, Timers!Types
<1>2. CASE Timers!empty
  <2>1. DOMAIN timer = {}
    <3>1. Timers!Holds(heap, 0, DOMAIN timer)
      BY <1>2, Timers!KeptIs DEF Timers!empty
    <3>2. \A x \in DOMAIN timer : \E i \in 0 .. (0 - 1) : heap[i] = x
      BY <3>1 DEF Timers!Holds
    <3>3. 0 .. (0 - 1) = {}
      OBVIOUS
    <3>. QED BY <3>2, <3>3
  <2>. QED BY <1>1, <2>1 DEF WaitsForFirst
<1>3. CASE ~Timers!empty
  <2>1. PICK first \in DOMAIN timer :
          /\ first = Timers!top
          /\ \A id \in DOMAIN timer : timer[first].expire <= timer[id].expire
    BY <1>3, Timers!TopIsFirst
  <2>2. \A id \in DOMAIN timer : timer[id].expire \in Int
    BY Timers!KeptIs
  <2>3. CASE timer[first].expire <= clock
    <3>1. first \in DOMAIN timer' /\ timer'[first].expire <= clock'
      BY <1>1, <2>1, <2>3
    <3>. QED BY <3>1 DEF WaitsForFirst, Overdue
  <2>4. CASE timeout' >= 0 /\ ~(timer[first].expire <= clock)
    <3>1. PICK d \in Nat : d = timer[first].expire - clock
      BY <1>1, <2>1, <2>2, <2>4
    <3>2. timeout' = ToInt(d * SECOND) /\ deadline' = clock + (timeout' + SECOND - 1) \div SECOND
      BY <1>3, <2>1, <3>1 DEF handle_events, Timeout
    <3>3. PICK w \in Int : w = (timeout' + SECOND - 1) \div SECOND /\ w <= d
      BY <2>4, <3>2, WaitEnds
    <3>4. deadline' \in Int /\ deadline' <= timer[first].expire
      BY <1>1, <2>1, <2>2, <3>1, <3>2, <3>3
    <3>5. \A id \in DOMAIN timer : deadline' <= timer[id].expire
      BY <2>1, <2>2, <3>4
    <3>. QED BY <1>1, <3>5 DEF WaitsForFirst
  <2>. QED BY <2>3, <2>4 DEF WaitsForFirst
<1>. QED BY <1>2, <1>3

\* epoll_wait does not sleep past the first timer, however the timers came into the
\* heap, if the clock does not go back (reactor.cpp:104).
THEOREM FirstIsAwaited == ClockMoves \subseteq Nat => (Spec => []WaitsForFirst)
<1>. SUFFICES ASSUME ClockMoves \subseteq Nat PROVE Spec => []WaitsForFirst
  OBVIOUS
<1>1. Init => WaitsForFirst
  BY DEF Init, WaitsForFirst
<1>2. IInv /\ Timers!HeapInv /\ WaitsForFirst /\ [Next]_vars => WaitsForFirst'
  <2>. SUFFICES ASSUME IInv, Timers!HeapInv, WaitsForFirst, [Next]_vars PROVE WaitsForFirst'
    OBVIOUS
  <2>1. CASE handle_events
    BY <2>1, WaitBegins
  <2>2. CASE stage' = "waiting" /\ ~handle_events
    <3>1. stage = "waiting" /\ timeout' = timeout /\ deadline' = deadline
      BY <2>2, WaitGoesOn
    <3>2. timer' = timer /\ (clock' = clock \/ \E d \in ClockMoves : clock' = clock + d)
      BY <3>1, WaitKeepsTimers
    <3>3. clock \in Int /\ \A id \in DOMAIN timer : timer[id].expire \in Int
      BY TimersAssumption, Timers!KeptIs DEF Timers!HeapInv, Timers!Types
    <3>4. clock' \in Int /\ clock <= clock'
      BY <3>2, <3>3
    <3>5. \A id \in DOMAIN timer : Overdue(id) => Overdue(id)'
      BY <3>2, <3>3, <3>4 DEF Overdue
    <3>. QED BY <2>2, <3>1, <3>2, <3>5 DEF WaitsForFirst
  <2>. QED BY <2>1, <2>2 DEF WaitsForFirst
<1>3. Timers!Spec => []Timers!HeapInv
  BY TimersAssumption, Timers!Invariant, PTL
<1>. QED BY <1>1, <1>2, <1>3, Inductive, TimersBehave, PTL DEF Spec

====
