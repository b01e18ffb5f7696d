-------------------------------- MODULE Reactor --------------------------------
(***************************************************************************)
(* src/src/server/reactor.cpp and event_demultiplexer.cpp: one thread that  *)
(* waits for I/O with epoll, calls the handlers of the ready handles and    *)
(* then the timers that came due.  The timers are TimeHeap; the kernel's    *)
(* side (interest list, readiness, file descriptors) is external.           *)
(*                                                                         *)
(* The program around the reactor acts where it can: between two calls of   *)
(* handle_events, in a handler's callback and in a timer's callback.        *)
(***************************************************************************)
EXTENDS Integers, FiniteSets, Sequences

CONSTANTS
  Handles,     \* file descriptor numbers
  Handlers,    \* event_handler objects
  HandleOf,    \* get_handle(): [Handlers -> Handles]; two handlers share a
               \* number when a connection takes over a closed one's
  Requests,    \* sets of events register_handler is called with
  Arrivals,    \* what may become ready: a subset of Events
  ClosesRegistered,  \* the program may close a handle it has not removed
  RemovesInBatch,    \* a handler's callback may remove handlers
  Delays, ClockMoves, MaxTimers, MaxClock,   \* see TimeHeap
  INITSIZE,    \* INITSIZE, the heap's first capacity
  SECOND,      \* the timeout's units per second (1000)
  INT_MAX,     \* the largest int
  MaxRequests, \* bound: successful calls of register_handler
  MaxCloses    \* bound: handles closed

Events == {"in", "out", "err"}       \* EPOLLIN, EPOLLOUT, EPOLLERR or EPOLLHUP

ASSUME ReactorAssumption ==
  /\ IsFiniteSet(Handles)
  /\ HandleOf \in [Handlers -> Handles]
  /\ Requests \subseteq SUBSET {"in", "out"} /\ Arrivals \subseteq Events
  /\ ClosesRegistered \in BOOLEAN /\ RemovesInBatch \in BOOLEAN
  /\ INITSIZE \in Nat \ {0} /\ SECOND \in Nat \ {0} /\ INT_MAX \in Nat
  /\ Delays \subseteq Int /\ ClockMoves \subseteq Int
  /\ MaxTimers \in Nat /\ MaxClock \in Nat
  /\ MaxRequests \in Nat /\ MaxCloses \in Nat

VARIABLES
  handlers,    \* handlers_: [handle -> handler]
  fd_num,      \* fd_num_
  stage,       \* where handle_events is: "idle", "waiting", "dispatching", "ticking"
  timeout,     \* the timeout passed to wait_events
  deadline,    \* when that timeout has elapsed
  batch,       \* ep_evts from idx on: <<[fd, events], ...>>
  calling,     \* the callback of the first event's handler on the stack, or "none"
  died,        \* "no", "destroyed", or what stopped the process
  \* the kernel
  open,        \* open handles
  interest,    \* the epoll set: [fd -> events that would be reported]
  ready,       \* [Handles -> SUBSET Events]
  \* what the properties look back on
  credit,      \* [Handles -> requests not yet answered by a callback]
  registered,  \* handlers registered and not removed since
  removed,     \* a handler was removed while this batch was dispatched
  requests, closes,
  \* TimeHeap
  heap, capacity, timer, issued, clock, ticking, cur, running, outcome

\* the timers, with what is proved of them
Timers == INSTANCE TimeHeapProofs WITH Capacities <- {INITSIZE}, MaxInit <- 0

reactorVars == <<handlers, fd_num, stage, timeout, deadline, batch, calling, died>>
timerVars   == <<heap, capacity, timer, issued, clock, ticking, cur, running, outcome>>
kernelVars  == <<open, interest, ready>>
history     == <<credit, registered, removed, requests, closes>>
vars        == <<reactorVars, kernelVars, history, timerVars>>

\* the conversion of time_t to the int timeout
ToInt(x) == ((x + INT_MAX + 1) % (2 * (INT_MAX + 1))) - (INT_MAX + 1)

Init ==
  /\ Timers!Init
  /\ handlers = [fd \in {} |-> 0] /\ fd_num = 0
  /\ stage = "idle" /\ timeout = 0 /\ deadline = 0
  /\ batch = <<>> /\ calling = "none" /\ died = "no"
  /\ open = Handles
  /\ interest = [fd \in {} |-> {}]
  /\ ready = [fd \in Handles |-> {}]
  /\ credit = [fd \in Handles |-> 0]
  /\ registered = {} /\ removed = FALSE
  /\ requests = 0 /\ closes = 0

(***************************************************************************)
(* What the program does with the reactor.                                 *)
(***************************************************************************)
InHandler == calling # "none"
InTimer   == running # Timers!None
ProgramRuns == died = "no" /\ (stage = "idle" \/ InHandler \/ InTimer)

\* Mutant of Counted: fd_num_ is not counted up.
CountedNever(fd) == fd_num

\* ++fd_num_ when EPOLL_CTL_ADD succeeded
Counted(fd) == IF fd \in DOMAIN interest THEN fd_num ELSE fd_num + 1

\* Mutant of Enter: the handler is never put into the map.
EnterForgotten(h) == handlers

\* handlers_[handle] = handler, unless the handle has one
Enter(h) ==
  LET fd == HandleOf[h]
  IN IF fd \in DOMAIN handlers THEN handlers
     ELSE [f \in (DOMAIN handlers) \cup {fd} |->
             IF f = fd THEN h ELSE handlers[f]]

\* register_handler when request_event's epoll_ctl succeeds: MOD, or ADD after
\* ENOENT.
register_handler(h, evt) ==
  LET fd == HandleOf[h]
  IN /\ ProgramRuns
     /\ requests < MaxRequests            \* bound
     /\ fd \in open
     /\ handlers' = Enter(h)
     /\ fd_num' = Counted(fd)
     /\ interest' = [f \in (DOMAIN interest) \cup {fd} |->
                       IF f = fd THEN evt \cup {"err"} ELSE interest[f]]
     /\ credit' = [credit EXCEPT ![fd] = @ + 1]
     /\ registered' = registered \cup {h}
     /\ requests' = requests + 1
     /\ UNCHANGED <<stage, timeout, deadline, batch, calling, died, open, ready,
                    removed, closes, timerVars>>

\* register_handler when it fails: MOD on a closed handle (EBADF, and 0 is
\* returned), or ADD refused.  The handler stays in the map.
register_fails(h) ==
  /\ ProgramRuns
  /\ HandleOf[h] \notin DOMAIN interest
  /\ handlers' = Enter(h)
  /\ registered' = registered \cup {h}
  /\ UNCHANGED <<fd_num, stage, timeout, deadline, batch, calling, died, kernelVars,
                 credit, removed, requests, closes, timerVars>>

\* --fd_num_ when EPOLL_CTL_DEL succeeded
Uncounted(fd) == IF fd \in DOMAIN interest THEN fd_num - 1 ELSE fd_num

\* handlers_.erase(handle)
Erase(fd) == [f \in (DOMAIN handlers) \ {fd} |-> handlers[f]]

remove_handler(h) ==
  LET fd == HandleOf[h]
  IN /\ ProgramRuns
     /\ InHandler => RemovesInBatch
     /\ handlers' = Erase(fd)
     /\ fd_num' = Uncounted(fd)
     /\ interest' = [f \in (DOMAIN interest) \ {fd} |-> interest[f]]
     /\ registered' = registered \ {h}
     /\ removed' = (removed \/ InHandler)
     /\ UNCHANGED <<stage, timeout, deadline, batch, calling, died, open, ready,
                    credit, requests, closes, timerVars>>

\* The program closes a handle, with which epoll forgets it; the reactor is not
\* told.
Close(fd) ==
  /\ ProgramRuns
  /\ fd \in open /\ closes < MaxCloses    \* bound
  /\ ClosesRegistered \/ fd \notin DOMAIN handlers
  /\ open' = open \ {fd}
  /\ interest' = [f \in (DOMAIN interest) \ {fd} |-> interest[f]]
  /\ ready' = [ready EXCEPT ![fd] = {}]
  /\ closes' = closes + 1
  /\ UNCHANGED <<reactorVars, credit, registered, removed, requests, timerVars>>

\* accept, socket: the number is given out again
Reopen(fd) ==
  /\ ProgramRuns
  /\ fd \notin open
  /\ open' = open \cup {fd}
  /\ UNCHANGED <<reactorVars, interest, ready, history, timerVars>>

register_timertask(delay) ==
  /\ ProgramRuns
  /\ Timers!add_timer(delay)
  /\ UNCHANGED <<reactorVars, kernelVars, history>>

\* the program keeps the heap_timer* and may set its cb_func to NULL
forget_timer(id) ==
  /\ ProgramRuns
  /\ Timers!del_timer(id)
  /\ UNCHANGED <<reactorVars, kernelVars, history>>

\* ~reactor: epoll's descriptor is closed; the heap and its timers are not freed
Destroy ==
  /\ died = "no" /\ stage = "idle"
  /\ died' = "destroyed"
  /\ interest' = [fd \in {} |-> {}] /\ fd_num' = 0
  /\ UNCHANGED <<handlers, stage, timeout, deadline, batch, calling, open,
                 ready, history, timerVars>>

(***************************************************************************)
(* handle_events.                                                          *)
(***************************************************************************)
\* Mutant of Timeout: the last timer of the array is taken for the first.
TimeoutOfLast ==
  IF Timers!empty THEN 0
  ELSE ToInt((timer[heap[Timers!cur_size - 1]].expire - clock) * SECOND)

\* 0 without a timer, else the time to the first one, which is negative when that
\* one is overdue
Timeout ==
  IF Timers!empty THEN 0 ELSE ToInt((timer[Timers!top].expire - clock) * SECOND)

\* reactor_impl::handle_events
handle_events ==
  /\ died = "no" /\ stage = "idle"
  /\ stage' = "waiting"
  /\ timeout' = Timeout
  /\ deadline' = clock + (timeout' + SECOND - 1) \div SECOND
  /\ removed' = FALSE
  /\ UNCHANGED <<handlers, fd_num, batch, calling, died, kernelVars, credit,
                 registered, requests, closes, timerVars>>

Reported(fd) == interest[fd] \cap ready[fd]
Reportable   == {fd \in DOMAIN interest : Reported(fd) # {}}

\* the orders in which epoll_wait may return n of the handles in S
Orders(S, n) ==
  {o \in [1 .. n -> S] : \A i, j \in 1 .. n : o[i] = o[j] => i = j}

Room == IF Cardinality(Reportable) <= fd_num THEN Cardinality(Reportable) ELSE fd_num

\* Mutant of Disarmed: EPOLLONESHOT is left out of the request.
DisarmedNever(S) == interest

\* EPOLLONESHOT: what was returned is not reported again before the next MOD
Disarmed(S) == [fd \in DOMAIN interest |-> IF fd \in S THEN {} ELSE interest[fd]]

\* epoll_wait returns the ready handles, at most as many as ep_evts has room for
WaitReturnsEvents ==
  /\ died = "no" /\ stage = "waiting"
  /\ fd_num > 0 /\ Reportable # {}
  /\ \E order \in Orders(Reportable, Room) :
       /\ batch' = [i \in 1 .. Room |-> [fd |-> order[i], events |-> Reported(order[i])]]
       /\ interest' = Disarmed({order[i] : i \in 1 .. Room})
  /\ stage' = "dispatching"
  /\ UNCHANGED <<handlers, fd_num, timeout, deadline, calling, died, open, ready,
                 history, timerVars>>

\* the timeout elapsed, with nothing to report; a negative one never elapses
WaitTimesOut ==
  /\ died = "no" /\ stage = "waiting"
  /\ fd_num > 0 /\ Reportable = {}
  /\ timeout >= 0 /\ clock >= deadline
  /\ stage' = "dispatching"
  /\ UNCHANGED <<handlers, fd_num, timeout, deadline, batch, calling, died,
                 kernelVars, history, timerVars>>

\* epoll_wait fails: no room in ep_evts (EINVAL), or a signal came first (EINTR)
WaitFails(signalled) ==
  /\ died = "no" /\ stage = "waiting"
  /\ IF signalled THEN Reportable = {} ELSE fd_num = 0
  /\ stage' = "dispatching"
  /\ UNCHANGED <<handlers, fd_num, timeout, deadline, batch, calling, died,
                 kernelVars, history, timerVars>>

fd_0     == Head(batch).fd
events_0 == Head(batch).events

\* what the handler finds out: reading or writing may have used the readiness up
Used(e) == ready' \in {ready, [ready EXCEPT ![fd_0] = @ \ e]}

Call(name, e) ==
  /\ calling' = name
  /\ Used(e)
  /\ UNCHANGED died

\* The next event: the assert, then EPOLLERR and EPOLLHUP before the others.
DispatchEvent ==
  /\ died = "no" /\ stage = "dispatching"
  /\ calling = "none" /\ batch # <<>>
  /\ \/ /\ fd_0 \notin DOMAIN handlers
        /\ died' = "assert"
        /\ UNCHANGED <<calling, ready, credit>>
     \/ /\ fd_0 \in DOMAIN handlers
        /\ credit' = [credit EXCEPT ![fd_0] = @ - 1]
        /\ \/ "err" \in events_0 /\ Call("handle_error", {"err"})
           \/ "err" \notin events_0 /\ "in" \in events_0 /\ Call("handle_read", {"in"})
           \/ events_0 = {"out"} /\ Call("handle_write", {"out"})
  /\ UNCHANGED <<handlers, fd_num, stage, timeout, deadline, batch, open, interest,
                 registered, removed, requests, closes, timerVars>>

WriteFollows == calling = "handle_read" /\ "out" \in events_0

\* handle_read returned and the same event is also writable: operator[] looks the
\* handler up again, and yields NULL when handle_read removed it.
HandlerWritesToo ==
  /\ died = "no" /\ WriteFollows
  /\ \/ /\ fd_0 \in DOMAIN handlers
        /\ Call("handle_write", {"out"})
     \/ /\ fd_0 \notin DOMAIN handlers
        /\ died' = "null handler"
        /\ UNCHANGED <<calling, ready>>
  /\ UNCHANGED <<handlers, fd_num, stage, timeout, deadline, batch, open, interest,
                 history, timerVars>>

HandlerReturns ==
  /\ died = "no" /\ InHandler /\ ~WriteFollows
  /\ calling' = "none"
  /\ batch' = Tail(batch)
  /\ UNCHANGED <<handlers, fd_num, stage, timeout, deadline, died, kernelVars,
                 history, timerVars>>

\* event_timer->tick() ends every wait_events
BeginTick ==
  /\ died = "no" /\ stage = "dispatching"
  /\ calling = "none" /\ batch = <<>>
  /\ stage' = "ticking"
  /\ Timers!BeginTick
  /\ UNCHANGED <<handlers, fd_num, timeout, deadline, batch, calling, died,
                 kernelVars, history>>

TickStep ==
  /\ Timers!RunTop \/ Timers!CallbackReturns \/ Timers!DropTop
  /\ UNCHANGED <<reactorVars, kernelVars, history>>

EndTick ==
  /\ Timers!EndTick
  /\ stage' = "idle"
  /\ UNCHANGED <<handlers, fd_num, timeout, deadline, batch, calling, died,
                 kernelVars, history>>

(***************************************************************************)
(* The rest of the world.                                                  *)
(***************************************************************************)
Arrive(fd, e) ==
  /\ died = "no"
  /\ fd \in open /\ e \notin ready[fd]
  /\ ready' = [ready EXCEPT ![fd] = @ \cup {e}]
  /\ UNCHANGED <<reactorVars, open, interest, history, timerVars>>

ClockMoved(d) ==
  /\ died = "no"
  /\ Timers!ClockMoved(d)
  /\ UNCHANGED <<reactorVars, kernelVars, history>>

Program ==
  \/ \E h \in Handlers, evt \in Requests : register_handler(h, evt)
  \/ \E h \in Handlers : register_fails(h) \/ remove_handler(h)
  \/ \E fd \in Handles : Close(fd) \/ Reopen(fd)
  \/ \E delay \in Delays : register_timertask(delay)
  \/ \E id \in Timers!TimerIds : forget_timer(id)
  \/ Destroy

Loop ==
  \/ handle_events
  \/ WaitReturnsEvents \/ WaitTimesOut \/ WaitFails(FALSE)
  \/ DispatchEvent \/ HandlerWritesToo \/ HandlerReturns
  \/ BeginTick \/ TickStep \/ EndTick

Next ==
  \/ Program
  \/ Loop
  \/ WaitFails(TRUE)
  \/ \E fd \in Handles, e \in Arrivals : Arrive(fd, e)
  \/ \E d \in ClockMoves : ClockMoved(d)

Spec == Init /\ [][Next]_vars

\* The program keeps calling handle_events, callbacks return, and time passes.
\* Nothing is assumed of I/O and signals.
FairSpec == Spec /\ WF_vars(Loop) /\ WF_vars(\E d \in ClockMoves : ClockMoved(d))

-------------------------------------------------------------------------------
(***************************************************************************)
(* Properties.                                                             *)
(***************************************************************************)
InBatch(fd) == \E i \in DOMAIN batch : batch[i].fd = fd

TypeOK ==
  /\ DOMAIN handlers \subseteq Handles
  /\ \A fd \in DOMAIN handlers : handlers[fd] \in Handlers
  /\ fd_num \in Nat
  /\ stage \in {"idle", "waiting", "dispatching", "ticking"}
  /\ batch \in Seq([fd : Handles, events : SUBSET Events])
  /\ calling \in {"none", "handle_read", "handle_write", "handle_error"}
  /\ died \in {"no", "destroyed", "assert", "null handler"}
  /\ open \subseteq Handles
  /\ DOMAIN interest \subseteq Handles
  /\ \A fd \in DOMAIN interest : interest[fd] \subseteq Events
  /\ ready \in [Handles -> SUBSET Events]
  /\ credit \in [Handles -> Int]
  /\ registered \subseteq Handlers /\ removed \in BOOLEAN
  /\ requests \in Nat /\ closes \in Nat

\* ep_evts has room for every handle epoll knows, so that none waits behind the
\* others and epoll_wait is not called with room for nothing; what fd_num_ counts
\* too many are the handles closed behind the reactor's back
\* (event_demultiplexer.cpp:27-28, 77-98).
FdNumCovers ==
  /\ Cardinality(DOMAIN interest) <= fd_num
  /\ fd_num <= Cardinality(DOMAIN interest) + closes

\* Whatever epoll may report has a handler in handlers_, also after failed
\* registrations and closed handles (reactor.cpp:76-92): the assert of
\* event_demultiplexer.cpp:34 holds when epoll_wait returns.  A handler removed, and
\* perhaps deleted by its owner, is never called again: the map the calls go through
\* names none.
MapIsCurrent ==
  /\ DOMAIN interest \subseteq DOMAIN handlers
  /\ \A fd \in DOMAIN handlers : handlers[fd] \in registered

\* A handle is disarmed by what it reports: its handler is called at most once per
\* register_handler, however the calls, the events of one batch and re-arming from
\* callbacks interleave (event_demultiplexer.cpp:75).
OneShot == \A fd \in Handles : credit[fd] >= 0

\* Dispatching a batch fails only when one of its own callbacks removed a handler
\* (event_demultiplexer.cpp:31-51).
DiesOnlyOfRemoval == died \in {"assert", "null handler"} => removed

\* A ready and armed handle gets its callback, unless the program asks for other
\* events or takes it out of the reactor.
ReadyIsServed ==
  \A fd \in Handles :
    (fd \in Reportable) ~>
       (\/ InHandler /\ fd_0 = fd
        \/ fd \notin Reportable /\ ~InBatch(fd)
        \/ died # "no")

Overdue(id) == id \in DOMAIN timer /\ timer[id].expire <= clock

\* epoll_wait does not sleep past a timer: unless one was overdue when it was called,
\* the timeout has elapsed when the first timer comes due, also where the
\* milliseconds do not fit the int (reactor.cpp:104).  The timeout is taken from the
\* top of the heap, whatever was added and deleted before.
WaitsForFirst ==
  stage = "waiting" /\ timeout >= 0 =>
    \/ \E id \in DOMAIN timer : Overdue(id)
    \/ \A id \in DOMAIN timer : deadline <= timer[id].expire

\* A due timer leaves the heap, unless handle_events was called with the first
\* timer overdue, or so far ahead that its milliseconds do not fit an int: the
\* timeout is then negative and epoll_wait waits for I/O alone (reactor.cpp:104,
\* event_demultiplexer.cpp:28).
DueTimersLeave ==
  \A id \in Timers!TimerIds :
    Overdue(id) ~> (\/ id \notin DOMAIN timer
                    \/ stage = "waiting" /\ timeout < 0
                    \/ died # "no")
===============================================================================
