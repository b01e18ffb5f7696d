------------------------------- MODULE Epoller -------------------------------
(***************************************************************************)
(* src/src/epoller.cpp: a set of descriptors, the array epoll_wait fills   *)
(* and the scan of it by get_ready.  An event is <<fd, flag>>, the flag a  *)
(* set.                                                                    *)
(***************************************************************************)
EXTENDS Integers, Sequences, FiniteSets

CONSTANTS
  Fds,     \* the descriptors
  Flags,   \* EPOLL_READABLE, EPOLL_WRITEABLE, EPOLL_ERRORABLE
  max_fd,  \* max_fd_, the length of evs_
  Stride   \* sizeof(struct epoll_event), which scales the index once more (12)

EpollerAssumption == IsFiniteSet(Fds) /\ max_fd \in Nat \ {0} /\ Stride \in Nat \ {0}

VARIABLES
  interest,      \* the flags each descriptor is waited for with; {} is not at all
  evs,           \* evs_, from 0
  triggered_num, \* triggered_num_
  pos,           \* the caller's pos
  reported,      \* what the last wait reported
  returned       \* what the scan has returned: [at, event]

vars == <<interest, evs, triggered_num, pos, reported, returned>>

NoEvent == <<0, {}>>   \* the memset of init

TypeOK ==
  /\ interest \in [Fds -> SUBSET Flags]
  /\ evs \in [0 .. (max_fd - 1) -> (Fds \X SUBSET Flags) \cup {NoEvent}]
  /\ triggered_num \in 0 .. max_fd /\ pos \in 0 .. (max_fd + 1)

Init ==
  /\ interest = [fd \in Fds |-> {}]
  /\ evs = [n \in 0 .. (max_fd - 1) |-> NoEvent]
  /\ triggered_num = 0 /\ pos = 0 /\ reported = {} /\ returned = <<>>

\* add, modify and remove; EPOLL_CTL_ADD and the others refuse what they must
add(fd, flag) ==
  /\ interest[fd] = {}
  /\ interest' = [interest EXCEPT ![fd] = flag]
  /\ UNCHANGED <<evs, triggered_num, pos, reported, returned>>

modify(fd, flag) ==
  /\ interest[fd] # {}
  /\ interest' = [interest EXCEPT ![fd] = flag]
  /\ UNCHANGED <<evs, triggered_num, pos, reported, returned>>

remove(fd) ==
  /\ interest[fd] # {}
  /\ interest' = [interest EXCEPT ![fd] = {}]
  /\ UNCHANGED <<evs, triggered_num, pos, reported, returned>>

\* some of what is waited for is ready, each descriptor at most once; the caller
\* starts a scan
wait ==
  \E S \in SUBSET {fd \in Fds : interest[fd] # {}} :
    \E flag \in [S -> SUBSET Flags \ {{}}] :
      /\ Cardinality(S) <= max_fd
      /\ \A fd \in S : flag[fd] \subseteq interest[fd]
      /\ \E order \in [0 .. (Cardinality(S) - 1) -> S] :
           /\ \A fd \in S : \E n \in DOMAIN order : order[n] = fd
           /\ evs' = [n \in DOMAIN evs |->
                        IF n \in DOMAIN order THEN <<order[n], flag[order[n]]>> ELSE evs[n]]
      /\ reported' = {<<fd, flag[fd]>> : fd \in S}
      /\ triggered_num' = Cardinality(S)
      /\ pos' = 0 /\ returned' = <<>>
      /\ UNCHANGED interest

\* a wait that fails; a scan behind it goes through the events of the one before
WaitFails ==
  /\ pos' = 0 /\ returned' = <<>>
  /\ UNCHANGED <<interest, evs, triggered_num, reported>>

\* Mutant of get_ready: the place is not advanced.
get_readyStays ==
  /\ pos <= triggered_num /\ pos * Stride < max_fd
  /\ LET ev == evs[pos * Stride]
     IN /\ ev[2] # {} /\ Len(returned) <= max_fd
        /\ returned' = Append(returned, [at |-> pos * Stride, event |-> ev])
  /\ UNCHANGED <<interest, evs, triggered_num, pos, reported>>

(***************************************************************************)
(* A call that returns a descriptor; behind triggered_num_ or at an event  *)
(* without a flag it returns a negative number and the scan is over.       *)
(* Behind the array it reads what lies there.                              *)
(***************************************************************************)
get_ready ==
  /\ pos <= triggered_num
  /\ \E ev \in IF pos * Stride < max_fd THEN {evs[pos * Stride]} ELSE Fds \X SUBSET Flags :
       /\ ev[2] # {}
       /\ returned' = Append(returned, [at |-> pos * Stride, event |-> ev])
  /\ pos' = pos + 1
  /\ UNCHANGED <<interest, evs, triggered_num, reported>>

Next ==
  \/ \E fd \in Fds : \/ \E flag \in SUBSET Flags \ {{}} : add(fd, flag) \/ modify(fd, flag)
                     \/ remove(fd)
  \/ wait \/ WaitFails
  \/ get_ready

Spec == Init /\ [][Next]_vars

-----------------------------------------------------------------------------
(***************************************************************************)
(* What a scan returns from below triggered_num_ is what the last wait     *)
(* reported, no event twice, however often the array was filled before;    *)
(* where a wait reported anything, the first of it is found.  What lies    *)
(* between triggered_num_ and the end of the array is an older wait's.     *)
(***************************************************************************)
ScanIsCurrent ==
  /\ \A n \in DOMAIN returned :
       returned[n].at < triggered_num =>
         /\ returned[n].event \in reported
         /\ \A m \in DOMAIN returned :
              returned[m].at < triggered_num /\ returned[m].event = returned[n].event => m = n
  /\ triggered_num > 0 /\ pos = 0 => evs[0] \in reported
==============================================================================
