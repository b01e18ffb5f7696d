-------------------------------- MODULE Daemon --------------------------------
(***************************************************************************)
(* src/src/process_util.cpp: a program becomes a daemon, is stopped and is *)
(* restarted by calls of short-lived processes that find the daemon by the *)
(* number in a pid file.  Every step between two system calls of a call    *)
(* may be interleaved with steps of other calls, with the death of any     *)
(* process and with the kernel giving a free number to a stranger.         *)
(***************************************************************************)
EXTENDS Integers, FiniteSets

CONSTANTS
  Pids,      \* the process numbers, positive
  Tries,     \* how often daemon_stop sends its signal again (300 in the code)
  MaxCalls,  \* bound: calls of the public functions
  MaxFiles   \* bound: files that ever carry the name of the pid file

DaemonAssumption ==
  /\ Pids \subseteq Nat \ {0} /\ IsFiniteSet(Pids)
  /\ Tries \in Nat /\ MaxCalls \in Nat /\ MaxFiles \in Nat

Commands == {"start", "stop", "restart"}
Files    == 1 .. MaxFiles
None     == 0             \* no file, no owner of a lock, nothing in a file

VARIABLES
  pc,          \* what each process is at; "free" is a number in nobody's use
  cmd,         \* the function a process called
  pid,         \* its local pid: the number read from the pid file, -1 if none
  tries,       \* its local i in daemon_stop
  fd,          \* the file it has open for writing
  path,        \* the file that has the name of the pid file
  text,        \* the number in each file
  locked,      \* the process that holds the lock of each file
  quit,        \* processes with a SIGQUIT they have not died of yet
  calls,       \* how many calls were made
  overlapped,  \* has a call that starts ever run beside another call?
  struck       \* the signals that reached a stranger: who sent them and when

vars == <<pc, cmd, pid, tries, fd, path, text, locked, quit, calls, overlapped, struck>>
file == <<path, text, locked>>

Idle       == {"free", "other", "foreign", "daemon"}
InCall(p)  == pc[p] \notin Idle
Starts(p)  == cmd[p] \in {"start", "restart"}
Running    == {p \in Pids : pc[p] = "daemon"}
Content    == IF path = None THEN None ELSE text[path]

TypeOK ==
  /\ pc \in [Pids -> Idle \cup {"start", "probe", "fork", "open", "lock", "write",
                                "close", "stop", "kill", "wait", "unlink",
                                "restart", "reprobe"}]
  /\ cmd \in [Pids -> Commands]
  /\ pid \in [Pids -> Pids \cup {-1}]
  /\ tries \in [Pids -> 0 .. Tries]
  /\ fd \in [Pids -> Files \cup {None}]
  /\ path \in Files \cup {None}
  /\ text \in [Files -> Pids \cup {None}]
  /\ locked \in [Files -> Pids \cup {None}]
  /\ quit \subseteq Pids
  /\ calls \in 0 .. MaxCalls
  /\ overlapped \in BOOLEAN
  /\ struck \subseteq [by : Commands, found : Pids \cup {-1}, running : BOOLEAN]

Init ==
  /\ pc = [p \in Pids |-> "free"]
  /\ cmd = [p \in Pids |-> "start"]
  /\ pid = [p \in Pids |-> -1]
  /\ tries = [p \in Pids |-> 0]
  /\ fd = [p \in Pids |-> None]
  /\ path = None
  /\ text = [f \in Files |-> None]
  /\ locked = [f \in Files |-> None]
  /\ quit = {}
  /\ calls = 0
  /\ overlapped = FALSE
  /\ struck = {}

GoTo(p, l) == pc' = [pc EXCEPT ![p] = l]

\* the memory of a process goes with it
Forgotten(p) ==
  /\ cmd' = [cmd EXCEPT ![p] = "start"]
  /\ pid' = [pid EXCEPT ![p] = -1]
  /\ tries' = [tries EXCEPT ![p] = 0]
  /\ fd' = [fd EXCEPT ![p] = None]

\* a process is gone: its locks and what it was doing go with it
Gone(p) ==
  /\ GoTo(p, "free")
  /\ quit' = quit \ {p}
  /\ locked' = [f \in Files |-> IF locked[f] = p THEN None ELSE locked[f]]
  /\ Forgotten(p)
  /\ UNCHANGED <<path, text, calls, overlapped, struck>>

(***************************************************************************)
(* The kernel: kill finds a process of the same user, one it may not       *)
(* signal, or none.  The number -1 means every process of the user but the *)
(* sender, as kill(2) has it.                                              *)
(***************************************************************************)
Mine(q)       == pc[q] \notin {"free", "foreign"}
Targets(p, n) == IF n = -1 THEN {q \in Pids \ {p} : Mine(q)} ELSE {q \in {n} : Mine(q)}

\* a free number goes to a process that has nothing to do with the program
Spawn(p) ==
  /\ pc[p] = "free"
  /\ \E kind \in {"other", "foreign"} : GoTo(p, kind)
  /\ UNCHANGED <<cmd, pid, tries, fd, file, quit, calls, overlapped, struck>>

\* a process dies of its SIGQUIT, crashes, or ends by itself: the daemon that
\* daemon_process started does so at once, by exit(ret)
Dies(p) == pc[p] # "free" /\ Gone(p)

(***************************************************************************)
(* A process is started, by a shell or a script, that makes one call.      *)
(***************************************************************************)
Launch(p, c) ==
  /\ pc[p] = "free" /\ calls < MaxCalls
  /\ GoTo(p, c)
  /\ cmd' = [cmd EXCEPT ![p] = c]
  /\ calls' = calls + 1
  /\ overlapped' = (overlapped \/ \E q \in Pids : InCall(q) /\ (c # "stop" \/ Starts(q)))
  /\ UNCHANGED <<pid, tries, fd, file, quit, struck>>

getpidfromfile(p) ==
  pid' = [pid EXCEPT ![p] = IF Content = None THEN -1 ELSE Content]

(***************************************************************************)
(* daemon_start                                                            *)
(***************************************************************************)
StartReads(p) ==
  /\ pc[p] = "start"
  /\ getpidfromfile(p)
  /\ GoTo(p, "probe")
  /\ UNCHANGED <<cmd, tries, fd, file, quit, calls, overlapped, struck>>

\* a number nobody has, or no number, lets the start go on
StartProbes(p) ==
  /\ pc[p] = "probe"
  /\ pid[p] > 0 => pc[pid[p]] = "free"
  /\ GoTo(p, "fork")
  /\ UNCHANGED <<cmd, pid, tries, fd, file, quit, calls, overlapped, struck>>

\* "daemon exists, use restart"
StartRefused(p) ==
  /\ pc[p] = "probe"
  /\ pid[p] > 0 /\ pc[pid[p]] # "free"
  /\ Gone(p)

\* the parent is init already, or fork or setsid fails
StartFails(p) == pc[p] = "fork" /\ Gone(p)

\* the child goes on under a new number, the caller exits with 0
do_fork(p) ==
  /\ pc[p] = "fork"
  /\ \E q \in Pids :
       /\ pc[q] = "free"
       /\ pc' = [pc EXCEPT ![p] = "free", ![q] = "open"]
       /\ cmd' = [cmd EXCEPT ![q] = cmd[p], ![p] = "start"]
       /\ pid' = [pid EXCEPT ![q] = pid[p], ![p] = -1]
       /\ quit' = quit \ {p}
  /\ UNCHANGED <<tries, fd, file, calls, overlapped, struck>>

\* writepidtofile opens the file with O_CREAT and O_TRUNC ...
Opens(p) ==
  /\ pc[p] = "open"
  /\ \E f \in IF path # None THEN {path} ELSE {g \in Files : text[g] = None /\ \A q \in Pids : fd[q] # g} :
       /\ path' = f
       /\ text' = [text EXCEPT ![f] = None]
       /\ fd' = [fd EXCEPT ![p] = f]
  /\ GoTo(p, "lock")
  /\ UNCHANGED <<cmd, pid, tries, locked, quit, calls, overlapped, struck>>

\* ... then asks for the lock without waiting ...
Locks(p) ==
  /\ pc[p] = "lock"
  /\ locked[fd[p]] = None
  /\ locked' = [locked EXCEPT ![fd[p]] = p]
  /\ GoTo(p, "write")
  /\ UNCHANGED <<cmd, pid, tries, fd, path, text, quit, calls, overlapped, struck>>

LockFails(p) == pc[p] = "lock" /\ locked[fd[p]] # None /\ Gone(p)

\* ... writes its own number ...
Writes(p) ==
  /\ pc[p] = "write"
  /\ text' = [text EXCEPT ![fd[p]] = p]
  /\ GoTo(p, "close")
  /\ UNCHANGED <<cmd, pid, tries, fd, path, locked, quit, calls, overlapped, struck>>

WriteFails(p) == pc[p] = "write" /\ Gone(p)

\* ... and closes the file, which gives up the lock: the process is the daemon
Closes(p) ==
  /\ pc[p] = "close"
  /\ locked' = [locked EXCEPT ![fd[p]] = None]
  /\ Forgotten(p)
  /\ GoTo(p, "daemon")
  /\ UNCHANGED <<path, text, quit, calls, overlapped, struck>>

(***************************************************************************)
(* daemon_stop                                                             *)
(***************************************************************************)
StopReads(p) ==
  /\ pc[p] = "stop"
  /\ getpidfromfile(p)
  /\ tries' = [tries EXCEPT ![p] = 0]
  /\ GoTo(p, "kill")
  /\ UNCHANGED <<cmd, fd, file, quit, calls, overlapped, struck>>

\* kill(pid, SIGQUIT) where it succeeds
Signals(p) ==
  /\ Targets(p, pid[p]) # {}
  /\ quit' = quit \cup Targets(p, pid[p])
  /\ struck' = IF \E q \in Targets(p, pid[p]) : pc[q] = "other"
               THEN struck \cup {[by |-> cmd[p], found |-> pid[p], running |-> Running # {}]}
               ELSE struck

StopKills(p) ==
  /\ pc[p] = "kill"
  /\ Signals(p)
  /\ GoTo(p, "wait")
  /\ UNCHANGED <<cmd, pid, tries, fd, file, calls, overlapped>>

\* "program not exists": -1, which ends a restart as well
StopFindsNone(p) == pc[p] = "kill" /\ Targets(p, pid[p]) = {} /\ Gone(p)

\* the signal is sent again every 10 milliseconds
StopKillsAgain(p) ==
  /\ pc[p] = "wait" /\ tries[p] < Tries
  /\ Signals(p)
  /\ tries' = [tries EXCEPT ![p] = tries[p] + 1]
  /\ UNCHANGED <<pc, cmd, pid, fd, file, calls, overlapped>>

\* Mutant of StopGivesUp: the pid file is removed all the same.
StopGivesUpUnlinking(p) ==
  /\ pc[p] = "wait" /\ tries[p] = Tries
  /\ GoTo(p, "unlink")
  /\ UNCHANGED <<cmd, pid, tries, fd, file, quit, calls, overlapped, struck>>

\* "but still exists after 3 seconds"
StopGivesUp(p) == pc[p] = "wait" /\ tries[p] = Tries /\ Gone(p)

StopSeesEnd(p) ==
  /\ pc[p] = "wait" /\ tries[p] < Tries
  /\ Targets(p, pid[p]) = {}
  /\ GoTo(p, "unlink")
  /\ UNCHANGED <<cmd, pid, tries, fd, file, quit, calls, overlapped, struck>>

\* the name goes, whichever file has it by now; a restart goes on to start
Unlinks(p) ==
  /\ pc[p] = "unlink"
  /\ path' = None
  /\ text' = [f \in Files |-> IF f = path /\ \A q \in Pids : fd[q] # f THEN None ELSE text[f]]
  /\ IF cmd[p] = "restart"
     THEN /\ GoTo(p, "start")
          /\ UNCHANGED <<cmd, pid, tries, fd, quit>>
     ELSE /\ GoTo(p, "free")
          /\ quit' = quit \ {p}
          /\ Forgotten(p)
  /\ UNCHANGED <<locked, calls, overlapped, struck>>

(***************************************************************************)
(* daemon_restart: it reads the file, and daemon_stop reads it once more.  *)
(***************************************************************************)
\* Mutant of RestartReads: daemon_stop is called whatever the file says.
RestartReadsStops(p) ==
  /\ pc[p] = "restart"
  /\ getpidfromfile(p)
  /\ GoTo(p, "stop")
  /\ UNCHANGED <<cmd, tries, fd, file, quit, calls, overlapped, struck>>

RestartReads(p) ==
  /\ pc[p] = "restart"
  /\ getpidfromfile(p)
  /\ GoTo(p, IF Content = None THEN "start" ELSE "reprobe")
  /\ UNCHANGED <<cmd, tries, fd, file, quit, calls, overlapped, struck>>

RestartProbes(p) ==
  /\ pc[p] = "reprobe"
  /\ pc[pid[p]] # "foreign"
  /\ GoTo(p, IF pc[pid[p]] = "free" THEN "start" ELSE "stop")
  /\ UNCHANGED <<cmd, pid, tries, fd, file, quit, calls, overlapped, struck>>

\* "do not have permission to kill process"
RestartRefused(p) == pc[p] = "reprobe" /\ pc[pid[p]] = "foreign" /\ Gone(p)

Next ==
  \E p \in Pids :
    \/ Spawn(p) \/ Dies(p)
    \/ \E c \in Commands : Launch(p, c)
    \/ StartReads(p) \/ StartProbes(p) \/ StartRefused(p) \/ StartFails(p)
    \/ do_fork(p)
    \/ Opens(p) \/ Locks(p) \/ LockFails(p) \/ Writes(p) \/ WriteFails(p) \/ Closes(p)
    \/ StopReads(p) \/ StopKills(p) \/ StopFindsNone(p) \/ StopKillsAgain(p)
    \/ StopGivesUp(p) \/ StopSeesEnd(p) \/ Unlinks(p)
    \/ RestartReads(p) \/ RestartProbes(p) \/ RestartRefused(p)

Spec == Init /\ [][Next]_vars

-----------------------------------------------------------------------------
(***************************************************************************)
(* As long as a start or a restart never ran beside another call, stops    *)
(* may overlap, processes die at any step and numbers be given away again: *)
(* the pid file names the daemon that runs, so there is one at most.       *)
(* Beside another call it may not: the loser of the lock has truncated the *)
(* file already, the lock is gone when the second start asks for it, and   *)
(* the unlink of a stop removes the file of the daemon started meanwhile.  *)
(***************************************************************************)
DaemonIsNamed ==
  ~overlapped => \A p \in Running : Content = p

(***************************************************************************)
(* Under the same condition a process that has nothing to do with the      *)
(* program gets a SIGQUIT only when no daemon runs: by a stop that found   *)
(* no number and signals everybody, or by a number that was given away     *)
(* since.  A restart signals everybody only where another call took the    *)
(* file away between its two looks at it.                                  *)
(***************************************************************************)
StrangersUnharmed ==
  ~overlapped => \A s \in struck : ~s.running /\ (s.by = "restart" => s.found > 0)
==============================================================================
