----------------------------- MODULE MCProcesses -----------------------------
(***************************************************************************)
(* Several processes and what they share through the system, checked by    *)
(* one run: it is about the bloom filters in their segment and file, about *)
(* the objects of posix_shm and posix_mmap, about a program's daemon and   *)
(* its pid file, or about the loggers of one path; the other parts stay as *)
(* they began.                                                             *)
(*                                                                         *)
(* Filters: two bytes of two bits and two items that share a bit.          *)
(* Segments: two of them and a file of one or two bytes.  Daemon: three    *)
(* process numbers, three calls.  Loggers: two processes, three names, so  *)
(* that a shift renames twice, and files full after a record of two bytes, *)
(* or after the half of one; a record is written at once or kept for a     *)
(* batch of four bytes, or of one record.                                  *)
(***************************************************************************)
EXTENDS BloomFilter, TLC

CONSTANTS
  p1, p2, k1, k2,
  Ids, Lengths, Values, MaxSteps,                      \* of SharedMemory
  Pids, Tries, MaxLaunches, MaxFiles,                  \* of Daemon
  LogSizes, LogNo, Lens, LOG_BUF_LEN, BUF_SIZE, LogFiles, MaxRecords, MaxOpens

const_Hash == (k1 :> <<0, 2>>) @@ (k2 :> <<1, 2>>)

const_Modes ==
  {[batch |-> "none", arg |-> 0], [batch |-> "size", arg |-> 4], [batch |-> "count", arg |-> 1]}

VARIABLES
  subject, \* what the run is about
  at, shm, shm_id, is_created, keyed, attached, forgot, asked, addr, length, mapped,
  leaked, short, content, used, steps,
  proc, cmd, pid, tries, opened, path, text, locked, quit, launches, overlapped, struck,
  doing, fd, mode, limit, buf, len, row, name, data, logged, opens, written

objects == <<at, shm, shm_id, is_created, keyed, attached, forgot, asked, addr, length,
             mapped, leaked, short, content, used, steps>>
daemon  == <<proc, cmd, pid, tries, opened, path, text, locked, quit, launches, overlapped,
             struck>>
loggers == <<doing, fd, mode, limit, buf, len, row, name, data, logged, opens, written>>

Segment_ == INSTANCE SharedMemory

Daemon_  == INSTANCE Daemon
              WITH pc <- proc, fd <- opened, calls <- launches, MaxCalls <- MaxLaunches

Logger_  == INSTANCE LoggerProofs
              WITH pc <- doing, size <- limit, i <- row, Modes <- const_Modes,
                   Files <- LogFiles

ASSUME ProcessesAssumption ==
  /\ Segment_!SharedAssumption /\ Daemon_!DaemonAssumption /\ Logger_!LoggerAssumption

ProcessesInit ==
  /\ subject \in {"filters", "segments", "daemon", "loggers"}
  /\ Init /\ Segment_!Init /\ Daemon_!Init /\ Logger_!Init
  /\ subject # "loggers" =>
       mode = [p \in Procs |-> CHOOSE m \in const_Modes : m.batch = "none"]
         /\ limit = [p \in Procs |-> 2]

Filters  == subject = "filters" /\ Next /\ UNCHANGED <<subject, objects, daemon, loggers>>
Segments == subject = "segments" /\ Segment_!Next
              /\ UNCHANGED <<subject, vars, daemon, loggers>>
Daemons  == subject = "daemon" /\ Daemon_!Next
              /\ UNCHANGED <<subject, vars, objects, loggers>>
Loggers  == subject = "loggers" /\ Logger_!Next
              /\ UNCHANGED <<subject, vars, objects, daemon>>

ProcessesSpec ==
  ProcessesInit
    /\ [][Filters \/ Segments \/ Daemons \/ Loggers]_<<subject, vars, objects, daemon, loggers>>

\* once operations on a filter got into each other's way nothing is claimed
Apart == ~raced

AnyProc == Permutations(Procs)

-----------------------------------------------------------------------------
(***************************************************************************)
(* SharedMemory.tla, posix_shm.cpp: of the processes that have a segment   *)
(* at most one is told it created it, and what a process has attached is   *)
(* what its object points to, or stays until the process exits.            *)
(***************************************************************************)
SegmentsKnown == subject = "segments" => Segment_!SegmentsKnown

(***************************************************************************)
(* SharedMemory.tla, posix_mmap.cpp: a byte inside a mapping is inside the *)
(* file, unless the write that was to extend it failed or it was mapped    *)
(* from a descriptor too short; and a process that owns what it maps has   *)
(* no mapping but the one its object has.                                  *)
(***************************************************************************)
MappingsBacked == subject = "segments" => Segment_!MappingsBacked

(***************************************************************************)
(* Daemon.tla, process_util.cpp: as long as no start or restart ran beside *)
(* another call, the pid file names the daemon that runs.                  *)
(***************************************************************************)
DaemonIsNamed == subject = "daemon" => Daemon_!DaemonIsNamed

(***************************************************************************)
(* Daemon.tla, process_util.cpp: under the same condition no process that  *)
(* has nothing to do with the program gets a signal while a daemon runs.   *)
(***************************************************************************)
StrangersUnharmed == subject = "daemon" => Daemon_!StrangersUnharmed

(***************************************************************************)
(* Logger.tla, logger.cpp: the files from the oldest to the newest hold    *)
(* the records of each process once and in order, whoever shifts them.     *)
(***************************************************************************)
OrderKept == subject = "loggers" => Logger_!OrderKept

(***************************************************************************)
(* Logger.tla, logger.cpp: a process alone loses only what is oldest of    *)
(* what reached a file.                                                    *)
(***************************************************************************)
OnlyOldestDropped == subject = "loggers" => Logger_!OnlyOldestDropped

(***************************************************************************)
(* Logger.tla, logger.cpp: a process alone leaves no file much bigger than *)
(* log_size_, and log_buf_ is not overrun, but for the batches that        *)
(* overrun it.                                                             *)
(***************************************************************************)
SizesBounded == subject = "loggers" => Logger_!FilesBounded /\ Logger_!BufferFits
==============================================================================
