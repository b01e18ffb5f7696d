-------------------------------- MODULE Logger --------------------------------
(***************************************************************************)
(* src/src/logger.cpp: loggers of several processes that write records to  *)
(* one path and shift the full file to path.1, path.2, ...  Each system    *)
(* call of a logger is a step of its own.                                  *)
(***************************************************************************)
EXTENDS Integers, Sequences, FiniteSets, Functions, FiniteSetsExt

CONSTANTS
  Procs,       \* the processes
  Modes,       \* what set_batchmodel is called with: [batch |-> ..., arg |-> ...]
  LogSizes,    \* the values of log_size_
  LogNo,       \* log_no_
  Lens,        \* the lengths of a record, its time and level included
  LOG_BUF_LEN, \* the longest text of a record (4096 in the code)
  BUF_SIZE,    \* the bytes of log_buf_ (16 * LOG_BUF_LEN in the code)
  Files,       \* the files there may be at a time
  MaxRecords,  \* bound: the records logged
  MaxOpens     \* bound: how often a logger is opened, by all of them

LoggerAssumption ==
  /\ LogSizes \subseteq Nat \ {0} /\ LogNo \in Nat
  /\ Lens \subseteq Nat \ {0} /\ Lens # {} /\ IsFiniteSet(Lens)
  /\ LOG_BUF_LEN \in Nat /\ BUF_SIZE \in Nat /\ LOG_BUF_LEN <= BUF_SIZE
  /\ Modes \subseteq [batch : {"none", "size", "count"}, arg : Int]
  \* whatever is named or open, there is room for one file more
  /\ Files \subseteq Nat \ {0} /\ IsFiniteSet(Files) /\ IsFiniteSet(Procs)
  /\ Cardinality(Files) > LogNo + Cardinality(Procs)
  /\ MaxRecords \in Nat /\ MaxOpens \in Nat

None == 0    \* no file

VARIABLES
  pc,       \* where each process is in logv and shift_log
  fd,       \* log_fd_
  mode,     \* log_batch_ and batch_arg_
  size,     \* log_size_
  buf,      \* log_buf_, the records in it
  len,      \* log_buf_len_
  i,        \* the local i of shift_log
  name,     \* the file behind path (0) and behind path.1, path.2, ...
  data,     \* the records in each file
  logged,   \* how many records were logged so far
  opens,    \* how often each process opened a logger
  written   \* the records that reached a file, in that order

vars == <<pc, fd, mode, size, buf, len, i, name, data, logged, opens, written>>
disk == <<name, data, written>>
self == <<mode, size>>

Names == 0 .. LogNo

\* a record, or as much of it as a short write left in a file
Records == [by : Procs, no : 1 .. MaxRecords, len : Nat]

TypeOK ==
  /\ pc \in [Procs -> {"closed", "idle", "write", "stat", "reopen", "access", "unlink", "rename"}]
  /\ fd \in [Procs -> Files \cup {None}]
  /\ mode \in [Procs -> Modes] /\ size \in [Procs -> LogSizes]
  /\ buf \in [Procs -> Seq(Records)]
  /\ len \in [Procs -> Nat] /\ i \in [Procs -> Nat] /\ opens \in [Procs -> Nat]
  /\ name \in [Names -> Files \cup {None}]
  /\ data \in [Files -> Seq(Records)] /\ written \in Seq(Records)
  /\ logged \in 0 .. MaxRecords

Init ==
  /\ pc = [p \in Procs |-> "closed"]
  /\ fd = [p \in Procs |-> None]
  /\ \E m \in Modes, n \in LogSizes :
       mode = [p \in Procs |-> m] /\ size = [p \in Procs |-> n]
  /\ buf = [p \in Procs |-> <<>>]
  /\ len = [p \in Procs |-> 0]
  /\ i = [p \in Procs |-> 0]
  /\ name = [n \in Names |-> None]
  /\ data = [f \in Files |-> <<>>]
  /\ logged = 0
  /\ opens = [p \in Procs |-> 0]
  /\ written = <<>>

GoTo(p, l) == pc' = [pc EXCEPT ![p] = l]

Bytes(records) ==
  LET sum[n \in 0 .. Len(records)] == IF n = 0 THEN 0 ELSE sum[n - 1] + records[n].len
  IN  sum[Len(records)]

\* a file is on the disk as long as it has a name or somebody has it open
InUse(f) == (\E n \in Names : name[n] = f) \/ (\E p \in Procs : fd[p] = f)

\* open(path, O_CREAT | O_RDWR | O_APPEND)
OpenPath(p) ==
  \E f \in IF name[0] # None THEN {name[0]} ELSE {CHOOSE g \in Files : ~InUse(g)} :
    /\ name' = [name EXCEPT ![0] = f]
    /\ fd' = [fd EXCEPT ![p] = f]
    /\ data' = [data EXCEPT ![f] = IF name[0] = None THEN <<>> ELSE @]

(***************************************************************************)
(* The processes run one program, with the same modes.  open may be called *)
(* for a logger that is open, or was closed: what is in log_buf_ stays.    *)
(* Nobody uses the old descriptor again.  set_batchmodel stores the        *)
(* argument as it is in the end, and set_logno stores its argument in      *)
(* log_size_, as set_logsize does.                                         *)
(***************************************************************************)
Called(p) ==
  /\ pc[p] \in {"closed", "idle"} /\ FoldFunction(LAMBDA x, y : x + y, 0, opens) < MaxOpens
  /\ GoTo(p, "idle")
  /\ opens' = [opens EXCEPT ![p] = @ + 1]
  /\ \E n \in LogSizes : size' = [size EXCEPT ![p] = n]
  /\ UNCHANGED <<mode, buf, len, i, logged, written>>

open(p) == Called(p) /\ OpenPath(p)

OpenFails(p) == Called(p) /\ fd' = [fd EXCEPT ![p] = None] /\ UNCHANGED <<name, data>>

\* log_fd_ keeps the number of a descriptor that is no more, and log_buf_ its records
close(p) ==
  /\ pc[p] = "idle" /\ fd[p] # None
  /\ fd' = [fd EXCEPT ![p] = None]
  /\ UNCHANGED <<pc, self, buf, len, i, disk, logged, opens>>

set_logsize(p) ==
  /\ pc[p] = "idle"
  /\ \E n \in LogSizes \ {size[p]} : size' = [size EXCEPT ![p] = n]
  /\ UNCHANGED <<pc, fd, mode, buf, len, i, disk, logged, opens>>

(***************************************************************************)
(* logv: the length counted is the one the text would have had, however    *)
(* much of it was stored.  With LOG_BATCH_BY_COUNT the counter is          *)
(* compared before it is incremented, so it stays 0.                       *)
(***************************************************************************)
Waits(m, n) ==
  \/ m.batch = "size" /\ n < m.arg
  \/ m.batch = "count" /\ 0 < m.arg

logv(p) ==
  /\ pc[p] = "idle" /\ logged < MaxRecords
  /\ \E l \in Lens :
       /\ buf' = [buf EXCEPT ![p] = Append(@, [by |-> p, no |-> logged + 1, len |-> l])]
       /\ len' = [len EXCEPT ![p] = @ + l]
       /\ logged' = logged + 1
       /\ IF Waits(mode[p], len[p] + l) THEN UNCHANGED pc ELSE GoTo(p, "write")
  /\ UNCHANGED <<fd, self, i, disk, opens>>

(***************************************************************************)
(* write: nobody looks at what it returns.  Without a file nothing reaches *)
(* one; else all does, or what there is room for.  The buffer is empty     *)
(* then.                                                                   *)
(***************************************************************************)
Reaches(p, records) ==
  /\ pc[p] = "write"
  /\ IF fd[p] = None
     THEN UNCHANGED <<data, written>>
     ELSE /\ data' = [data EXCEPT ![fd[p]] = @ \o records]
          /\ written' = written \o records
  /\ buf' = [buf EXCEPT ![p] = <<>>]
  /\ len' = [len EXCEPT ![p] = 0]
  /\ GoTo(p, "stat")
  /\ UNCHANGED <<fd, self, i, name, logged, opens>>

\* the first k records and n bytes of the next one
Part(records, k, n) ==
  SubSeq(records, 1, k) \o IF n = 0 THEN <<>> ELSE <<[records[k + 1] EXCEPT !.len = n]>>

Writes(p) == Reaches(p, buf[p])

WritesShort(p) ==
  \E k \in 0 .. (Len(buf[p]) - 1) : \E n \in 0 .. (buf[p][k + 1].len - 1) :
    Reaches(p, Part(buf[p], k, n))

(***************************************************************************)
(* shift_log                                                               *)
(***************************************************************************)
\* Mutant of Stats: a missing path is left for the next call.
StatsNoReopen(p) ==
  /\ pc[p] = "stat"
  /\ LET full == name[0] # None /\ Bytes(data[name[0]]) >= size[p] /\ LogNo >= 2
     IN /\ i' = [i EXCEPT ![p] = IF full THEN LogNo - 2 ELSE 0]
        /\ GoTo(p, IF full THEN "access" ELSE "idle")
  /\ UNCHANGED <<fd, self, buf, len, disk, logged, opens>>

Stats(p) ==
  /\ pc[p] = "stat"
  /\ LET full == name[0] # None /\ Bytes(data[name[0]]) >= size[p] /\ LogNo >= 2
     IN /\ i' = [i EXCEPT ![p] = IF full THEN LogNo - 2 ELSE 0]
        /\ GoTo(p, IF name[0] = None THEN "reopen" ELSE IF full THEN "access" ELSE "idle")
  /\ UNCHANGED <<fd, self, buf, len, disk, logged, opens>>

\* the path is gone: the old file is closed, the path opened again
Reopens(p) ==
  /\ pc[p] = "reopen"
  /\ OpenPath(p)
  /\ GoTo(p, "idle")
  /\ UNCHANGED <<self, buf, len, i, logged, opens, written>>

ReopenFails(p) ==
  /\ pc[p] = "reopen"
  /\ fd' = [fd EXCEPT ![p] = None]
  /\ GoTo(p, "idle")
  /\ UNCHANGED <<self, buf, len, i, disk, logged, opens>>

\* on to the next newer name, or out of the loop
Onwards(p) ==
  /\ GoTo(p, IF i[p] = 0 THEN "idle" ELSE "access")
  /\ i' = [i EXCEPT ![p] = IF @ = 0 THEN 0 ELSE @ - 1]

\* access: where there is no such file the loop goes on
Accesses(p) ==
  /\ pc[p] = "access"
  /\ IF name[i[p]] = None THEN Onwards(p) ELSE GoTo(p, "unlink") /\ UNCHANGED i
  /\ UNCHANGED <<fd, self, buf, len, disk, logged, opens>>

\* Mutant of Unlinks: the file to be renamed is removed, not the one in its way.
UnlinksOld(p) ==
  /\ pc[p] = "unlink"
  /\ name' = [name EXCEPT ![i[p]] = None]
  /\ GoTo(p, "rename")
  /\ UNCHANGED <<fd, self, buf, len, i, data, logged, opens, written>>

Unlinks(p) ==
  /\ pc[p] = "unlink"
  /\ name' = [name EXCEPT ![i[p] + 1] = None]
  /\ GoTo(p, "rename")
  /\ UNCHANGED <<fd, self, buf, len, i, data, logged, opens, written>>

\* Mutant of Renames: a copy is left behind.
RenamesCopying(p) ==
  /\ pc[p] = "rename"
  /\ name' = [name EXCEPT ![i[p] + 1] = name[i[p]]]
  /\ Onwards(p)
  /\ UNCHANGED <<fd, self, buf, len, data, logged, opens, written>>

\* rename replaces what has the new name; it fails where the old one is gone
Renames(p) ==
  /\ pc[p] = "rename"
  /\ IF name[i[p]] = None
     THEN GoTo(p, "idle") /\ i' = [i EXCEPT ![p] = 0] /\ UNCHANGED name
     ELSE /\ name' = [name EXCEPT ![i[p] + 1] = name[i[p]], ![i[p]] = None]
          /\ Onwards(p)
  /\ UNCHANGED <<fd, self, buf, len, data, logged, opens, written>>

\* the process ends, also by a crash at any step: the destructor's close does not
\* write what is in the buffer, it is lost
Ends(p) ==
  /\ pc[p] # "closed"
  /\ GoTo(p, "closed")
  /\ fd' = [fd EXCEPT ![p] = None]
  /\ buf' = [buf EXCEPT ![p] = <<>>]
  /\ len' = [len EXCEPT ![p] = 0]
  /\ i' = [i EXCEPT ![p] = 0]
  /\ UNCHANGED <<self, disk, logged, opens>>

Next ==
  \E p \in Procs :
    \/ open(p) \/ OpenFails(p) \/ close(p) \/ set_logsize(p)
    \/ logv(p) \/ Writes(p) \/ WritesShort(p) \/ Stats(p)
    \/ Reopens(p) \/ ReopenFails(p)
    \/ Accesses(p) \/ Unlinks(p) \/ Renames(p)
    \/ Ends(p)

Spec == Init /\ [][Next]_vars

-----------------------------------------------------------------------------
(***************************************************************************)
(* However the shifts of two processes interleave, and wherever one of     *)
(* them dies in the middle: read from the oldest file to the newest, the   *)
(* records of each process come in the order they were logged in, and no   *)
(* record comes twice.                                                     *)
(***************************************************************************)
OrderKept ==
  \A a, b \in {n \in Names : name[n] # None} :
    LET older == data[name[a]]
        newer == data[name[b]]
    IN \A m \in DOMAIN older, n \in DOMAIN newer :
         (a > b \/ (a = b /\ m < n)) /\ older[m].by = newer[n].by => older[m].no < newer[n].no

\* what a reader finds in the files, from the oldest one to the newest
Kept ==
  LET read[n \in 0 .. (LogNo + 1)] ==
        IF n = 0 THEN <<>>
        ELSE read[n - 1] \o (IF name[LogNo + 1 - n] = None THEN <<>>
                             ELSE data[name[LogNo + 1 - n]])
  IN  read[LogNo + 1]

Alone(p) == \A q \in Procs \ {p} : opens[q] = 0

(***************************************************************************)
(* A process alone loses only what is oldest of what reached a file: a     *)
(* reader finds the last records written, log_size_ bytes of them at least *)
(* (of one of its values), across crashes in the middle of a shift, short  *)
(* and failed writes and failed opens.  With a second process a shift may  *)
(* drop a file that has just been filled, and whoever is left with an      *)
(* unlinked file writes to it until path is missing once more.             *)
(***************************************************************************)
OnlyOldestDropped ==
  \A p \in Procs :
    Alone(p) =>
      LET lost == Len(written) - Len(Kept)
      IN /\ lost >= 0 /\ Kept = SubSeq(written, lost + 1, Len(written))
         /\ lost = 0 \/ LogNo < 2 \/ \E n \in LogSizes : Bytes(Kept) >= n

\* the most one write of a process has
MaxWrite(p) ==
  Max(Lens) + IF mode[p].batch = "size" /\ mode[p].arg > 0 THEN mode[p].arg - 1 ELSE 0

(***************************************************************************)
(* A process alone leaves no file bigger than log_size_ and the write that *)
(* filled it and the one after the shift, which still goes to the renamed  *)
(* file - and one more for each time it was opened again.  With a second   *)
(* process there is no bound: the one that did not shift writes to the     *)
(* renamed file as long as it finds a file behind path.                    *)
(***************************************************************************)
FilesBounded ==
  \A p \in Procs :
    Alone(p) /\ LogNo >= 2 =>
      \A n \in Names : name[n] # None =>
        \E s \in LogSizes : Bytes(data[name[n]]) < s + (opens[p] + 1) * MaxWrite(p)

(***************************************************************************)
(* log_buf_ is not overrun by messages shorter than LOG_BUF_LEN, unless    *)
(* they are batched by count (nothing is ever written) or by a size the    *)
(* buffer does not have: set_batchmodel caps its argument and then stores  *)
(* it uncapped.                                                            *)
(***************************************************************************)
BufferFits ==
  \A p \in Procs :
    \/ len[p] <= BUF_SIZE
    \/ \E l \in Lens : l > LOG_BUF_LEN
    \/ mode[p].batch = "count"
    \/ mode[p].batch = "size" /\ mode[p].arg > BUF_SIZE - LOG_BUF_LEN
==============================================================================
