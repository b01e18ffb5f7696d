----------------------------- MODULE SharedMemory -----------------------------
(***************************************************************************)
(* src/src/posix_shm.cpp and src/src/posix_mmap.cpp: an object of each in  *)
(* every process, the segments of one key and one file behind them.  Each  *)
(* system call is a step of its own.                                       *)
(***************************************************************************)
EXTENDS Integers, Sequences

CONSTANTS
  Procs,     \* the processes
  Ids,       \* the segments there may ever be
  Lengths,   \* the lengths a file is mapped with
  Values,    \* what is stored in a byte, but for 0
  MaxSteps   \* bound: the calls made

SharedAssumption ==
  /\ Ids \subseteq Nat \ {0}
  /\ Lengths \subseteq Nat \ {0} /\ 0 \notin Values /\ MaxSteps \in Nat

None == 0

VARIABLES
  at,         \* where each process is in get or open
  shm,        \* posix_shm::shm_, the segment it points into
  shm_id,     \* posix_shm::shm_id_
  is_created, \* posix_shm::is_created_
  keyed,      \* the segment that has the key
  attached,   \* how often each process has each segment attached
  forgot,     \* processes with an attachment no object knows of
  asked,      \* the argument length of posix_mmap::open
  addr,       \* posix_mmap::addr_, is it set?
  length,     \* posix_mmap::length_
  mapped,     \* how many mappings each process has
  leaked,     \* processes with a mapping no object knows of
  short,      \* history: whose file was too short when its write failed, or
              \* when it was given as a descriptor
  content,    \* the bytes of the file
  used,       \* the segments there have been
  steps       \* how many calls were made

vars == <<at, shm, shm_id, is_created, keyed, attached, forgot, asked, addr, length, mapped,
          leaked, short, content, used, steps>>
segment == <<shm, shm_id, is_created, keyed, attached, used>>
mapping == <<asked, addr, length, mapped, leaked, short, content>>

Init ==
  /\ at = [p \in Procs |-> "idle"]
  /\ shm = [p \in Procs |-> None]
  /\ shm_id = [p \in Procs |-> None]
  /\ is_created = [p \in Procs |-> TRUE]
  /\ keyed = None
  /\ attached = [p \in Procs |-> [d \in Ids |-> 0]]
  /\ forgot = {}
  /\ asked = [p \in Procs |-> 0]
  /\ addr = [p \in Procs |-> FALSE]
  /\ length = [p \in Procs |-> 0]
  /\ mapped = [p \in Procs |-> 0]
  /\ leaked = {}
  /\ short = {}
  /\ content = <<>>
  /\ used = {}
  /\ steps = 0

GoTo(p, l) == at' = [at EXCEPT ![p] = l]
Called     == steps < MaxSteps /\ steps' = steps + 1

\* a segment exists while it has the key or somebody has it attached
Exists(d) == keyed = d \/ \E q \in Procs : attached[q][d] > 0

\* the kernel numbers them one by one
Fresh == {d \in Ids \ used : \A e \in Ids \ used : d <= e}

(***************************************************************************)
(* posix_shm.  get creates the segment or, where IPC_EXCL refuses, looks   *)
(* it up; what the object pointed to before is forgotten.                  *)
(***************************************************************************)
\* Mutant of get: without IPC_EXCL the segment that is there counts as created.
getShared(p) ==
  /\ at[p] = "idle" /\ Called
  /\ \E d \in IF keyed = None THEN Fresh ELSE {keyed} :
       /\ keyed' = d /\ used' = used \cup {d}
       /\ shm_id' = [shm_id EXCEPT ![p] = d]
  /\ is_created' = [is_created EXCEPT ![p] = TRUE]
  /\ GoTo(p, "attach")
  /\ UNCHANGED <<shm, attached, forgot, mapping>>

get(p) ==
  /\ at[p] = "idle" /\ Called
  /\ IF keyed = None
     THEN \E d \in Fresh :
            /\ keyed' = d /\ used' = used \cup {d}
            /\ shm_id' = [shm_id EXCEPT ![p] = d]
            /\ is_created' = [is_created EXCEPT ![p] = TRUE]
            /\ GoTo(p, "attach")
     ELSE /\ is_created' = [is_created EXCEPT ![p] = FALSE]
          /\ GoTo(p, "lookup")
          /\ UNCHANGED <<keyed, used, shm_id>>
  /\ UNCHANGED <<shm, attached, forgot, mapping>>

\* by now the segment may have been destroyed
LooksUp(p) ==
  /\ at[p] = "lookup"
  /\ shm_id' = [shm_id EXCEPT ![p] = keyed]
  /\ GoTo(p, IF keyed = None THEN "idle" ELSE "attach")
  /\ UNCHANGED <<shm, is_created, keyed, attached, used, forgot, mapping, steps>>

Attaches(p) ==
  /\ at[p] = "attach"
  /\ IF Exists(shm_id[p])
     THEN /\ shm' = [shm EXCEPT ![p] = shm_id[p]]
          /\ attached' = [attached EXCEPT ![p][shm_id[p]] = @ + 1]
     ELSE shm' = [shm EXCEPT ![p] = None] /\ UNCHANGED attached
  /\ forgot' = IF shm[p] = None THEN forgot ELSE forgot \cup {p}
  /\ GoTo(p, "idle")
  /\ UNCHANGED <<shm_id, is_created, keyed, used, mapping, steps>>

detach(p) ==
  /\ at[p] = "idle" /\ shm[p] # None /\ Called
  /\ attached' = [attached EXCEPT ![p][shm[p]] = @ - 1]
  /\ shm' = [shm EXCEPT ![p] = None]
  /\ UNCHANGED <<at, shm_id, is_created, keyed, used, forgot, mapping>>

\* the segment loses its key, and the object its pointer, but nobody detaches
destroy(p) ==
  /\ at[p] = "idle" /\ shm[p] # None /\ Called
  /\ keyed' = IF keyed = shm_id[p] THEN None ELSE keyed
  /\ shm' = [shm EXCEPT ![p] = None]
  /\ forgot' = forgot \cup {p}
  /\ UNCHANGED <<at, shm_id, is_created, attached, used, mapping>>

\* a new object takes the place of one that owns its segment, or does not
Renews(p) ==
  /\ at[p] = "idle" /\ shm[p] # None /\ Called
  /\ \E is_owner \in BOOLEAN :
       /\ attached' = [attached EXCEPT ![p][shm[p]] = IF is_owner THEN @ - 1 ELSE @]
       /\ forgot' = IF is_owner THEN forgot ELSE forgot \cup {p}
  /\ shm' = [shm EXCEPT ![p] = None]
  /\ shm_id' = [shm_id EXCEPT ![p] = None]
  /\ is_created' = [is_created EXCEPT ![p] = TRUE]
  /\ UNCHANGED <<at, keyed, used, mapping>>

(***************************************************************************)
(* posix_mmap.  open closes what it has open, if the object owns it, opens *)
(* or creates the file, writes a 0 where the last byte is to be and maps   *)
(* the file.  What write returns is ignored: the file may stay too short.  *)
(***************************************************************************)
\* an object that owns its mapping unmaps it, if it has one
Unmaps(p, is_owner) ==
  /\ addr' = [addr EXCEPT ![p] = @ /\ ~is_owner]
  /\ length' = [length EXCEPT ![p] = IF addr[p] /\ is_owner THEN 0 ELSE @]
  /\ mapped' = [mapped EXCEPT ![p] = IF addr[p] /\ is_owner THEN @ - 1 ELSE @]

\* the file may not be opened at all; then NULL is returned
open(p) ==
  /\ at[p] = "idle" /\ Called
  /\ \E is_owner \in BOOLEAN : Unmaps(p, is_owner)
  /\ \/ GoTo(p, "extend") /\ \E n \in Lengths : asked' = [asked EXCEPT ![p] = n]
     \/ UNCHANGED <<at, asked>>
  /\ UNCHANGED <<segment, forgot, short, leaked, content>>

\* Mutant of LastByte: one to the left.
LastByteShort(p) == asked[p] - 1

\* where lseek goes
LastByte(p) == asked[p]

Extends(p) ==
  /\ at[p] = "extend"
  /\ LET last == IF LastByte(p) > Len(content) THEN LastByte(p) ELSE Len(content)
     IN content' = [n \in 1 .. last |->
                      IF n = LastByte(p) \/ n > Len(content) THEN 0 ELSE content[n]]
  /\ short' = short \ {p}
  /\ GoTo(p, "map")
  /\ UNCHANGED <<segment, forgot, asked, leaked, addr, length, mapped, steps>>

\* no room on the disk, or past the limit of a file
ExtendFails(p) ==
  /\ at[p] = "extend"
  /\ short' = IF asked[p] > Len(content) THEN short \cup {p} ELSE short \ {p}
  /\ GoTo(p, "map")
  /\ UNCHANGED <<segment, forgot, asked, leaked, addr, length, mapped, content, steps>>

\* what an object maps that still has a mapping, not its own, takes its place
Maps(p) ==
  /\ at[p] = "map"
  /\ addr' = [addr EXCEPT ![p] = TRUE]
  /\ length' = [length EXCEPT ![p] = asked[p]]
  /\ mapped' = [mapped EXCEPT ![p] = @ + 1]
  /\ leaked' = IF addr[p] THEN leaked \cup {p} ELSE leaked
  /\ asked' = [asked EXCEPT ![p] = 0]
  /\ GoTo(p, "idle")
  /\ UNCHANGED <<segment, forgot, short, content, steps>>

MapFails(p) ==
  /\ at[p] = "map"
  /\ addr' = [addr EXCEPT ![p] = FALSE]
  /\ leaked' = IF addr[p] THEN leaked \cup {p} ELSE leaked
  /\ asked' = [asked EXCEPT ![p] = 0]
  /\ GoTo(p, "idle")
  /\ UNCHANGED <<segment, forgot, short, length, mapped, content, steps>>

\* the other open maps what a descriptor of the file stands for, long enough or not
openFd(p) ==
  /\ at[p] = "idle" /\ Called
  /\ \E is_owner \in BOOLEAN, n \in Lengths, maps \in BOOLEAN :
       LET kept == addr[p] /\ ~is_owner
       IN /\ addr' = [addr EXCEPT ![p] = maps]
          /\ length' = [length EXCEPT ![p] =
                          IF maps THEN n ELSE IF addr[p] /\ is_owner THEN 0 ELSE @]
          /\ mapped' = [mapped EXCEPT ![p] =
                          @ + (IF maps THEN 1 ELSE 0) - (IF addr[p] /\ is_owner THEN 1 ELSE 0)]
          /\ leaked' = IF kept THEN leaked \cup {p} ELSE leaked
          /\ short' = IF n > Len(content) THEN short \cup {p} ELSE short \ {p}
  /\ UNCHANGED <<at, segment, forgot, asked, content>>

close(p) ==
  /\ at[p] = "idle" /\ addr[p] /\ Called
  /\ Unmaps(p, TRUE)
  /\ UNCHANGED <<at, segment, forgot, asked, short, leaked, content>>

\* a new object takes the place of one that does not own its mapping
Abandons(p) ==
  /\ at[p] = "idle" /\ addr[p] /\ Called
  /\ addr' = [addr EXCEPT ![p] = FALSE]
  /\ length' = [length EXCEPT ![p] = 0]
  /\ leaked' = leaked \cup {p}
  /\ UNCHANGED <<at, segment, forgot, asked, short, mapped, content>>

\* the process writes through its mapping; behind the end of the file it would be
\* killed, which is Exit
Store(p) ==
  /\ at[p] = "idle" /\ addr[p] /\ Called
  /\ \E n \in (1 .. length[p]) \cap DOMAIN content, v \in Values :
       content' = [content EXCEPT ![n] = v]
  /\ UNCHANGED <<at, segment, forgot, asked, short, leaked, addr, length, mapped>>

\* the process ends; the kernel drops what it has attached and mapped
Exit(p) ==
  /\ Called
  /\ GoTo(p, "idle")
  /\ shm' = [shm EXCEPT ![p] = None]
  /\ shm_id' = [shm_id EXCEPT ![p] = None]
  /\ is_created' = [is_created EXCEPT ![p] = TRUE]
  /\ attached' = [attached EXCEPT ![p] = [d \in Ids |-> 0]]
  /\ addr' = [addr EXCEPT ![p] = FALSE]
  /\ length' = [length EXCEPT ![p] = 0]
  /\ mapped' = [mapped EXCEPT ![p] = 0]
  /\ asked' = [asked EXCEPT ![p] = 0]
  /\ forgot' = forgot \ {p}
  /\ leaked' = leaked \ {p}
  /\ short' = short \ {p}
  /\ UNCHANGED <<keyed, used, content>>

Next ==
  \E p \in Procs :
    \/ get(p) \/ LooksUp(p) \/ Attaches(p) \/ detach(p) \/ destroy(p) \/ Renews(p)
    \/ open(p) \/ Extends(p) \/ ExtendFails(p) \/ Maps(p) \/ MapFails(p)
    \/ openFd(p) \/ close(p) \/ Abandons(p) \/ Store(p) \/ Exit(p)

Spec == Init /\ [][Next]_vars

-----------------------------------------------------------------------------
(***************************************************************************)
(* However gets, destroys and exits of processes interleave: of those that *)
(* have a segment at most one is told that it created it, which is what a  *)
(* caller initializes the segment by; and what a process has attached is   *)
(* what its object points to, unless it destroyed the segment or got       *)
(* another one without a detach - then the segment stays until it exits.   *)
(***************************************************************************)
SegmentsKnown ==
  /\ \A p, q \in {r \in Procs : at[r] = "idle" /\ is_created[r] /\ shm[r] # None} :
       shm[p] = shm[q] => p = q
  /\ \A p \in Procs, d \in Ids :
       IF shm[p] = d THEN attached[p][d] >= 1 ELSE attached[p][d] > 0 => p \in forgot

(***************************************************************************)
(* A byte inside a mapping is inside the file, whoever opens the file with *)
(* a smaller length meanwhile (to read it would raise SIGBUS otherwise),   *)
(* unless the write that was to extend the file failed, or the mapping was *)
(* made from a descriptor of a file that was too short.  And a process has *)
(* no mapping but the one its object has, unless an object that does not   *)
(* own its mapping lost sight of one.                                      *)
(***************************************************************************)
MappingsBacked ==
  \A p \in Procs :
    /\ addr[p] /\ at[p] \notin {"extend", "map"} /\ p \notin short
         => length[p] <= Len(content)
    /\ p \notin leaked => mapped[p] = IF addr[p] THEN 1 ELSE 0
==============================================================================
