# sckit: models, checks and proofs

sckit is a C++ library for servers: three kinds of timers, a reactor over epoll,
structures that live in shared memory, a logger, daemon control, and a collection
of pure helpers. This directory holds TLA+ models of all the parts that keep state
and of most of the pure ones, the TLC runs that check them on small instances, and
TLAPS proofs about twelve of them for every instance. `PROJECT.json` ties it together:
which definition models which lines (`map`), which run checks which properties,
which change of the code would break each property (`mutants`), what was found
(`findings`) and what in the code is hard to test (`hazards`).

Files are named below the repository's `src` directory unless they are in `inc` or
`test`. `inc` holds copies of the headers; for the reactor it is `inc/reactor.h` that
matches `reactor.cpp` (`server/reactor.h` declares another class). `PROJECT.json`
writes them from one level higher: `src/src/trie.h`, `src/inc/reactor.h`.

## The system

| component | state it keeps | operations | who meets whom |
|---|---|---|---|
| wheel timer (`timer/wheel_timer`) | lists `near_` and `buckets_`, nodes, `ref_`, `size_`, `jiffies_`, `current_` | `add_timer`, `cancel_timer`, `update`, destructor | callbacks run inside `update` and call back in |
| priority queue timer (`timer/priority_queue_timer`) | `min_heap_` with an index in each node | the same interface | the same |
| heap timer (`server/heap_timer.h`) | array, `cur_size`, `capacity` | two constructors, `add_timer`, `del_timer`, `pop_timer`, `tick` | the reactor owns one and reads its top |
| reactor and demultiplexer (`server/reactor`, `server/event_demultiplexer`) | `handlers_`, `fd_num_`, epoll's interest list, the batch being dispatched | `register_handler`, `remove_handler`, `register_timertask`, `handle_events`, destructor | handlers and timer callbacks call back in; the kernel reports and the program closes handles |
| hash table in shared memory (`hashtable_shm.h`) | head (`bucket_num`, `count`), the slots, and the segment itself | `init`, `insert`, `insert_onlyonce`, `find`, `remove`, `clear` | several processes, no lock |
| trie (`trie.h`) | nodes, index arrays, two offsets, a pool of arrays | `create`, `add`, `find` of a key and of a prefix, `del` | `add` from one thread, `del` from any |
| bloom filter (`bloomfilter`, `file_util`) | the bits, in memory of its own or in a segment, `count_`, a file | `init`, `set`, `check`, `clear`, `dump`, `load` | several processes share a segment and a file |
| shared segments and mapped files (`posix_shm`, `posix_mmap`) | a pointer, a number, `is_created_`; an address and a length | `get`, `detach`, `destroy`; `open`, `close`; destructors | several processes share a key and a file |
| logger (`logger`), reached through `inc/singleton.h` | buffer, batch mode, descriptor, the files on disk | `open`, `logv`, `shift_log`, `close` | several processes append to and rename one file |
| daemon and pid file (`process_util`) | the pid file, the processes | `daemon_start`, `daemon_stop`, `daemon_restart` | calls of short-lived processes, and the kernel, which gives numbers away again |
| epoll wrapper (`epoller`) | event array, `triggered_num_` | `add`, `modify`, `remove`, `wait`, `get_ready` | the caller walks the array |
| hash tree (`inc/hashtree.h`) | tree of nodes | `insert`, `find`, `remove` | none |
| ini file (`inifile`) | a map of keys to values | `load`, `reload` | none |
| helpers | none, but for the random generator's state | digests, ciphers, checksums, hashes, base64, strings, numbers, calendar, uuids | none |
| sockets, text dump, cityhash, `server/sc_server.h` | none | not modelled, see the end | |

What is hard in each, and what makes it correct:

- **Timers.** Callbacks add and cancel timers, their own too, while a list or a heap
  is half walked; the clock moves by any amount, backwards as well; a far timer is
  placed again on every level on its way down. Correct: every timer leaves exactly once, by its
  callback, its cancel or the owner's destructor; never late by more than the tick
  at work, never early; no node is freed twice or lost.
- **Reactor.** Events are reported in batches and disarmed by the report, while the
  callbacks of the batch register, remove and close what later events of it are
  about; registration is two system calls of which either may fail; the timeout is
  computed from the first timer. Correct: whatever is reported has a handler, the
  event array has room, one callback per registration, a removed handler is never
  called, ready handles and due timers are served.
- **Hash table.** Creation races, no lock, a count apart from the slots. Correct: a
  key is found while it is in the table, is there once, and the count is right.
- **Trie.** Arrays move as nodes grow, old ones are used again, both blocks run out.
  Correct: keys keep their status, arrays do not overlap, del is thread-safe.
- **Bloom filter and shared memory.** A bit is set by reading a byte and writing it
  back; the file may be short, or written in part; a segment may be destroyed
  between two calls of another process, and a file mapped with two lengths.
  Correct: what was set is found, `count_` is the number of bits, one process is
  told it created a segment, no mapping reaches behind a file that could be extended.
- **Logger and daemon.** Files renamed, unlinked and truncated between the steps of
  several processes that know them by name only. Correct: what is kept of the log is
  in order and only the oldest is dropped; the pid file names the daemon that runs; a
  stop signals nobody else while one runs.
- **Epoll wrapper, hash tree.** An array filled again and again and scanned by the
  caller; nodes emptied and filled again. Correct: what a scan returns was reported
  by the last wait; a find is that of a map.
- **Pure functions.** The boundaries: blocks and padding, calls cut anywhere, the
  last group of an encoding, state made anew in place, ends of months and centuries.
  Correct: each is its reference definition, written apart from it in `MCLibrary`.

## Modules

| module | models | state and actions against the code |
|---|---|---|
| `TimerService` | what `timer_base.h` promises, whatever keeps the timers | `pending`, a map from ids to due ticks; `Add`, `Cancel`, `Fire`, `Drop`, `Advance`, `Close` |
| `WheelTimer` | `wheel_timer.{h,cpp}` | `slots` are `near_` and `buckets_` by address; one action per operation, per tick of `update` and per node a tick visits; a callback is two actions, between which every operation may run |
| `PriorityQueueTimer` | `priority_queue_timer.{h,cpp}` | the vector is a function, a node's `index` is kept as the code keeps it; a loop of the sifting is a function of the number of its rounds |
| `TimeHeap` | `heap_timer.h` | the array, the allocated timers, `tick` cut at each callback; a loop of the sifting is a function of the number of its rounds |
| `Reactor` | `reactor.cpp`, `event_demultiplexer.cpp`, with `TimeHeap` inside (`Timers == INSTANCE TimeHeap`) | `handlers`, `fd_num`, `batch`; the kernel's part is `interest`, `ready` and `open`; `handle_events` is cut at `epoll_wait`, at each callback and at the ticks |
| `HashtableShm` | `hashtable_shm.h` | per process a program counter; one action per round of a loop and per store to shared memory |
| `Trie` | `trie.h` | one action per character of `add`; a move of an array is cut behind the store of `size`; `del` goes down node by node, with one action for the load of `pIndex`, one for the look at the entries and one for the store of the status; `Find` is a function of the characters read, `preOrder` of the calls made, with the calls still to be made |
| `BloomFilter` | `bloomfilter.cpp`, the loops of `file_util.cpp` | per process a program counter; `set` is cut at each position, at the reading and at the writing of the byte; `dump` at each piece written, `load` at each read; `init` counts an attached segment byte by byte |
| `SharedMemory` | `posix_shm.cpp`, `posix_mmap.cpp` | one action per system call, both overloads of `open`; the kernel's part is `keyed`, `attached`, `mapped` and `content` |
| `Daemon` | `process_util.cpp` | a process is its number; one action per system call; a file is apart from its name, so that a lock, a truncation and an unlink may be about different files |
| `Logger` | `logger.cpp` | one action per system call of `open`, `close`, `logv` and `shift_log`, with the `open` that fails and the `write` that fails or is short; files apart from their names |
| `HashTree` | `inc/hashtree.h` | a node is named by the remainders, `%` of C++, that lead to it |
| `Epoller` | `epoller.cpp` | `evs_` with what older waits left in it; `get_ready` one call at a time |
| `Digests` | `md5.cpp`, `sha1.cpp`, `sha256.cpp` | contexts as records, `update` and `final` as the code cuts them |
| `Aes` | `aes128.cpp`, `aes256.cpp` | one module with `Nk` and `Nr` as constants |
| `Checksums` | `crc.cpp`, `checksum.cpp`, `murmurhash3.cpp` | folds over the bytes |
| `Twister` | `mt_prng.cpp`, `random_uuid.cpp` | the state as a record, `SIZE` and `PERIOD` as constants |
| `Text` | `base64.cpp`, `str_util.cpp` | sequences of character codes |
| `Numbers`, `Calendar` | `math_util.cpp`, `time_util.cpp` | operators |
| `IniFile` | `inifile.cpp` | a function of the lines |
| `Words` | the unsigned arithmetic of C | a word is the set of its bits that are 1: TLC's integers have 32 bits and a sign |
| `Containers` | `Trie`, `HashTree` and `Epoller`, the containers without a caller in the library | their state side by side |
| `MCLibrary` | `Containers` and the pure functions | a behaviour is about one of them, its `subject`; a function's input is chosen in one step |
| `MCProcesses` | `BloomFilter`, `SharedMemory`, `Daemon`, `Logger` | the same: a behaviour is about one of them |
| other `MC...` | the values the runs give to constants | |
| `WheelTimerProofs`, `PriorityQueueTimerProofs`, `TimeHeapProofs`, `ReactorProofs`, `HashtableShmProofs`, `LoggerProofs` | theorems about the module each is named after | |
| `ContainersProofs` | theorems about `Trie`, `HashTree` and `Epoller` | |
| `ProcessesProofs` | theorems about `BloomFilter`, `Daemon` and `SharedMemory`, and that what is proved of its parts holds of `MCProcesses` | |

`TimerService` is the abstract specification, `WheelTimer!ImplementsTimerService` the
refinement: `pending` is mapped to the allocated nodes that are neither cancelled
nor running. `Reactor` is the composition: the timers' actions are steps of the
reactor (`TickStep` when the loop is ticking, `register_timertask` and
`forget_timer` from a handler, from a timer or between calls).

Abstractions that matter to the reader:

- *Wheel.* `near_` is declared with `TVN_SIZE` lists and indexed by `TVR_MASK`. Lists
  are therefore named by address, so that `near_[TVN_SIZE + k]` is the list
  `buckets_[0][k]` as it is in memory. A list is a set: the order within one tick is
  left free. Time is counted in ticks, so the confusion of milliseconds with ticks
  (`ms_time` is added to `jiffies_`) shows as a delay in ticks. Delays are a `uint32_t`, so none goes past
  `MAX_TVAL`: the clamp at `wheel_timer.cpp:113-117` is kept in the model, and no run
  reaches it.
- *Reactor.* Handlers are names, each bound to the handle `get_handle` returns.
  `request_event` may fail at either call. Epoll reports the ready handles in
  any order, as many as `ep_evts` (of size `fd_num_`) has room for. A step after which the process is
  dead (`assert`, a call through `NULL`) sets `died` and nothing follows.
- *Hash table.* All processes call `init` with the same arguments; a key is its own
  node; a `memcpy` of a node is one step. `primes_table_[-1]` is read by `find`
  (the allocator's word, whose upper half is 0) and by `insert` (16 GiB behind the
  table: the process dies). `clear` wipes past the end of the segment by the size of
  the head; the bytes there are taken to be slack of the page.
- *Trie.* The stores of `AddChild` after the one of `size` are one step, so no `del`
  sees the new array before the new child's entry and node are filled; a reader
  that looks past the end of the block finds nothing there. Calls of `del` are numbered
  as they come, any number of them under way at a time.
- *Bloom filter.* `bloomhash` is any function from items to positions. Two variables
  record what callers know (`sure`: the items whose `set` has returned) and two when
  operations have disturbed one another (`raced`) or made `count_` meaningless
  (`recount`).
- *Shared memory.* A key; an owner is an object whose destructor detaches. A file is
  its bytes, of which only a few are told apart. Lengths are not 0. A descriptor given
  to `open` stands for the same file, mapped from its beginning. An access behind the
  end of the file kills the process, which is `Exit`.
- *Daemon.* The child that `daemon_start` forks goes on as the daemon once it has closed
  the pid file. A process may die at every step, which stands for its
  signal, a crash and its end. A number of nobody goes to a process that the caller
  may signal or to one it may not. The three hundred tries of a stop are `Tries`.
- *Logger.* A record is who logged it, its number and its length. The processes run
  the same program with the same sizes to begin with; `set_logsize` may change one. What a short `write` left of a record is a
  record of less length. `log_fd_` keeps the number of a descriptor that was closed: it
  is taken not to be given away again, so that a write to it fails. `logv` before the
  first `open`, which writes through an uninitialized `log_fd_`, is not modelled, nor
  is a change of the batch mode between records.
- *Hash tree.* Keys are of a signed type. Where a remainder is below zero `child_` is
  indexed out of its bounds; what follows is undefined and the model ends (`died`).
- *Ini file, digests, text.* Pointers and buffers become sequences and
  functions; what lies in a buffer from an earlier block is kept, where the code may
  use it. Key and section of an ini file are a pair, not a text joined by `$$`.

## Runs

Bounds are CONSTANTS marked `bound` in the module, and guards marked the same.

| run | instance | checks |
|---|---|---|
| `wheel` | two timers; levels of 4, 2, 2, 2, 2 lists; delays due at once, in `buckets_[1]` and the longest, `MAX_TVAL`, cascaded through every level; 66 ticks, more than the 64 of a turn of the whole wheel; one cancel, one tick or two at a time | `NeverLate`, `NodesAccounted`, `SizeNeverOvercounts`, `EveryTimerLeaves`, `ImplementsTimerService` |
| `wheel_early` | one timer; levels of 8, 2, 2, 2, 2 lists, where a part of `near_` overlaps `buckets_[0]` and a part does not | refutes `NeverEarly` |
| `queue` | six timers: the smallest heap in which a removal has to sift up in another subtree | `QueueSound`, `NothingDueLeft` |
| `queue_callback` | two timers | refutes `NotEarly` |
| `heap` | four timers, arrays of 1 and 2 that grow, both constructors | `HeapSound`, `OneOutcome`, `NothingDueLeft` |
| `reactor_io` | two handles, three handlers, one of which is given a closed handle's number; three registrations, one close | `FdNumCovers`, `MapIsCurrent`, `OneShot`, `DiesOnlyOfRemoval`, `ReadyIsServed` |
| `reactor_timers` | one handle, two timers, delays due now and too long for the `int` (`INT_MAX = 5`, a second is 2) | `WaitsForFirst`, `DueTimersLeave` |
| `shm_table` | two processes, rows of 3 and 2 slots, three keys of which two meet in row 0; five operations, two calls of `init` each | `LookupSees`, `TableSound` |
| `shm_insert` | the same, four operations | refutes `InsertReturns` |
| `library` | *trie*: keys of up to two of three characters, five nodes, seven index entries, one `del` under way between any steps of `add`: arrays of one and two entries come back from the pool, nodes and index entries both run out. *Hash tree*: primes 2 and 3, the keys 0 and -6, which go the same way, 3, which leaves it, and -2, whose remainder is below zero on the second level. *Epoll wrapper*: three descriptors, the index scaled by 2. *Functions*: lengths around a block and the padding, in two calls; blocks encrypted in two calls and decrypted in one and the reverse; a change at every position of up to 17 bytes; 20 numbers of a twister of 7 words, three times round; all sequences of up to four of three bytes; numbers to 130 and around powers of two to 2^32; the ends of all months from 1968 to 2110; files of up to three lines | `FindExact`, `SearchExact`, `ArraysApart`, `TreeFinds`, `ScanIsCurrent`, `DigestsAgree`, `CiphersInvert`, `ChecksumsSeeChanges`, `TwisterFollows`, `TextReturns`, `NumbersRight`, `IniLastCounts` |
| `trie_del` | five nodes, six entries | refutes `DelThreadSafe` |
| `processes` | *filters*: two processes, two bytes of two bits, two items that share a bit, seven calls. *Segments*: two segments, a file of one or two bytes, six calls, writes that fail and lengths past the end of the file. *Daemon*: three process numbers, three calls, one try, two files. *Loggers*: two processes, `path`, `path.1` and `path.2`, files full after a record or the half of one, three records, three opens, no batch, a batch of two records or by count; short and failed writes | `NoFalseNegative`, `CountIsBits`, `SegmentsKnown`, `MappingsBacked`, `DaemonIsNamed`, `StrangersUnharmed`, `OrderKept`, `OnlyOldestDropped`, `SizesBounded` |

Why the bounds are enough to see the interesting cases: each was set so that the case
named in the table is reached, and each property has a mutant, a plausible mistake in
the code, that the run catches within the same bounds. Three process numbers are what
a daemon, a caller and a stranger need, and three calls are a start, a stop and one
that comes between or after. `LogNo = 3` is the least with which a shift renames twice:
a process can end between the two renames, the next one's shift finds the gap, two
shifts can be at different places of the chain, and a process that is opened twice more
fills all three names and drops the oldest.
The clock of the wheel is not set back in `wheel` and no callback is empty; the
theorems about it admit both. `library` and `trie_del` are symmetric in the characters,
`processes` and the table's runs in the processes: no definition tells one from
another, and they check no liveness. Two constraints cut what nothing is claimed of:
`Once` in `library`, hash trees in which a key was inserted twice or that have divided
by zero or indexed out of bounds, and `Apart` in `processes`, filters whose operations got into each other's
way. `CHECK_DEADLOCK FALSE` stands in every run because every behaviour ends at a
bound, after a destructor, or with a dead process.

**Fairness.** `WheelTimer!FairSpec`: the owner goes on calling `update` while the
clock advances (the loop of `test/wheel_timer_test.cpp`), a loop that has begun
runs on, callbacks return. `TimeHeap!FairSpec` and `Reactor!FairSpec` say the same of
`tick` and of the event loop: `handle_events` is called again, a step of it that can
be taken is taken, callbacks return, seconds pass. Nothing is assumed of callers, of
arrivals, or of registrations. All of it is weak fairness of a single thread's next
step. The other modules state no fairness and their runs check safety only: the
processes there may crash at every step, and the code has no step that comes by
itself.

### What the runs found

1. `wheel_early`: `near_` is indexed past its end (`wheel_timer.cpp:84`); a bucket's
   timer runs when the `near_` list at the same address is due, long before its own
   time. With the real sizes a delay of 1000 ticks fires at tick 68. The placement
   still never loses or delays a timer: that is proved.
2. `queue_callback`: `update` calls the callback through a reference to the front of
   the vector after the element has left it (`priority_queue_timer.cpp:114`).
3. `shm_insert`: the second row is out of reach of `insert`: `primes_table_[i - 1]`
   with an unsigned `i` of 0 (`hashtable_shm.h:334`).
4. `trie_del`: `AddChild` stores the longer `size` before the new `pIndex`
   (`trie.h:305`); a concurrent `del`, said to be thread-safe, that has loaded the
   old `pIndex` and counts the new `size` reads the entry behind the old array and
   deletes another key.

Seen on the way and stated as exceptions in the properties concerned: `size()` of the
wheel is counted down by every `cancel_timer` of a live id, so it may reach 0 or less
with a timer pending, and counts a timer with an empty callback for ever
(`SizeNeverOvercounts` claims one side only, for callable callbacks); the `assert` at
`event_demultiplexer.cpp:34` fails, and a `NULL` is called at line 48, after a
callback removed a handler of its own batch (`DiesOnlyOfRemoval` says that nothing
else does it); a negative timeout parks the reactor (`DueTimersLeave`); two processes
that change the hash table at once lose entries and counts, and `clear` keeps the
count (`LookupSees`, `TableSound`); an `add` that finds no index entries leaves a
live array in the pool of free ones, which the comment at `trie.h:139-142` says
the pool does not hold (`FindExact` and `ArraysApart` stop there).

In the modules of several processes:

- *Bloom filter.* Two processes that set bits of one byte lose one
  (`bloomfilter.cpp:190`; `NoFalseNegative` claims nothing once they held the same
  byte). The bits of a segment are counted by `1 == GET_BIT(i)`, which only the lowest
  bit of a byte satisfies (142), so a process that attaches to a filled segment counts
  too few; `load` leaves `count_` as it was (250). `load` of a short file never returns
  (`file_util.cpp:241`), and `dump` returns true after a write that stopped half way
  (258). When `init` fails it calls `free` for bits that may be in a segment (151); the
  failures of `init` themselves are not modelled.
- *Daemon.* With two calls at once the pid file may be empty or gone while a daemon
  runs, and two daemons may run (`process_util.cpp:175`, 192, 300). Without a
  number in the file `daemon_stop` calls `kill(-1, SIGQUIT)` (288): every process of
  the user. `daemon_restart` reads the file twice (286, 311), so it may signal
  everybody too when another call removes the file in between. The caller of a start
  returns before the number is written (142). None of this contradicts the
  properties, which claim something for calls that take turns only, and of strangers only
  while a daemon runs: the hazards list each case as one no property covers.
- *Logger.* A process alone loses nothing but the oldest file. The record that follows
  a shift still goes to the renamed file (`logger.cpp:190`). Of two processes, the one
  that did not shift goes on writing to the renamed file, and after two shifts to an
  unlinked one. `LOG_BATCH_BY_COUNT` never writes (131), `set_batchmodel` stores
  its argument uncapped behind the caps (`logger.h:72-75`), `set_logno` stores in
  `log_size_` (80), and `close` does not write what is in the buffer (51), which stays for the next
  `open`, with the number of the closed descriptor. The buffer is emptied after a `write`
  that failed or was short (143).
- *Shared memory.* `destroy` does not detach (`posix_shm.cpp:110`), so the segment
  stays until the process exits. `open` writes a 0 at the last byte of its own length
  (`posix_mmap.cpp:70`), also in the middle of a longer file that is in use. What that `write` returns is
  ignored (71): on a full disk the mapping reaches behind the end of the file, as it does
  with a descriptor of a file that is too short (25); `MappingsBacked` excepts both.

In the functions: the scan of `get_ready` compares `pos > triggered_num_` and scales
the index once more (`epoller.cpp:159`, 164), so it skips events and may return old
ones. `find` and `remove` of the hash tree divide by zero when every node on a key's
way was made and none has it (`hashtree.h:105`); `insert`, `find` and `remove` index
`child_` out of its bounds when the remainder of a negative key is negative (85, 105,
125); and a key inserted twice is there twice. The prefix search returns more than `iMaxNum` keys: the limit ends one call of
`preOrder`, not its callers. The table of `crc16` is for the other bit order than
its loop. The generator's state is global without a lock, and before a seed all
numbers are 0; the default alphabet of `rand_string` has E twice and no G.
`base64::encode` writes a NUL one behind a buffer that fits exactly (77), and `decode`
indexes its table by a `char` that may be negative (105). `hashstr` of `sha1` and
`sha256` writes its NUL one behind the array. `numofpow2` is wrong above 2^32, and
`mktime_bj` before 1968. `inifile::load` returns true when the file cannot be opened.

## Proofs

Each theorem holds for every value of the constants that the module's assumption
admits: any number of processes, timers, handles, keys, records and names, any sizes,
and any bound. The assumptions are evaluated by TLC in the run of the module; what
they say beyond the types of the constants is named below.

| module | theorem | property of a run |
|---|---|---|
| `WheelTimerProofs` | `TypeCorrect` | |
| | `Ownership`, `NoTimerLeftBehind`, `SizeBounded` | `NodesAccounted`, `NeverLate`, `SizeNeverOvercounts` |
| | `Refinement` | `ImplementsTimerService` |
| `PriorityQueueTimerProofs` | `Invariant` | |
| | `QueueStaysSound`, `UpdateDrains` | `QueueSound`, `NothingDueLeft` |
| `TimeHeapProofs` | `OwnedAndOrdered`, `NothingLeft`, `RanOrDeleted` | `HeapSound`, `NothingDueLeft`, `OneOutcome` |
| `ReactorProofs` | `TypeCorrect` | |
| | `RoomForAll`, `MapHolds`, `AtMostOneCallback`, `OnlyRemovalKills` | `FdNumCovers`, `MapIsCurrent`, `OneShot`, `DiesOnlyOfRemoval` |
| | `TimersBehave`, `TimersEndOnce` | (`TimeHeap!Spec`, `TimeHeap!OneOutcome`) |
| | `FirstIsAwaited` | `WaitsForFirst` |
| `HashtableShmProofs` | `StoredIsSeen`, `CountedAndOnce` | `LookupSees`, `TableSound` |
| `ContainersProofs` | `Invariant`, `TypeCorrect` | |
| | `KeysAreFound`, `SearchIsExact`, `ArraysStayApart` | `FindExact`, `SearchExact`, `ArraysApart` |
| | `TreeIsMap`, `ScanIsOfLast` | `TreeFinds`, `ScanIsCurrent` |
| `LoggerProofs` | `FilesInOrder`, `OldestGoFirst`, `SizesHold`, `BufferHolds` | `OrderKept`, `OnlyOldestDropped`, `FilesBounded`, `BufferFits` |
| `ProcessesProofs` | `SetIsFound`, `CountIsRight` | `NoFalseNegative`, `CountIsBits` |
| | `OneIsTold`, `InsideTheFile` | `SegmentsKnown`, `MappingsBacked` |
| | `FileNamesDaemon`, `NoStrangerStruck` | `DaemonIsNamed`, `StrangersUnharmed` |
| | `FilesInOrder`, `OldestGoFirst`, `SizesHold` | `OrderKept`, `OnlyOldestDropped`, `SizesBounded` |

The parts of `MCProcesses` meet in one run. `ProcessesProofs` shows that a behaviour of
`MCProcesses` is one of `BloomFilter`, `SharedMemory`, `Daemon` and `Logger`
(`FiltersAlone`, `SegmentsAlone`, `DaemonAlone`, `LoggersAlone`), proves the invariants of
the first three (`Invariant`, `ObjectsInvariant`, `DaemonInvariant`), takes the logger's
from `LoggerProofs`, and states all of them for the properties the run checks.

**The wheel** (`WheelTimerProofs`). `NeverLate` is not inductive: that no listed timer
is overdue says nothing of where the wheel will look next. `Placement` is what makes
it so: a timer waits in the first-level list of its own due tick, or in a list of a
level `b` that cascades at a tick `t * Span(b)` still to come and not past the due
tick. The inductive invariant adds `OneOwner` and `RefExact` (a cascade loses no node, and a
placement speaks of the nodes the lists hold), `Timely` (what the tick at work has
taken out is not later than that tick), `Fresh` (the next id is not in use) and
`Gone` (a destroyed wheel owns nothing).
The lemmas go from arithmetic (`Division`, `DivisionUnique`, `SpanGrows`) to
`ListForWaits` (what `add_timernode` returns satisfies `WaitsIn`), to
`CascadeTimersKeeps` (a cascade of one level leaves no timer waiting for a tick of
that level at the present one) and `CascadeKeeps` (the four levels in the order of
`tick`), to `DueIndex` (the list the tick takes out is the only one a due timer can
be in). `Refinement`: every step of the wheel is a step of `TimerService` or a
stutter, so a timer fires at most once and never after a cancel. `SizeBounded` has the
hypothesis that every callback can be called (`CbKinds \subseteq {TRUE}`): a timer
with an empty one is counted for ever.

**The priority queue** (`PriorityQueueTimerProofs`). The invariant says that the vector
holds the timers that have not left, each once, with its own place in `index` and the
due time it was given (`Kept`), in order (`Ordered`), and, for the next `add` to be of
a new timer, that no id not handed out yet has left (`NotYet`). The new part over a heap
that only pops is the removal from the middle: the element that takes the place may
belong further down or further up. In between the order lacks one slot
(`Loose`), and what was there fitted between its parent and its children. `SiftDownIs`:
the loop either moves, and then all is in order, or leaves a slot that fits what is
below (`BelowFits`); only then is `SiftUp` called, and `SwapIntoIs` puts the two together.
`NothingDueLeft` follows from the order: the front is not due, so nothing is.

**The heap** (`TimeHeapProofs`). `HeapSound` says that the array holds the allocated
timers, each once (`Holds`), and that none is due before its parent (`Ordered`); that
is inductive once it is known what sifting computes. A loop is a function of the
number of its rounds: `Rounds` shows, by induction, that what one round keeps the
loop keeps. In `percolate_down` all but the timer in the hole is in order, and the
hole's children are not due before its parent (`DownInv`); in the insertion all but
the timer in the hole and its parent (`UpInv`). `DownGoes` and `UpGoes` add that after
as many rounds as there are slots the loop has stopped, so the order is complete.
`HeapifyIs` does the same for the loop over the parents in the second constructor,
whose array is any of the initial ones (`MaxInit` is at most `MaxTimers`). `NothingLeft`
is an action property: the top is not due, so nothing is (`RootIsLeast`).
`RanOrDeleted` needs that the timer whose callback runs is due and stays on top
(`InTurn`), and what became of each timer (`Told`). It has a hypothesis, `NoneGoesBack`:
no negative delay and a clock that is not set back. Without it a callback may add a
timer that gets before the one that runs, and `tick` pops the wrong one; the run
admits what the hypothesis does.

**The reactor** (`ReactorProofs`). What dispatch relies on, without a bound on
handles, registrations, failures or closed handles. The invariant is `TypeOK` with
- `MapInv`: a handler in the map is registered, is there under its own handle, and
  epoll knows no handle without one;
- `BatchInv`: a batch only while dispatching, a callback only for its first event,
  no handle twice;
- `Handled`: while no callback has removed a handler, each event still to come has
  one;
- `CreditInv`: an armed handle, and an event not yet dispatched, are one callback
  each that a registration has paid for;
- `NumInv`: the interest list is finite and `fd_num_` covers it;
- `TimerInv`: timers run only while the loop is ticking.
`OneShot` needs `CreditInv` since the credit of a handle is spent two steps before the
callback, when epoll disarms it; `RoomForAll` needs `MapInv` because `fd_num_` and the
interest list change in different cases of `register_handler`, by whether the map had
the handle.

The timers inside the reactor are the state of `TimeHeap`, changed by its operators.
`TimersBehave`: every behaviour of the reactor is a behaviour of `TimeHeap`, each step one
of its actions or a stutter, so a handler or a timer that adds and deletes timers
from inside `handle_events` does nothing `TimeHeap` does not allow, and what is proved of
the heap holds here (`TimersEndOnce`). `FirstIsAwaited` joins the two: the top the timeout is
computed from is the least (`Ordered`), and rounding to milliseconds and to the clock's
seconds does not get past it (`WaitEnds`). Its hypothesis is a clock that is not set
back (`ClockMoves \subseteq Nat`): a deadline of `epoll_wait` is a span, the timers'
are times of day.

**The hash table** (`HashtableShmProofs`). The invariant has three layers. `Always` holds
whatever overlaps: a segment is created once and has no rows until it is zeroed
(`Uncreated`, `OneCreator`, `Headless`, `Rowless`), and every key is in its slot of row
0 (`AtHome`, `Aims`), so that it has no second one. `InTurn` holds as long as changes take
turns: what is stored is there, and what the change under way found still holds
(`StillSo`). `Undisturbed` holds while, besides, none began before the table was set
up and `clear` was not called: `count` is the number of keys, but for what the change
under way is about to count (`Recounted`). That a slot is one (`FindSlotIsSlot`) needs
the sums of the primes, a recursive function of the rows, by induction (`SumsExist`).

**The trie** (first part of `ContainersProofs`). Between the stores of `size` and of `pIndex` the memory is
no tree: the node counts one entry more than its array has. So the invariant speaks of
two memories that the move is on the way between, `Seen` (the node at its new array,
without the new entry) and `Held` (with it), and both are `node` when nothing moves.
`Tree(Seen)`: every entry leads to a node made, no two entries to the same one, no
two of a node by the same character. `Apart(Held)`: the arrays of nodes and pool have
no entry in common and are below `iIndexOffset`. `AtNode`: `add` stands where the walk of
its key leads; `Moving`: and its next character leads nowhere from there. `Agree(Seen)`:
the walk of each key ends at a node with the status `told`, until a del looked at an
array that was moving or had moved (`torn`); and nothing is said once index entries ran out (`starved`), since the
pool has then got an array in use. `Named`: every node but the root is on the way to a
key `add` takes, and the root ends none; without it the search could report what no
key is.

The lemmas: in a tree two keys that come to the same node are the same
(`OneKey`, by induction from the node up to the root), so a status stored there is one
key's; an array copied elsewhere changes no walk (`SameEntries`, `SameWalks`); a new child
changes walks only where they led nowhere, and there to the new node, which has
no status of its own (`OneChildMore`, `GrownWalks`); an array goes to the pool or comes from it
without touching another (`GivesBack`, `TakesOld`, `TakesNew`); a node that lacks a
character has room for one more (`RoomForOne`), so `size`, an `unsigned char`, does not
overflow. A call of `del` stands, between any two of its steps, where the characters it
has read lead in `Seen` (`OnTheWay`): a look at an array that did not move meanwhile is
a look at `Seen` (`LooksKeeps`), whatever `add` and other calls of `del` do between the
steps, and what they do changes no way already gone. That is an invariant of its own,
proved beside `IInv`, and with it the status that `del` stores at last is that of its
key's node, if the key has one (`UnmarksKeeps`).

The search by prefix is a loop over the calls of `preOrder` still to be made, and what
holds after every call (`CallInv`, kept by `CallKeeps`) is: the keys of these calls lead
to their nodes and none begins another; no key looked at begins with one of them; of the keys
looked at those with a status of 0 or more are reported, each once; and, as long as fewer
than the limit are reported, every key below the prefix is looked at or begins with the key
of a call to be made. Each call looks at a key more, and each key has a node of its own, so
none is left after as many calls as there are nodes (`AllLookedAt`): the bound of the loop
in the model cuts nothing off.

**The hash tree** (`ContainersProofs`). The way of a key is its nodes from the root
down; a node is on one level, and keys whose ways meet in it came the same way
(`PathIs`). `TreeInv`: where a node of a way was made, those above it were
(`Rooted`), and, until a key is inserted twice, each key of the map is in exactly one
node of its way, with the value it has there (`AsInMap`). `EndOfKey`: because of `Rooted`
the walk of `find` stops no earlier than where the key is, also when nodes above were
emptied by `remove`; so what it returns is the map's, and a division by zero
needs a whole way made. It holds for any whole numbers as keys and any `SIZE` from 2 on;
that the divisors are primes does not matter to it. With a negative key the walk may
come to an index below zero (`Strays`): then the key is not in the map, for what has
gone past that level was inserted, and an `insert` that indexes out of bounds ends what
is claimed.

**The epoll wrapper** (`ContainersProofs`). `Filled`: the first `triggered_num_` elements of
`evs_` are what the last wait reported, each once. That an event is there once needs a
fact about finite sets: as many places as there are descriptors that were reported, each
of them somewhere, leave no room for one twice (`WaitFills`). `Scanned`: the n-th call of
`get_ready` looked at the element `(n - 1) * Stride`. Together: two calls have looked at
different elements, and below `triggered_num_` these are different events of the last
wait. Assumed: there are finitely many descriptors.

**Segments and mappings** (`ProcessesProofs`). `SegmentInv`: a process claims to have
created a segment from its `shmget` on, before it attaches (`OneCreator`); each is
attached once but where a pointer was forgotten (`Counted`). `MappingInv`: when a file
is mapped its write has extended it, or has failed and the process is in `short`, and it
never shrinks (`Extended`); so `InsideTheFile` says of which mappings the end of the file
is not behind them, not that the code makes no other.

**The daemon** (`ProcessesProofs`). As long as no start or restart ran beside another call,
a call that starts is the only one there is (`Single`), what it read is what the file
holds (`HasRead`), no daemon runs behind its probe or when a stop removes the file
(`Vacant`), a stop aims at the daemon if there is one (`Aims`), the file a start has open
is the one that has the name (`Holding`), and a restart gets to its stop with the number of a
process only (`Restarting`). `NoStrangerStruck` speaks of strangers while a daemon runs: the
lone `daemon_stop` without a pid file, which signals everybody, is not excluded by it.

**The logger** (`LoggerProofs`). `Sequence` holds whatever the processes do: a file with
an older name has the older records (`Across`), buffers have newer ones than any file
(`Buffers`), and a file newer than the one a process writes to has no records of that
process (`Behind`) - that one is why an append to a renamed file keeps the order.
`Counts` relates the buffer to the batch. What a short write left of a record keeps
its place in all of this. `ByOne` is about a process alone: it writes
to the newest file there is (`AtNewest`), in the loop of a shift the names it has passed
are free (`InLoop`), the files hold adjacent pieces of what was written (`Suffix`: the
boundaries between the pieces exist, fall from name to name, and what is behind the
oldest is a file's worth), and each file has no more writes on top of a size
than are still possible (`Small`). Assumed: the file numbers are one more than the
names and the descriptors together, so that a new file finds one; a record has at least
a byte; `LOG_BUF_LEN` is at most `BUF_SIZE`, 16 times as much in the code (`logger.h:98`).

**The bloom filter** (first part of `ProcessesProofs`). Until two operations get into
each other's way: the positions before the one `set` is at are set (`Adding`), the byte
it has read is the byte there is (`Held`) because nobody else is about to write
it (`OneWriter`), a dump or load is alone (`Alone`), the file holds the bytes of what
was sure when it was dumped (`Saved`, `Dumping`) and what is read of it is set
(`Reading`); and `count_` is the number of bits without the one just being added
(`Counting`), or, of a filter that has just been attached to a segment, no more than those
of the bytes `init` has passed (`Counted`). Assumed: every item has a position, since `calc_param` makes the number of
hash functions at least 1 (`bloomfilter.cpp:74-75`).

Induction over numbers is done for sets of them, from the library's theorem that a
set of naturals with no least member is empty (`Induction` in five modules); the
theorems that take an operator are out of the provers' reach.

Model-checked only:
- what rests on fairness, which the prover does not do: `EveryTimerLeaves`,
  `ReadyIsServed`, `DueTimersLeave`;
- the pure functions, the rest of the run `library`: they compute on `Words`, which has two
  RECURSIVE operators, and what a fold over the bytes of any input gives would need
  induction over that input.

## What is left

The wheel is shown to implement `TimerService`. The priority queue does not: its
callback is called after the element has left (`queue_callback`), so that what runs
need not be the timer that was due.

## Not modelled

- Sockets (`net_util`, `server/inet_addr.h`): calls of the socket interface that keep
  nothing. `singleton.h`: a pointer made at the first call, without a lock.
- `cityhash.cpp`: the mixing of another project, called by nothing here, of which
  nothing is promised but its values. `hexdump.cpp` and all other formatting and
  printing, but where a text is read again (dates, base64, hexadecimal).
- Callbacks that call `update`, `tick` or `handle_events` again, or destroy the timer or
  reactor they run in. After the latter the loops (the wheel's at `wheel_timer.cpp:191`)
  go on with members that were freed; in the former a second loop runs inside the
  first.
- Of modelled components: `connect` of the trie, which leaves its limits uninitialized,
  its values and the sizes of its blocks in bytes; the pointer that `find` of the hash
  table returns; the levels of the logger; `daemon()` without a pid file; names, sizes
  and directories asked of the file system; `hashstr`; the functions of `str_util`
  that only call the C library or that nothing calls.
- `sc_server.h` and the class in `server/reactor.h`, which nothing implements, and the
  test programs.

`PROJECT.json` lists every component with its status and reason.
