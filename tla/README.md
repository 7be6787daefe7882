# Formal model of sysadm

`sysadm` is a collection of small programs for system administrators: job runners (`worker`,
`worker/new`, `bgrun`, `timeout`), remote shells (`admssh`), inventory tools (`xplist`, `luninfo`,
`memconf`, `vvinfo`), a database wrapper and a code generator (`db`, `gendb`), and scripts. This
directory holds TLA+ modules that model its programs, TLC configurations that check them on small
instances, and proofs for the parameters of any size, checked by TLAPS.

## 1. Inventory

| Component | State it keeps | Operations | Talks to |
|---|---|---|---|
| **worker** (`src/worker`) | one `worker_info` per slot: `flags` (BUSY, DONE), `busy_mutex`, `line`, `serial`; line counter; children; error file | `create_workers`, `get_idle_worker`, `set_busy`, `worker_finish`; thread: `worker`, `exec_prog`, `do_exec` | threads share the slots; children by fork/waitpid; error file |
| **worker/new** | a pool as a library: slot with mutex, flags and work item | `worker_init`, `worker_exec`, `worker_finish`, `worker_destroy`, `run_prog` | as worker; process numbers that the kernel gives out again |
| **list** (`src/util/list.c`, copied to `xplist`, `luninfo`) | header `first`, `last`, `next` (the cursor); nodes with `prev`, `next` | `list_create`, `_destroy`, `_dup`, `_add`, `_add_list`, `_delete`, `_get_next`, `_reset`, `_sort` | used by nearly every C program here |
| **timeout** (`src/timeout`) | `killed`, `pid`, the alarm, the child's status | fork/exec, SIGALRM handler `_do_exit`, `waitpid` | child by signals; `temproot` and `hpmon` call it |
| **bgrun** | log file, begin and end marks, mail message | run in the background, extract a part of the log, mail | launcher, daemon and program; files; `sendmail` |
| **admssh/new** (`syscmd`) | pty, alarm with two stages, fifo | run `ssh`, answer its prompts, show what it prints | ssh, and a process that feeds the key, by pty, fifo and signals |
| **udpexplore** (`src/tools/udpexplore.c`) | TTL and target loops, `responses`, the flag set by SIGIO, the raw socket's queue | `send_udp_probe`, `recv_udp_response`, `inspect_icmp_packet`, `handler_trigger` | the network |
| **util: encode, encrypt**; `mkpass`, `encfile`, `decfile`, `mkkey` | bit buffer `och`, `omask`; S-box and key position | `encode_byte`, `encode_end`, `decode_byte`, `encrypt_byte` | chains of callbacks |
| **util: fdutils, socket** | read buffer `sptr`..`eptr`, telnet state | `fd_gets`, `fd_telgets`, `fd_printf`, `socket_gets`, `socket_printf` | descriptors |
| **util: strings, getopt** | a static result buffer (`strele`); the scan of `argv` (getopt) | `strele`, `stredit`, `trim`, `bindump`, `getopt_long` | - |
| **xplist, luninfo** | lists of entries, VGs, DGs, multipath maps | collect the disks, ask them, name their volumes, remove duplicates, sort, print | disks by SCSI ioctls; the output of `vgdisplay`, `vxdisk`, `multipath`, ESX tools |
| **memconf** | the record being assembled, the list | `main` | `dmidecode` |
| **vvinfo** | none beyond a call | search the devices, decode one inquiry page | SCSI |
| **gendb** | a table's fields and keys | read the schema; write C or PHP | the schema; the generated functions work on the table |
| **db** | ODBC handles | connect, exec, fetch, report errors | ODBC |
| hpmon | last check time per console | fetch the event log, report | `timeout`, database |
| temproot | `/etc/group`, the `temproot` table | give a user root for some days | `admssh`, database |
| builder, check_ssh, perl, sql, getways, tools scripts | none of their own | site scripts, vendored plugin, stubs | external tools |

**What is hard.** In *worker*: three kinds of actors (main, threads, children) meet in one flag word
under a mutex, and in `line` and `serial` under none; shutdown is a scan of the slots followed by
`pthread_cancel`. In *worker/new*: a slot's mutex is held while its program runs, idle threads never
sleep, a reaped process number is signalled, and the pool is freed under its threads. In *list*:
pointer surgery in `list_sort`, a cursor that outlives the node it is on, and in `remove_dups` a cursor
saved before, and restored after, a walk that deletes. In *timeout*, *syscmd* and *bgrun*: handlers and
children that race, and a result that must not depend on the order. In *udpexplore*: a flag shared
with a signal handler, and answers that are late, lost or reordered. In *gendb*: loops that must agree
with each other in code they only write, and a cursor that shuts every other statement out. In the
rest: conversions that leave a partial byte, line or record (codec, fdutils, memconf), answers that
come shorter by another way (SCSI), names in three spellings for one disk (volumes, multipath).
`PROJECT.json` lists each hazard with its line.

**What makes each correct.** *Job runners*: every line is run exactly once, with its own serial number,
failed lines are logged once, and shutdown neither loses work nor hangs. *list*: it behaves as a
sequence with a cursor. *timeout*, *syscmd*, *bgrun*: no process is left behind, the status tells what
happened, what was printed is shown, the mail shows the right part of the whole log. *udpexplore*: it
ends, its array does not overflow and no answer read is lost. *gendb*: the functions written link, and do
to the table what they are named for. *util*: what is written can be read, however it is cut.
*Inventory tools*: each unit once, under its own name, volume and size.

## 2. Modules

| Module | Models | Correspondence |
|---|---|---|
| `JobRunner` | the abstract specification of both job runners: a phase for each line, no threads | - |
| `WorkerPool` | `worker/main.c:181-229`, `worker.c`, `exec.c` | `mpc` is main's program counter, `wpc[s]` that of slot *s*'s thread; one action for each stretch of code between two accesses to shared memory. A locked read-modify-write of `flags` is two actions, load then store |
| `WorkerPoolProps` | properties, fairness, the refinement mapping, the inductive invariant | - |
| `WorkerNew`, `WorkerNewProps` | `worker/new/worker.c` and `main.c` | the same program counters; a mutex is a state (`free`, its owner, `destroyed`), `process` is the kernel's table, so that a number may mean another program by the time `main.c:99` signals it |
| `LinkedList` | `util/list.c` | headers and heap as functions. Operations without a loop that changes the heap are one action; loops take one step an iteration (`SortSwap`, `SortNext`, `CopyItem`, `CopyFails`) |
| `ListSeq`, `LinkedListProps` | sequences with a cursor; properties and the refinement mapping | - |
| `RemoveDups` | both versions of `remove_dups`, on top of `LinkedList` (it uses its `list_reset`, `list_get_next` and `list_delete` actions) | `program` says which |
| `Timeout` | `timeout/timeout.c` | `pc` is main, `handler` is `_do_exit`, `child` the process |
| `Syscmd` | `admssh/new/syscmd.c`: `runargs`, `catch_alarm`, the key feeder | `at` is runargs, `ssh` and `feeder` the processes, `out` what is in the pty |
| `Bgrun` | `bgrun/bgrun.c` and the old version | `launcher`, `daemon`, `program`; a log line is its position in what the program prints |
| `UdpExplore` | `tools/udpexplore.c:54-197, 413-494` | `pc` runs through main and `recv_udp_response`; `flag` is `icmp_packet_to_read`, `sockq` the socket's queue |
| `GenDb` | `gendb`: the command line, `info.c`, `out_c.c`, `out_php.c` | from a table's description to the list of functions, each with its statement, columns and calls |
| `GenCalls` | what the generated functions do to a table, with `db/error.c` | one action for each generated function and each PHP request; ODBC may fail at any call |
| `Strings`, `Codec`, `FdUtils`, `Getopt`, `Options` | the functions of `util` and the command lines of worker, worker/new, bgrun and syscmd | one operator for each C function; loops are folds, recursive functions or, in `Getopt`, recursive operators |
| `Devices`, `Multipath`, `Volumes`, `Scsi` | what xplist and luninfo share: `get_devs`, `get_mp`, `vg.c`, `dg.c`, `esx.c`, and the SCSI commands with `do_ioctl` of each system | one operator for each C function |
| `XpList`, `LunInfo`, `VvInfo`, `MemConf` | the programs, from what a host offers to the lines they print | as above |
| `WorkerPoolProofs`, `WorkerNewProofs`, `LinkedListProofs`, `RemoveDupsProofs`, `ProcessesProofs`, `UdpExploreProofs`, `GenDbProofs`, `InputsProofs` | theorems | section 5 |
| `MC...` | constants, alphabets and symmetry for TLC | - |

`MCProcesses` puts `Timeout`, `Syscmd` and `Bgrun` side by side (a behaviour is one of the three, the
variables of the others stand still). In `Inputs`, the state is an input, which grows symbol by symbol up to
a length, and a property spells it in an alphabet of its own: it has the properties that are proved of
every input. `MCText` extends it with the other properties of the util functions, and `MCInventory` with those of
the inventory programs; the run checks all three together.

The operators whose comment begins with "Fault" or "Seeded fault" are mutations of the definition
that follows them, one for each property: a plausible slip in the code that the property detects.
Nothing else uses them.

**Abstractions.** A line of input is its number. Debug output and usage texts are left out, and so is
worker's `-i`. A node and the item `list_add` copies into it are one value, allocated and freed together. A freed
node has fixed contents, so that heaps that differ in garbage only are one state; that a pointer
leads to freed memory is seen by comparing it with `live`. In `Timeout` a program is what it does:
whether `execvp` finds it, the ways it may end by itself, and what TERM and INT do to it; in `Syscmd` and `Bgrun` a
program is a script of lines and an end. In `UdpExplore` a target is the probe sent to it. Text is a
sequence of characters where the code looks at characters, of words or pieces (`/dev/`, `sd`, `a`) where
it looks at words, and a mark with values where it only asks what a line begins with. A disk is the set of
commands it carries out and what it would answer. The files of one system that are built for another
(`hpux.c`, `solaris.c`, `win32.c`) are chosen by a field of the host. Failures that the code handles are modelled: `fopen`,
`pthread_create`, `fork`, `malloc` in the list, an `execvp` that finds nothing, a `waitpid` that has
nothing to wait for, devices that do not open or answer, tools that are not there, ODBC errors.

## 3. What the runs check

| Run | Instance | Shows |
|---|---|---|
| `pool` | 2 threads, 3 lines, programs that fail or are killed, error file | worker |
| `pool_new` | 2 threads, 3 lines, 2 process numbers | worker/new |
| `pool_new_destroy` (violation) | 2 threads, 1 line | the pool is torn down under its threads |
| `list` | 2 lists, 3 nodes, 2 keys | every sequence of operations, out of memory included |
| `list_last` (violation) | 1 list, 3 nodes | `last` is wrong after `list_sort` |
| `dups` | lists of 0 to 5 entries, 3 identities, with or without volume | both programs |
| `dups_next` (violation) | the same | the restored cursor may point to a freed node |
| `processes` | all programs, calls and orders of section 4 | timeout, syscmd, bgrun |
| `udp` | 3 routers, 2 probes per TTL, 2 TTLs, 1 irrelevant packet | bounds, no answer lost, termination |
| `udp_target` (violation) | 2 routers, no irrelevant packet | an answer is shown for the wrong target |
| `gendb` | 6 tables and command lines, 2 rows, 4 calls | gendb and what it generates |
| `inputs` | every input of up to 5 symbols, hosts of up to 4 disks | the sequential code |

**pool.** `RunAtMostOnce`, `SerialMatchesLine` and `ErrorFileIsExact` are what a user sees;
`FinishedMeansDone` and `StepsAreSafe` (its parts: a busy slot's line is stable, no flag is lost, only
idle threads are cancelled) say why the unlocked writes, the shared flag word and one scan without a busy slot are
safe. `ImplementsJobRunner` says all of it at once: every step is one of the
abstract runner, or changes nothing that it sees. `Terminates`: if the programs end, worker ends.
Three lines on two slots are the smallest instance in which main finds every slot busy, starts its
scan over, and hands a slot its second line while the other is in any state; symmetry is not used,
since main visits the slots in order. To worker a program that is killed is one that exits with 0
(`WEXITSTATUS` of a signalled child), so these two outcomes stand for all.

**pool_new.** The same abstract specification (`ImplementsJobRunner`), with a kill that may hit
the program of another slot: that program then counts as failed, and no line is lost or run twice.
`NoItemIsCancelled`: cancellation comes only after every item was run. With two process numbers, a
number is free for the other thread as soon as its program has been reaped. `pool_new_destroy` stops at
a thread that is alive when its mutex is destroyed. Each item has an argument of its own in the model:
`main.c:228` has the `malloc` in a comment, without which the program has no defined behaviour.

**list.** `ListIsIntact` has three parts: no pointer leads to freed memory, nodes and headers are well
linked and no node is lost, and `list_get_next` and `list_add` find what they rely on, for lists
that were never sorted. `ImplementsListSeq` gives every operation
its meaning; a loop takes effect when it ends. The constant `AddAfterSort` is FALSE in this run:
a caller that adds to a sorted list gets what `list_last` shows (see section 6). Three nodes are
enough for a first, a middle and a last node, for neighbours and non-neighbours in `list_sort`, and
for a copy that runs out of memory; two equal keys and a third node show stability.

**dups.** `DeviceKept` and `NoDuplicateLeft` are the two halves of "Remove duplicates"; `RemoveDupsEnds`
that the two walks over one cursor end. When the outer walk would read a freed node the behaviour
ends in `pc = "undefined"`; that this can happen is what `dups_next` shows, so `NoDuplicateLeft`
speaks of the runs in which it does not. Five entries let a group of three and a group of two interleave.

**processes.** `NothingLeftBehind`, `TimeoutIsReported` and `SuccessIsReal` hold for every order of exec,
alarm, signals, the program's own end and `waitpid`, in timeout and syscmd; the exceptions are named in the
properties (a SIGINT that the caller ignores leaves the feeder; a failed second fork leaves ssh; an alarm
while syscmd waits leaves a made-up status). `OutputIsForwarded`: syscmd shows the lines of the command,
neither prompts nor noise. `PromptIsHandled`: a prompt that arrives in one piece is answered or ends the
run. `MailIsTrue`: the mail comes after the program, with the part of the whole log that the marks
enclose, and says SUCCESS when it was. `PromisesAreKept` is the liveness of the three: a program that
obeys TERM and INT is stopped, syscmd with `-t` comes to an end, a program run by bgrun leads to as many
mails as were asked for. A cfg can name a property once only, so `MCProcesses` conjoins the three programs' own
(`T!`, `S!`, `B!`).

**udp.** `ResponsesFit` is the bound of the array allocated at line 423, `NothingReadIsDropped`
that the two reading loops hand on what they read, `Terminates` that neither signals nor missing answers keep
the search going. The search never ends early in this instance (that takes three hosts at one TTL,
hence three probes); the proofs cover it.

**gendb.** `ProgramIsWhole`: what is generated calls only what is generated, nothing is there twice, and the
clauses fit into their arrays: for keys of up to six letters that are no floating point numbers, whose digits have no room
(section 6), and of 64 bits only if they are listed with a length of 15 or more. `AsAsked`, `ReadsAreRows`: a call changes and reads what its
name and the options `-i` and `-n` say, a request the rows and columns it was given, whatever was called before, and nothing when it
fails; the script's pages show each row once. Excepted is what section 6 tells of: `create` is only looked at in the script of
`patch_actions`, and the functions written for a table without columns, which all return 0, need only leave the table alone.
`CursorIsFreed`: only `select` leaves a cursor open, since another statement cannot be executed then. Values
whose format is not exact (a name printed with `%d`, a column of no known type) are not compared, and a page starts somewhere only if it ends somewhere.

**inputs.** `StringsAreKept`: `strele` returns fields, quoted ones whole; `stredit`, `trim` and `bindump`
lose nothing else than they are to, except where the code itself runs off the string or takes a byte for a format (section 6). `CodecRoundTrips`:
what `encfile` and `mkkey` write, `decfile` and syscmd read, and the S-box stays a permutation. `StreamsAreWhole`: the lines do not depend
on how the stream is cut (those of an `fd_telgets` that waits: as long as no pause is longer than it waits; two cuts on end are such a
pause), a line and its zero take at most one cell more than the length the caller gave, and a partial write is reported. `CommandsArePassed`: the command line loops agree with the bundled getopt, which itself keeps
options and operands in order. `RecordsAreRead`, `VolumesReachEveryPath`, `AnswersAreRead`: no
disk name, multipath map, memory module, volume group, size or unit name is torn, mixed up or lost.
`InventoryIsComplete`: on a whole host, each supported disk that answers is listed, once unless `-a` asks for
every path, with its volume; devices that do not answer stay open (`xp.c:105`), and what is listed ends exactly where they leave no
descriptor. Lines are in order of `cu:ldev`, of the volumes or of the names; but under xplist's `-n` only as far as
`list_sort` understands what `strcmp` returns: hosts of both kinds of `strcmp` are in the run, and only where it returns a sign is that the
order the usage promises (section 6). The identity vvinfo shows is the page's exactly if it fits into 31 bits. What remains as a precondition is what
the code needs and does not test: no more unnumbered disks than an `ldev` can count (`xp.c:214`), inquiry data long enough to have an array's numbers, names that fit into
the array of `get_wwn`, and a `remove_dups` that does not meet its own freed entry (`dups_next`).

**Fairness.** `worker`: the kernel runs every thread. Strong fairness is needed because a thread waits for a
mutex that the other side takes and releases again and again; it is justified because both sides hold it for a few
instructions and sleep for 1 s or 100 us in between. `worker/new`: the same, but its idle threads do not
sleep and the mutex is not fair: what is assumed is that such a thread is, sooner or later, preempted while it does not
hold its mutex. Programs are assumed to end (`ChildEnds`): nothing in either stops one. `list`: `LoopStep` runs, as
nothing suspends a loop. `timeout`: parent, handler, `execvp`, and the exit of a program that caught a signal in order
to exit; nothing is assumed of a program's own end. `syscmd`: the parent and the alarm; nothing is assumed of ssh or of
the feeder. `bgrun`: launcher, daemon and the program, which is assumed to end, since bgrun has no limit for it.
`udpexplore`: main runs and its sleeps end; nothing is assumed of the network. `gendb` and `inputs` state safety only.

**Deadlock** is checked for worker and worker/new (their end is a stuttering step of `Next`). The other systems stop
when they are done, or when a caller or an input has nothing left to do.

## 4. Bounds

`NLines`, `Nodes`, `MaxTtl`, `Number`, `Count` are the size of input, heap and options. Bounds of the models' own:

- `MaxNoise` (`UdpExplore`): irrelevant packets. `Pids` (`WorkerNew`): process numbers, two for two threads, the fewest.
- `processes`: timeout with every reaction to TERM and INT and every class of ending; syscmd with every pair of
  lines ssh may print and two longer scripts (an answer in between, a password asked for twice), with and without key, password, command, limit;
  bgrun with logs of up to three lines and two longer ones, and every combination of options that shapes the mail.
- `gendb`: six tables and command lines, chosen so that every kind of field, a composed key, a key in capitals, one that is a floating
  point number, a table that is not there and each letter of `-f` occur; `MaxRows` = 2 (a row in and a row out of a clause), `MaxCalls` = 4 (open, another call, fetch, fetch to the end).
- `inputs`: `MaxLen` = 5 symbols from six-symbol alphabets; a symbol is a character, a word, a line or a disk. `SboxSize` = 16
  instead of 256 entries: the key schedule, which wraps, and the exchange are the same. `BufLen` = 3, `Lunids` = 2, `MB` = 4,
  `Ldevs` = 2, `WwnLen` = 5, `Half` = 16 stand for 256, 31, 1048576, 256, 128 and 2^32, so that each limit is met. `MaxDisks` = 4.

## 5. What is proved

Every theorem below holds for all values of the constants that satisfy these *assumptions*:

| Module | Assumption | Why it is justified |
|---|---|---|
| `WorkerPool` | at least one thread, any number of lines; outcomes among "ok", "failed", "killed" | `-w 0` creates no threads, and there is nothing to say |
| `WorkerNew` | the same, "killed" among the outcomes; finitely many process numbers, at least one a thread | the pool itself kills (`main.c:99`); `fork` finds a free number |
| `LinkedList` | finitely many nodes, `Null` not among them; keys a nonempty set of naturals; in the theorems also `~AddAfterSort` | with TRUE, `list_last` (section 6) shows that `last` is wrong: the code itself does not keep the list then |
| `RemoveDups` | `LinkedList`'s, one list, and nodes numbered in the order in which `get_devs` adds them; any identities | xplist removes duplicates from the list as `list_add` built it; luninfo sorts it first (`info.c:213-223`), and the numbers are then the places after that |
| `Timeout`, `Syscmd`, `Bgrun` | programs, calls and orders are of their record types: any script of lines, any log, any ending | the records list what the code can tell apart |
| `UdpExplore` | finitely many routers, any number of probes, TTLs and irrelevant packets | - |
| `GenCalls` | gendb was run to describe a table: its columns have different names (`CallsAssumption`); "0" is a value, the table has room for some number of rows. Only `ProgramsAreWhole` asks that no letter of `-f` and no key of `-k` is given twice; `CursorFreed` needs nothing | a database sees to the first; `-f s,s` makes gendb write the same function twice |
| `Codec`, `Inputs` | the S-box has at least one entry (`SboxAssumption`); the key is a nonempty sequence of bytes | `mkkey` and the feeder of syscmd never pass an empty key |
| `FdUtils` | a buffer of at least one character (`BufAssumption`) | every caller passes the length of an array |

**`WorkerPoolProofs`.** None of the properties of worker is inductive. `IInv` in `WorkerPoolProps`
strengthens them: `LockInv` says who holds each mutex, by program counters, and that a flag word
loaded under a mutex is still current; `FlagInv` what BUSY and DONE mean to each side (a thread
that works is BUSY; one that has left is not; while main scans for the end, the slots scanned
without a hit stay idle, since nobody else sets BUSY); `LineInv` ties the line of a busy slot to how far its
thread has come, and says that two busy slots hold different lines and that a line no slot owes is
either untouched or completely dealt with. `TypeCorrect` and `Invariance` prove `TypeOK` and
`IInv`, one lemma an action; `AtMostOnce`, `SerialsMatch`, `ErrorFileExact`, `FinishedOnlyWhenDone`,
`SlotsAreStable`, `FlagsSurvive`, `OnlyIdleCancelled` follow for every number of threads and lines, and `StepsSafe`
puts the last three together as the property that the run checks. `Implementation` proves
`Spec => ImplementsJobRunner`: `CopyLine` and the
other steps of main map to nothing until `SetBusyStore`, which is `Take`; `Fork` is `Begin` (or `Abort`),
`ChildEnds` is `End`, `LogError` is `Report`, `ClearBusyStore` is `Close`, and the last `PollNext` is `Finish`.
That at most `Count` lines are in hand is a counting argument: lines in hand map one to one to busy slots.

**`WorkerNewProofs`.** The same three results for the library version: the invariant (`TypeCorrect`),
`ItemsAreNotCancelled` and `Implementation`. What differs is the invariant: a slot's mutex may be `destroyed`
while its thread lives, so `LockInv` covers threads that wait for a mutex that is gone; and the process number
that a slot remembers may by now mean another slot's program, so `LineInv` speaks of the process table, not of the number.

**`LinkedListProofs`.** `ListsStayIntact`: `list_create`, `_destroy`, `_dup`, `_add`, `_add_list`, `_delete`,
`_get_next`, `_reset` and `_sort`, in every order and with `malloc` failing anywhere, keep the heap a set of
disjoint doubly linked lists. The members of a list are the values of the walk `first, nxt[first], ...`, a recursive
function; that an operation leads the walk where it should is shown by induction, in the form that the prover can use
(`SetInduction`: a set of numbers that holds 0 and the successor of each of its elements is all of `Nat`;
it follows from the well-foundedness of the naturals, and each module whose proofs need it proves it). `IInv` adds to the property where each loop stands:
that `list_sort`'s `ip` is on its list or at the end, that copies go to a list that exists and was never sorted (`LoopFits`).

`Refinement` proves `Spec => ImplementsListSeq`: each list is a sequence of records with a cursor. An operation without
a loop is the abstract one of its name (`AddSim`, `DeleteSim`, ...). A loop shows its result only when it ends: its beginning and its
iterations map to nothing, and the step that ends it is the whole `Sort`, `AddList` or `Dup`.
`IInv` says only that the loop stands somewhere in an intact list. `RInv` adds what it has done so far: for `list_sort`,
that the list is the old one rearranged, that equal keys stand in the order they had, and that whatever is before `ip` is in order with
all that follows (`SortProgress`); for the copies, that the list begins with what it had, goes on with the keys of the first items
of the source, and is shorter than what was read only if memory has run out (`CopyProgress`). The heart of the first is `MoveSorts`, a
lemma about sequences: to move to place *i* the first later item that belongs before it, the others one place on, keeps what is
before *i* in place and never takes an item past an equal one. This is why `SortSwap`, which relinks nodes far apart, sorts stably.

`IterationsAdvance` is the half of termination that is safety: an iteration takes `ip` one place on along a list it leaves
alone, or, in `list_sort`, puts at the same place of the same nodes one that belongs strictly before the one that was there.

**`RemoveDupsProofs`.** `DevicesAreKept` and `NoneIsLeftTwice`, for lists of any length, of both programs. `DupsInv` says that the list
stays in the order of its nodes, which makes "what the cursor has passed" a set of smaller numbers; that what the outer walk
has passed is free of duplicates; and that the inner walk knows as much of the entry the outer one holds, as long as that entry is there.
It is where the restored cursor may lead to freed memory (`pc = "undefined"`) that the second half of the argument stops.
`WalksDescend` gives every step a measure that it decreases: the entries the outer walk has left, then the phase, then the entries ahead of the
inner walk. It needs that the cursor, in use or saved, is behind `xp` (`OuterIsAhead`), which holds even where the saved one is on an entry that is gone.

**`ProcessesProofs`.** `Invariance` has three parts, one a program, each saying which processes there can be
where the parent is: `NoneLeftBehind`, `LimitIsReported` and `ZeroIsSuccess` follow. The proof forced two facts into the
invariants that no run would have asked for: an alarm is never set while the handler runs (timeout), and
a reaped ssh has a status (syscmd). `OutputForwarded` needs `ForwardInv`: the lines on their way
are consecutive and end with the last one said; ssh is silent behind a question until it is answered; the flag
`eatnext` says whether the last line read was a question, except where a question was itself swallowed,
and there ssh waits for ever; and what was shown is the concatenation of the visible lines read so far. `MailTellsTheTruth` needs `MailInv`
(the log is complete when the program has ended) and a closed form of the copying loop: a fold in `Bgrun`, which is shown to be
a run of `CopyLine` from line to line, then to stand at `Copied` after each, and to agree in the end with `Section`,
whether the first mark is there, missing, or not asked for.

**`GenDbProofs`.** `ProgramsAreWhole`: the letters of `-f` and the keys of `-k` each bring a known set of functions (`Lone`,
`ByKey`); `SrcIs` shows, through the concatenations of `write_c_src`, that the program is exactly their union and names none twice.
That a clause fits is a sum over `sprintf`'s directives, with the longest value of each type (`ValueLength`).
That every function that is called is there then follows letter by letter, the one real case being that a select brings the fetch
(`ReqFuncs`). `CallsDoAsAsked` and `ReadsShowRows` prove the two action properties for every table, command line and order of calls. Their
invariant `IInv` says that program and script are those of one command line (`RunInv`), and that the rows, the rows the cursor has left and the
record are of its columns (`TableInv`, also the theorem `TableIsTyped`). `RunInv` gives each function's statement (`BodyIs`), and `PutIs` what a
statement puts into a row: since the columns, the formats and the arguments of a `sprintf` come from the same list, each column gets its own value.
Pages are an induction over their number (`PagesAreRows`). To leave elements out of a list the model has `Kept`, a recursive function, instead of `SelectSeq`,
whose operator argument no prover here can see into; `KeptIs` says what it keeps. `CursorFreed`: each generated function, and each of its ODBC calls that may
fail, leaves the statement as it found it, or open only in `select`.

**`InputsProofs`**, the codec. `DecryptInvertsEncrypt`: for S-boxes of any size and every key, the decryptor undoes the encryptor byte by byte, since both
take the same steps through the same permutation; `DecodeInvertsEncode`: `decode` returns every byte sequence that was encoded, at whatever bit the last one ends;
`CodecIsFaithful` puts them together for all data, and `InputsRoundTrip` for the inputs of the run, of any length. The loops are folds in `Codec`. A fold is shown to be a run, a sequence of states each
the step from the one before, and the proofs are inductions along two runs side by side: `InStep` relates the decoder, after the letters that are complete so far,
to the encoder that wrote them (the bits not yet written are those not yet read). That the S-box stays a permutation is the invariant of the exchange in each step.

`InputsProofs`, the streams. `LinesAreWhole`: for every stream, every cutting of it and every size of the buffer, the calls of `fd_gets` return the same lines,
which are the stream up to its last newline or full buffer. `TelnetIsWhole`: `fd_telgets` that waits returns the same lines and gives the same replies
however the stream is cut, as long as no pause is longer than it waits (that is `NeverLate`: then no call ends early), and with `wait = 0` its pieces make the same text and the same replies unless a chunk ends within a command. Both also bound the cells of the caller's array that are written, pauses or not (`Fits`).
`WritesAreWhole`: `socket_printf` and `fd_printf` say 0 of what was sent whole, and of nothing else, for lines of any length. `StreamsStayWhole` is all three for the inputs of
the run. A loop is a recursive function, shown to be a run of passes; what it must not depend on is the buffer, so the argument speaks of the place `c` in the uncut stream (`At`:
what is in the buffer and in the chunks to come is the stream from `c` on), and relates each pass to one character of a run along the uncut stream (`GetsPassIs`, `PieceInv`).
Passes that only take a chunk are paid for by the chunks left, which shows that `Passes` are enough. For `wait = 0` it also says in which chunk `c` is (`Placed`), so that a call that ends
with its chunk ends where `TearsCommand` looks. The proof found two definitions that said less than the code: the arms of the CASE in `Telnet` and in `SocketWrite` overlapped, and TLA+ leaves
open which of them applies; now they exclude each other in the order of the code.

`InputsProofs`, the volumes. `PathsAreNamed`: for whatever lines vgdisplay prints, whatever maps there are and whatever list of disks, on Linux and
HP-UX, each row shows the group of the first volume completed on it, and no other row changes; `PathsKeepTheirVolumes` is the same for the inputs
of the run. `get_vginfo` is a fold, hence a run of `VgInfoLine` from line to line, and the property speaks of places in the output instead: the last
heading, the last name. `VgInv` relates the two after each line: the state is that of the last heading (`KnowsSection`); the group that is read has the
name last given in its section (`KnowsGroup`); a volume not completed yet has the name last given (`KnowsVolume`), but one that is completed has been
renamed to its disk or path, which is why the property asks that none is completed twice; the groups finished, and the one that is read, hold the
disks of the volumes completed in their turns (`HoldsDisks`), and keep the names they had then (`NamesGroups`); turns never go back (`TurnsGrow`), so
that the first group that has a disk is the group of its first volume.

**`UdpExploreProofs`.** `ResponsesAlwaysFit` and `ReadIsShown`, from an invariant that counts: hosts
noted never outnumber the targets done, and while a probe is under way fewer than `Number` targets are done.

All inductive invariants (`IInv` and its parts, `RInv`, `DupsInv`, `MeasureInv`) and both descents were checked by TLC on the instances of section 3 before they were proved.

**Only model-checked:**

- liveness (`Terminates`, `LoopsEnd`, `RemoveDupsEnds`, `PromptIsHandled`, `PromisesAreKept`): fairness and ENABLED are out of this prover's reach; of `LoopsEnd` and `RemoveDupsEnds` the decreasing measure is proved;
- of `inputs`: `CommandsArePassed` and `InventoryIsComplete`, whose models declare RECURSIVE operators or use `Bitwise`, which the prover cannot handle;
  `RecordsAreRead`, which sorts with a library operator that chooses among all permutations; `StringsAreKept` and `AnswersAreRead`, which rest on
  `SelectSeq`, whose operator argument the provers cannot see into.

## 6. Disagreements between code and documentation

Shown by runs:

- `list_sort` leaves `last` on the node it moved (`list.c:296` tests the wrong node), against
  `list.h:22` (`list_last`).
- `remove_dups` restores a cursor that may point to the entry just freed, against `list.h:23` (`dups_next`).
- `udpexplore` shows late answers as the response for another target, against its usage (`udp_target`).
- `worker_destroy` announces "Wait for workers to finish" and does not (`worker/new/worker.c:195`, `pool_new_destroy`).

Seen while modelling, without a run:

- `udpexplore`'s usage says that the search ends with more than one host; the code compares with two (`udpexplore.c:274`, 419).
- `worker -t` is parsed and never used (`worker/main.c:15`, 136); `timeout` prints "killing process" and sends TERM and INT, never KILL.
- `mkpass` passes its end mark through the encryptor, as one byte more, and never calls `encode_end`: what it prints decodes to the password, with a byte 255 behind it when the bits come out even (`CodecRoundTrips` says so).
- `vg.c:216` takes one digit off a partition's name: the volume of `sda12` is looked for at `sda1`.
- gendb's `do_create` in PHP inserts into `patch_actions` whatever the table (`out_php.c:88`), and a start without a limit is taken as a limit (`out_php.c:40`).
- `gendb` goes on with a table it could not describe (`main.c:138`): the functions it then writes return 0 and do nothing (`out_c.c:50`, 193, 248, 329).
  It sizes the array of a clause by the value, not by the key's name (`out_c.c:167`), and by the length the schema lists, which for a key printed with `%f` is far less than its digits.
- `stredit` with UNCOMMENT compares its pointer, not the character, with zero (`stredit.c:121`, `xplist/utils.c:173`, `luninfo/utils.c:236`): a string without "!" is left for
  whatever lies behind it. Nothing here asks for UNCOMMENT.
- `bindump` of xplist and luninfo prints a line of the dump as a format (`xplist/utils.c:211`, `luninfo/utils.c:274`); debug builds call it with inquiry data.
- `fd_telgets` that waits gives up after a pause (`fdutils.c:54-70`), with a part of a line or none, and forgets a telnet command it is in. `fd_gets` and `fd_telgets` put
  the zero of a full line one cell behind the length they are told (`fdutils.c:105`); `syscmd.c:290`, which calls `fd_telgets` without waiting, tells it all of its array.
- xplist's `-n` promises to "sort devs by name" (`xplist/main.c:124`); `compdev` returns what `strcmp` does (line 42), and `list_sort` asks for exactly 1 (`list.c:271`). With a `strcmp`
  that returns the difference of the characters, only names a difference of 1 apart are put in order.
- `get_wwn` does not measure a descriptor against its array of 128 (`luninfo/scsi.c:140`, 154, 234).
- vvinfo prints a 64-bit number as the OR of its halves, with the sign of bit 31 in the upper half (`vvinfo.c:35`).

## 7. Not modelled, and the plan

*Not modelled:* `hpmon` (the time it stores is that after its report, `hpmon:209`; the rest is SQL and Perl around databases that are not here),
`temproot` (it tests and edits `/etc/group` in separate steps on the remote host), `builder`, `check_ssh`, the scripts of
`tools`, `sql`, `getways` and `perl` (`perl/worker.pm` repeats worker's hand-over). Of modelled components: output formats and column
widths, packet layout and option parsing of `udpexplore`, the argument vector of ssh in `syscmd`, the room for 32 arguments in `bgrun` and `syscmd`, a name that fits `get_wwn` but not `info.wwn` (64, `luninfo.h:31`), the shell
and expect variants of `admssh`, `db/data.c`, `gendb/keys.c` (not built), and the copies in `old`, `save` and `x`.

*Next*, in order:

1. `SelectSeq` in `Strings` and `Scsi` as a recursive function, as in `GenDb`, and from that proofs of `StringsAreKept` and `AnswersAreRead`.
2. A measure for the steps of worker's main and of `udpexplore`, as for the loops of the list and of `remove_dups`.
