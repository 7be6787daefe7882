----------------------------- MODULE WorkerPool -----------------------------
(***************************************************************************)
(* worker/: a main thread reads a file line by line and hands each line to *)
(* one of `count' worker threads; the worker forks the user's program with *)
(* the line as its last argument, waits for it, appends the line to the    *)
(* error file when the program failed, and becomes idle again.             *)
(*                                                                         *)
(* The threads share one worker_info per slot.  Every access to `flags' is *)
(* made under the slot's busy_mutex and is modelled as the two steps it    *)
(* is: lock and load, then store and unlock.  `line' and `serial' are      *)
(* written and read with no lock at all.                                   *)
(***************************************************************************)
EXTENDS Integers, FiniteSets

CONSTANTS Count,      \* <# of threads>
          NLines,     \* lines of the input file
          ErrorFile,  \* whether -e <file> was given
          Outcomes    \* ways a program may end

ASSUME CountAssumption == Count \in Nat \ {0}
ASSUME NLinesAssumption == NLines \in Nat
ASSUME OptionAssumption == ErrorFile \in BOOLEAN
ASSUME OutcomesAssumption == Outcomes \subseteq {"ok", "failed", "killed"}

Slots == 0 .. Count - 1
Lines == 1 .. NLines

VARIABLES
  mpc,      \* control point of main
  x,        \* main's loop index; after get_idle_worker, the slot wp points to
  linenum,  \* lines read so far; the line in main's buffer
  mbusy,    \* main's local `busy'
  mflags,   \* flags loaded by main, not stored yet
  wpc,      \* control point of each worker thread
  wbusy, wdone,  \* the worker's locals `busy' and `done'
  wflags,   \* flags loaded by the worker, not stored yet
  arg,      \* the copy of the line in the worker's argv
  flags, mutex, line, serial,   \* struct worker_info
  cancel,   \* slots whose thread main has asked to cancel
  child,    \* the program the slot has forked, as the kernel knows it
  proc,     \* "up", or "exited" when some thread called exit()
  starts,   \* how often a program was started for each line
  outcome,  \* how the program of each line ended
  logged,   \* how often each line is in the error file
  lost      \* lines the error file could not be opened for

mainVars   == <<mpc, x, linenum, mbusy, mflags>>
workerVars == <<wpc, wbusy, wdone, wflags, arg>>
slotVars   == <<flags, mutex, line, serial>>
jobVars    == <<starts, outcome, logged, lost>>
vars == <<mainVars, workerVars, slotVars, cancel, child, proc, jobVars>>

NoLine == 0
Idle == [state |-> "none", line |-> NoLine, serial |-> 0]

MainPCs == {"open", "create", "fgets", "scan", "scanned", "copy", "number",
            "set", "setting", "mark", "marking", "poll", "polled", "cancel", "gone"}
WorkerPCs == {"new", "lock", "test", "sleep", "exec", "fork", "wait", "log",
              "clear", "clearing", "returned", "cancelled"}
FlagSets == SUBSET {"BUSY", "DONE"}
-----------------------------------------------------------------------------
Init ==
  /\ mpc = "open" /\ x = 0 /\ linenum = 0 /\ mbusy = FALSE /\ mflags = {}
  /\ wpc = [s \in Slots |-> "new"]
  /\ wbusy = [s \in Slots |-> FALSE]
  /\ wdone = [s \in Slots |-> FALSE]
  /\ wflags = [s \in Slots |-> {}]
  /\ arg = [s \in Slots |-> NoLine]
  /\ flags = [s \in Slots |-> {}]
  /\ mutex = [s \in Slots |-> "free"]
  /\ line = [s \in Slots |-> NoLine]
  /\ serial = [s \in Slots |-> 0]
  /\ cancel = {}
  /\ child = [s \in Slots |-> Idle]
  /\ proc = "up"
  /\ starts = [l \in Lines |-> 0]
  /\ outcome = [l \in Lines |-> "none"]
  /\ logged = [l \in Lines |-> 0]
  /\ lost = {}

\* The busy_mutex of a slot is only ever asked for by main and by the slot's
\* own thread, which is all the owner's name has to tell apart.
Lock(s, me) ==
  /\ mutex[s] = "free"
  /\ mutex' = [mutex EXCEPT ![s] = me]

Unlock(s) == mutex' = [mutex EXCEPT ![s] = "free"]

\* The next round of a loop over the slots: on to `more', or with x = 0 to
\* `after' when all slots have been visited.
NextSlot(more, after) ==
  \/ /\ x + 1 < Count
     /\ x' = x + 1
     /\ mpc' = more
  \/ /\ x + 1 >= Count
     /\ x' = 0
     /\ mpc' = after
-----------------------------------------------------------------------------
(* The main thread.                                                        *)

OpenInput ==
  /\ mpc = "open" /\ proc = "up"
  /\ \/ mpc' = "create" /\ UNCHANGED proc
     \/ proc' = "exited" /\ UNCHANGED mpc
  /\ UNCHANGED <<x, linenum, mbusy, mflags, workerVars, slotVars, cancel, child, jobVars>>

\* One round of create_workers; a pthread_create that fails ends main, and
\* with it the process.
CreateWorker ==
  /\ mpc = "create" /\ proc = "up"
  /\ \/ /\ wpc' = [wpc EXCEPT ![x] = "lock"]
        /\ NextSlot("create", "fgets")
        /\ UNCHANGED proc
     \/ /\ proc' = "exited"
        /\ UNCHANGED <<wpc, mpc, x>>
  /\ UNCHANGED <<linenum, mbusy, mflags, wbusy, wdone, wflags, arg, slotVars,
                 cancel, child, jobVars>>

ReadLine ==
  /\ mpc = "fgets" /\ proc = "up"
  /\ \/ /\ linenum < NLines
        /\ linenum' = linenum + 1
        /\ mpc' = "scan"
     \/ /\ linenum = NLines
        /\ mpc' = "mark"
        /\ UNCHANGED linenum
  /\ x' = 0
  /\ UNCHANGED <<mbusy, mflags, workerVars, slotVars, cancel, child, proc, jobVars>>

\* get_busy, in two steps.
GetBusy ==
  /\ mpc = "scan" /\ proc = "up"
  /\ Lock(x, "main")
  /\ mbusy' = ("BUSY" \in flags[x])
  /\ mpc' = "scanned"
  /\ UNCHANGED <<x, linenum, mflags, workerVars, flags, line, serial, cancel,
                 child, proc, jobVars>>

\* Fault: get_idle_worker forgets to look at what get_busy returned.
PickAny ==
  /\ mpc = "scanned" /\ proc = "up"
  /\ Unlock(x)
  /\ mpc' = "copy"
  /\ UNCHANGED <<x, linenum, mbusy, mflags, workerVars, flags, line, serial,
                 cancel, child, proc, jobVars>>

\* get_idle_worker returns the first idle slot; after the last busy one it
\* sleeps and starts over.
PickIdle ==
  /\ mpc = "scanned" /\ proc = "up"
  /\ Unlock(x)
  /\ \/ mbusy /\ NextSlot("scan", "scan")
     \/ ~mbusy /\ mpc' = "copy" /\ UNCHANGED x
  /\ UNCHANGED <<linenum, mbusy, mflags, workerVars, flags, line, serial,
                 cancel, child, proc, jobVars>>

CopyLine ==
  /\ mpc = "copy" /\ proc = "up"
  /\ line' = [line EXCEPT ![x] = linenum]
  /\ mpc' = "number"
  /\ UNCHANGED <<x, linenum, mbusy, mflags, workerVars, flags, mutex, serial,
                 cancel, child, proc, jobVars>>

\* Fault: wp->serial is assigned before linenum is advanced.
SetSerialEarly ==
  /\ mpc = "number" /\ proc = "up"
  /\ serial' = [serial EXCEPT ![x] = linenum - 1]
  /\ mpc' = "set"
  /\ UNCHANGED <<x, linenum, mbusy, mflags, workerVars, flags, mutex, line,
                 cancel, child, proc, jobVars>>

SetSerial ==
  /\ mpc = "number" /\ proc = "up"
  /\ serial' = [serial EXCEPT ![x] = linenum]
  /\ mpc' = "set"
  /\ UNCHANGED <<x, linenum, mbusy, mflags, workerVars, flags, mutex, line,
                 cancel, child, proc, jobVars>>

\* set_busy(wp, 1): a read-modify-write of flags under the mutex.
SetBusyLoad ==
  /\ mpc = "set" /\ proc = "up"
  /\ Lock(x, "main")
  /\ mflags' = flags[x]
  /\ mpc' = "setting"
  /\ UNCHANGED <<x, linenum, mbusy, workerVars, flags, line, serial, cancel,
                 child, proc, jobVars>>

SetBusyStore ==
  /\ mpc = "setting" /\ proc = "up"
  /\ Unlock(x)
  /\ flags' = [flags EXCEPT ![x] = mflags \cup {"BUSY"}]
  /\ mpc' = "fgets"
  /\ UNCHANGED <<x, linenum, mbusy, mflags, workerVars, line, serial, cancel,
                 child, proc, jobVars>>

\* Fault: worker_finish marks DONE without taking the mutex.
MarkDoneNoLock ==
  /\ mpc = "mark" /\ proc = "up"
  /\ mflags' = flags[x]
  /\ mpc' = "marking"
  /\ UNCHANGED <<x, linenum, mbusy, workerVars, slotVars, cancel, child, proc, jobVars>>

\* worker_finish: first mark every slot DONE, ...
MarkDoneLoad ==
  /\ mpc = "mark" /\ proc = "up"
  /\ Lock(x, "main")
  /\ mflags' = flags[x]
  /\ mpc' = "marking"
  /\ UNCHANGED <<x, linenum, mbusy, workerVars, flags, line, serial, cancel,
                 child, proc, jobVars>>

MarkDoneStore ==
  /\ mpc = "marking" /\ proc = "up"
  /\ Unlock(x)
  /\ flags' = [flags EXCEPT ![x] = mflags \cup {"DONE"}]
  /\ NextSlot("mark", "poll")
  /\ mbusy' = FALSE
  /\ UNCHANGED <<linenum, mflags, workerVars, line, serial, cancel, child,
                 proc, jobVars>>

\* Fault: `busy = ' for `busy++', so that only the last slot counts.
PollLastOnly ==
  /\ mpc = "poll" /\ proc = "up"
  /\ Lock(x, "main")
  /\ mbusy' = ("BUSY" \in flags[x])
  /\ mpc' = "polled"
  /\ UNCHANGED <<x, linenum, mflags, workerVars, flags, line, serial, cancel,
                 child, proc, jobVars>>

\* ... then scan all of them until one scan meets no busy slot, ...
PollBusy ==
  /\ mpc = "poll" /\ proc = "up"
  /\ Lock(x, "main")
  /\ mbusy' = (mbusy \/ "BUSY" \in flags[x])
  /\ mpc' = "polled"
  /\ UNCHANGED <<x, linenum, mflags, workerVars, flags, line, serial, cancel,
                 child, proc, jobVars>>

PollNext ==
  /\ mpc = "polled" /\ proc = "up"
  /\ Unlock(x)
  /\ NextSlot("poll", IF mbusy THEN "poll" ELSE "cancel")
  /\ mbusy' = (mbusy /\ x + 1 < Count)
  /\ UNCHANGED <<linenum, mflags, workerVars, flags, line, serial, cancel,
                 child, proc, jobVars>>

\* ... and cancel the threads.  main then leaves with pthread_exit.
CancelWorker ==
  /\ mpc = "cancel" /\ proc = "up"
  /\ cancel' = cancel \cup {x}
  /\ NextSlot("cancel", "gone")
  /\ UNCHANGED <<linenum, mbusy, mflags, workerVars, slotVars, child, proc, jobVars>>

Main ==
  \/ OpenInput \/ CreateWorker \/ ReadLine
  \/ GetBusy \/ PickIdle \/ CopyLine \/ SetSerial
  \/ SetBusyLoad \/ SetBusyStore
  \/ MarkDoneLoad \/ MarkDoneStore \/ PollBusy \/ PollNext \/ CancelWorker
-----------------------------------------------------------------------------
(* A worker thread.                                                        *)

ReadFlags(s) ==
  /\ wpc[s] = "lock" /\ proc = "up"
  /\ Lock(s, "worker")
  /\ wbusy' = [wbusy EXCEPT ![s] = "BUSY" \in flags[s]]
  /\ wdone' = [wdone EXCEPT ![s] = "DONE" \in flags[s]]
  /\ wpc' = [wpc EXCEPT ![s] = "test"]
  /\ UNCHANGED <<mainVars, wflags, arg, flags, line, serial, cancel, child,
                 proc, jobVars>>

\* Fault: `if (done) break' before `if (!busy)'.
TestDoneFirst(s) ==
  /\ wpc[s] = "test" /\ proc = "up"
  /\ Unlock(s)
  /\ wpc' = [wpc EXCEPT ![s] = IF wdone[s] THEN "returned"
                               ELSE IF wbusy[s] THEN "exec" ELSE "sleep"]
  /\ UNCHANGED <<mainVars, wbusy, wdone, wflags, arg, flags, line, serial,
                 cancel, child, proc, jobVars>>

TestFlags(s) ==
  /\ wpc[s] = "test" /\ proc = "up"
  /\ Unlock(s)
  /\ \/ wbusy[s] /\ wpc' = [wpc EXCEPT ![s] = "exec"]
     \/ ~wbusy[s] /\ wdone[s] /\ wpc' = [wpc EXCEPT ![s] = "returned"]
     \/ ~wbusy[s] /\ ~wdone[s] /\ wpc' = [wpc EXCEPT ![s] = "sleep"]
  /\ UNCHANGED <<mainVars, wbusy, wdone, wflags, arg, flags, line, serial,
                 cancel, child, proc, jobVars>>

Wake(s) ==
  /\ wpc[s] = "sleep" /\ proc = "up"
  /\ wpc' = [wpc EXCEPT ![s] = "lock"]
  /\ UNCHANGED <<mainVars, wbusy, wdone, wflags, arg, slotVars, cancel, child,
                 proc, jobVars>>

\* exec_prog copies the slot's line into a fresh argv.
BuildArgv(s) ==
  /\ wpc[s] = "exec" /\ proc = "up"
  /\ arg' = [arg EXCEPT ![s] = line[s]]
  /\ wpc' = [wpc EXCEPT ![s] = "fork"]
  /\ UNCHANGED <<mainVars, wbusy, wdone, wflags, slotVars, cancel, child, proc,
                 jobVars>>

\* do_exec: the program runs with argv and WORKER_SERIAL; a fork that fails
\* is exit(1) of the whole process.
Fork(s) ==
  /\ wpc[s] = "fork" /\ proc = "up"
  /\ \/ /\ child' = [child EXCEPT ![s] =
                       [state |-> "running", line |-> arg[s], serial |-> serial[s]]]
        /\ starts' = [starts EXCEPT ![arg[s]] = @ + 1]
        /\ wpc' = [wpc EXCEPT ![s] = "wait"]
        /\ UNCHANGED proc
     \/ /\ proc' = "exited"
        /\ UNCHANGED <<child, starts, wpc>>
  /\ UNCHANGED <<mainVars, wbusy, wdone, wflags, arg, slotVars, cancel,
                 outcome, logged, lost>>

\* waitpid and WEXITSTATUS: the exit code of a program that exited, and 0 for
\* one that a signal killed.
ExitStatus(state) == IF state = "failed" THEN 1 ELSE 0

\* Fault: the status is not tested before the line is logged.
WaitChildLogAll(s) ==
  /\ wpc[s] = "wait" /\ proc = "up"
  /\ child[s].state \in Outcomes
  /\ child' = [child EXCEPT ![s] = Idle]
  /\ wpc' = [wpc EXCEPT ![s] = IF ErrorFile THEN "log" ELSE "clear"]
  /\ UNCHANGED <<mainVars, wbusy, wdone, wflags, arg, slotVars, cancel, proc, jobVars>>

WaitChild(s) ==
  /\ wpc[s] = "wait" /\ proc = "up"
  /\ child[s].state \in Outcomes
  /\ child' = [child EXCEPT ![s] = Idle]
  /\ wpc' = [wpc EXCEPT ![s] =
               IF ExitStatus(child[s].state) # 0 /\ ErrorFile THEN "log" ELSE "clear"]
  /\ UNCHANGED <<mainVars, wbusy, wdone, wflags, arg, slotVars, cancel, proc, jobVars>>

\* The line goes to the error file from the slot, not from argv; an error
\* file that does not open is skipped silently.
LogError(s) ==
  /\ wpc[s] = "log" /\ proc = "up"
  /\ \/ logged' = [logged EXCEPT ![line[s]] = @ + 1] /\ UNCHANGED lost
     \/ lost' = lost \cup {line[s]} /\ UNCHANGED logged
  /\ wpc' = [wpc EXCEPT ![s] = "clear"]
  /\ UNCHANGED <<mainVars, wbusy, wdone, wflags, arg, slotVars, cancel, child,
                 proc, starts, outcome>>

\* set_busy(wp, 0)
ClearBusyLoad(s) ==
  /\ wpc[s] = "clear" /\ proc = "up"
  /\ Lock(s, "worker")
  /\ wflags' = [wflags EXCEPT ![s] = flags[s]]
  /\ wpc' = [wpc EXCEPT ![s] = "clearing"]
  /\ UNCHANGED <<mainVars, wbusy, wdone, arg, flags, line, serial, cancel,
                 child, proc, jobVars>>

\* Fault: set_busy(wp, 0) leaves the flag set.
ClearBusyKeeps(s) ==
  /\ wpc[s] = "clearing" /\ proc = "up"
  /\ Unlock(s)
  /\ flags' = [flags EXCEPT ![s] = wflags[s]]
  /\ wpc' = [wpc EXCEPT ![s] = "lock"]
  /\ UNCHANGED <<mainVars, wbusy, wdone, wflags, arg, line, serial, cancel,
                 child, proc, jobVars>>

ClearBusyStore(s) ==
  /\ wpc[s] = "clearing" /\ proc = "up"
  /\ Unlock(s)
  /\ flags' = [flags EXCEPT ![s] = wflags[s] \ {"BUSY"}]
  /\ wpc' = [wpc EXCEPT ![s] = "lock"]
  /\ UNCHANGED <<mainVars, wbusy, wdone, wflags, arg, line, serial, cancel,
                 child, proc, jobVars>>

\* A cancelled thread dies at its next cancellation point: sleep, waitpid, or
\* the file operations of the error log.  Taking a mutex is not one.
Cancelled(s) ==
  /\ s \in cancel /\ proc = "up"
  /\ wpc[s] \in {"sleep", "wait", "log"}
  /\ wpc' = [wpc EXCEPT ![s] = "cancelled"]
  /\ UNCHANGED <<mainVars, wbusy, wdone, wflags, arg, slotVars, cancel, child,
                 proc, jobVars>>

Worker(s) ==
  \/ ReadFlags(s) \/ TestFlags(s) \/ Wake(s)
  \/ BuildArgv(s) \/ Fork(s) \/ WaitChild(s) \/ LogError(s)
  \/ ClearBusyLoad(s) \/ ClearBusyStore(s) \/ Cancelled(s)

\* The user's program, which outlives the process that forked it.
ChildEnds(s) ==
  /\ child[s].state = "running"
  /\ \E o \in Outcomes :
       /\ child' = [child EXCEPT ![s].state = o]
       /\ outcome' = [outcome EXCEPT ![child[s].line] = o]
  /\ UNCHANGED <<mainVars, workerVars, slotVars, cancel, proc, starts, logged, lost>>

Ended(s) == wpc[s] \in {"returned", "cancelled"}

Terminated ==
  \/ proc = "exited"
  \/ mpc = "gone" /\ \A s \in Slots : Ended(s)

Next ==
  \/ Main
  \/ \E s \in Slots : Worker(s) \/ ChildEnds(s)
  \/ Terminated /\ UNCHANGED vars

Spec == Init /\ [][Next]_vars
=============================================================================
