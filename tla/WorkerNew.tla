------------------------------ MODULE WorkerNew ------------------------------
(***************************************************************************)
(* worker/new: the thread pool as a library (worker.c) and the program     *)
(* that uses it (main.c).  A thread holds the mutex of its slot from the   *)
(* moment it looks at the flags until the work item has been run, so that  *)
(* worker_exec, which locks the slots in order, stops at the first one     *)
(* that is working.  The idle threads do not sleep: they lock and unlock   *)
(* their slot for ever.                                                    *)
(*                                                                         *)
(* Each work item has an argument of its own, as worker_exec requires: the *)
(* malloc that main.c:228 has in a comment.                                *)
(***************************************************************************)
EXTENDS Integers, FiniteSets

CONSTANTS Count,      \* threads of the pool
          NLines,     \* lines of the input file
          ErrorFile,  \* whether -e <file> was given
          Outcomes,   \* ways a program may end
          Pids        \* process numbers, which the kernel gives out again

ASSUME CountAssumption == Count \in Nat \ {0}
ASSUME NLinesAssumption == NLines \in Nat
ASSUME OptionAssumption == ErrorFile \in BOOLEAN
ASSUME OutcomesAssumption ==
  Outcomes \subseteq {"ok", "failed", "killed"} /\ "killed" \in Outcomes
ASSUME PidsAssumption == IsFiniteSet(Pids) /\ Cardinality(Pids) >= Count

Slots == 0 .. Count - 1
Lines == 1 .. NLines
NoLine == 0

VARIABLES
  mpc,      \* control point of the main thread
  x,        \* its loop index over the slots
  taken,    \* lines read so far; the last one is the item in main's hands
  busy,     \* worker_finish's count of busy slots, as far as it matters
  wpc,      \* control point of each thread
  mutex, flags, item,   \* struct worker_info
  cancel,   \* slots whose thread has been asked to cancel
  freed,    \* whether the array of slots has been freed
  pid,      \* the process number each thread has got from fork
  process,  \* the kernel's process table: what each number stands for
  proc,     \* "up", "exited", or "crashed"
  outcome,  \* how the program of each line ended
  errors,   \* how often each line is in the error file
  lost      \* lines the error file could not be opened for

mainVars  == <<mpc, x, taken, busy>>
slotVars  == <<mutex, flags, item, cancel, freed>>
childVars == <<pid, process, outcome>>
fileVars  == <<errors, lost>>
vars == <<mainVars, wpc, slotVars, childVars, proc, fileVars>>

NoProcess == [state |-> "none", line |-> NoLine]
FreePids == {p \in Pids : process[p].state = "none"}

MainPCs == {"open", "init", "read", "exec", "tested", "mark", "marked",
            "poll", "polled", "cancel", "destroy", "free", "return"}
WorkerPCs == {"none", "lock", "skip", "func", "wait", "kill", "log", "clear",
              "returned"}
-----------------------------------------------------------------------------
Init ==
  /\ mpc = "open" /\ x = 0 /\ taken = 0 /\ busy = FALSE
  /\ wpc = [s \in Slots |-> "none"]
  /\ mutex = [s \in Slots |-> "free"]
  /\ flags = [s \in Slots |-> {}]
  /\ item = [s \in Slots |-> NoLine]
  /\ cancel = {}
  /\ freed = FALSE
  /\ pid \in [Slots -> {CHOOSE p \in Pids : TRUE}]
  /\ process = [p \in Pids |-> NoProcess]
  /\ proc = "up"
  /\ outcome = [l \in Lines |-> "none"]
  /\ errors = [l \in Lines |-> 0]
  /\ lost = {}

Lock(s, me) ==
  /\ mutex[s] = "free"
  /\ mutex' = [mutex EXCEPT ![s] = me]

Unlock(s) == mutex' = [mutex EXCEPT ![s] = "free"]

\* Fault: `x <= pool->count'.
NextRoundOffByOne(again, done) ==
  /\ x' = IF x < Count THEN x + 1 ELSE 0
  /\ mpc' = IF x < Count THEN again ELSE done

\* The end of a round of `for (x=0; x < pool->count; x++)'.
NextRound(again, done) ==
  /\ x' = IF x + 1 < Count THEN x + 1 ELSE 0
  /\ mpc' = IF x + 1 < Count THEN again ELSE done

Exit == proc' = "exited"
-----------------------------------------------------------------------------
(* The main thread: main, worker_init, worker_exec.                        *)

\* fopen of the input file.
Open ==
  /\ mpc = "open" /\ proc = "up"
  /\ \/ mpc' = "init" /\ UNCHANGED proc
     \/ Exit /\ UNCHANGED mpc
  /\ UNCHANGED <<x, taken, busy, wpc, slotVars, childVars, fileVars>>

\* One round of worker_init.  If it fails main returns, which ends the
\* threads that exist already.
CreateThread ==
  /\ mpc = "init" /\ proc = "up"
  /\ \/ /\ wpc' = [wpc EXCEPT ![x] = "lock"]
        /\ NextRound("init", "read")
        /\ UNCHANGED proc
     \/ Exit /\ UNCHANGED <<wpc, x, mpc>>
  /\ UNCHANGED <<taken, busy, slotVars, childVars, fileVars>>

ReadLine ==
  /\ mpc = "read" /\ proc = "up"
  /\ \/ taken < NLines /\ taken' = taken + 1 /\ mpc' = "exec"
     \/ taken = NLines /\ mpc' = "mark" /\ UNCHANGED taken
  /\ x' = 0
  /\ UNCHANGED <<busy, wpc, slotVars, childVars, proc, fileVars>>

\* worker_exec: pthread_mutex_lock waits while the slot's thread runs an item.
LockSlot ==
  /\ mpc = "exec" /\ proc = "up"
  /\ Lock(x, "main")
  /\ mpc' = "tested"
  /\ UNCHANGED <<x, taken, busy, wpc, flags, item, cancel, freed, childVars, proc, fileVars>>

\* Fault: the item is put into the slot whether or not it is busy.
PutItemAnywhere ==
  /\ mpc = "tested" /\ proc = "up"
  /\ Unlock(x)
  /\ item' = [item EXCEPT ![x] = taken]
  /\ flags' = [flags EXCEPT ![x] = @ \cup {"BUSY"}]
  /\ mpc' = "read"
  /\ UNCHANGED <<x, taken, busy, wpc, cancel, freed, childVars, proc, fileVars>>

\* A slot that was handed an item its thread has not seen yet is passed over;
\* after the last slot main sleeps and starts again with the first.
PutItem ==
  /\ mpc = "tested" /\ proc = "up"
  /\ Unlock(x)
  /\ \/ /\ "BUSY" \in flags[x]
        /\ NextRound("exec", "exec")
        /\ UNCHANGED <<item, flags>>
     \/ /\ "BUSY" \notin flags[x]
        /\ item' = [item EXCEPT ![x] = taken]
        /\ flags' = [flags EXCEPT ![x] = @ \cup {"BUSY"}]
        /\ mpc' = "read"
        /\ UNCHANGED x
  /\ UNCHANGED <<taken, busy, wpc, cancel, freed, childVars, proc, fileVars>>
-----------------------------------------------------------------------------
(* worker_destroy and worker_finish.                                       *)

MarkDone ==
  /\ mpc = "mark" /\ proc = "up"
  /\ Lock(x, "main")
  /\ flags' = [flags EXCEPT ![x] = @ \cup {"DONE"}]
  /\ mpc' = "marked"
  /\ UNCHANGED <<x, taken, busy, wpc, item, cancel, freed, childVars, proc, fileVars>>

Marked ==
  /\ mpc = "marked" /\ proc = "up"
  /\ Unlock(x)
  /\ NextRound("mark", "poll")
  /\ busy' = FALSE
  /\ UNCHANGED <<taken, wpc, flags, item, cancel, freed, childVars, proc, fileVars>>

PollSlot ==
  /\ mpc = "poll" /\ proc = "up"
  /\ Lock(x, "main")
  /\ busy' = (busy \/ "BUSY" \in flags[x])
  /\ mpc' = "polled"
  /\ UNCHANGED <<x, taken, wpc, flags, item, cancel, freed, childVars, proc, fileVars>>

\* Fault: the loop is left after one scan.
PolledOnce ==
  /\ mpc = "polled" /\ proc = "up"
  /\ Unlock(x)
  /\ NextRound("poll", "cancel")
  /\ busy' = (busy /\ x + 1 < Count)
  /\ UNCHANGED <<taken, wpc, flags, item, cancel, freed, childVars, proc, fileVars>>

Polled ==
  /\ mpc = "polled" /\ proc = "up"
  /\ Unlock(x)
  /\ NextRound("poll", IF busy THEN "poll" ELSE "cancel")
  /\ busy' = (busy /\ x + 1 < Count)
  /\ UNCHANGED <<taken, wpc, flags, item, cancel, freed, childVars, proc, fileVars>>

CancelThread ==
  /\ mpc = "cancel" /\ proc = "up"
  /\ cancel' = cancel \cup {x}
  /\ NextRound("cancel", "destroy")
  /\ UNCHANGED <<taken, busy, wpc, mutex, flags, item, freed, childVars, proc, fileVars>>

\* No join: the threads may still be there, even inside the mutex.
DestroyMutex ==
  /\ mpc = "destroy" /\ proc = "up"
  /\ mutex' = [mutex EXCEPT ![x] = "destroyed"]
  /\ NextRound("destroy", "free")
  /\ UNCHANGED <<taken, busy, wpc, flags, item, cancel, freed, childVars, proc, fileVars>>

FreePool ==
  /\ mpc = "free" /\ proc = "up"
  /\ freed' = TRUE
  /\ mpc' = "return"
  /\ UNCHANGED <<x, taken, busy, wpc, mutex, flags, item, cancel, childVars, proc, fileVars>>

\* main returns, and the process and its threads end.
Return ==
  /\ mpc = "return" /\ proc = "up"
  /\ Exit
  /\ UNCHANGED <<mainVars, wpc, slotVars, childVars, fileVars>>

Main ==
  \/ Open \/ CreateThread \/ ReadLine \/ LockSlot \/ PutItem
  \/ MarkDone \/ Marked \/ PollSlot \/ Polled
  \/ CancelThread \/ DestroyMutex \/ FreePool \/ Return
-----------------------------------------------------------------------------
(* A thread of the pool: worker, with run_prog as the function of the item. *)

LockOwn(s) ==
  /\ wpc[s] = "lock" /\ proc = "up"
  /\ Lock(s, "worker")
  /\ wpc' = [wpc EXCEPT ![s] = IF "BUSY" \in flags[s] THEN "func" ELSE "skip"]
  /\ UNCHANGED <<mainVars, flags, item, cancel, freed, childVars, proc, fileVars>>

\* Not busy: leave if done, else go round again, without a pause.
Skip(s) ==
  /\ wpc[s] = "skip" /\ proc = "up" /\ mutex[s] # "destroyed"
  /\ Unlock(s)
  /\ wpc' = [wpc EXCEPT ![s] = IF "DONE" \in flags[s] THEN "returned" ELSE "lock"]
  /\ UNCHANGED <<mainVars, flags, item, cancel, freed, childVars, proc, fileVars>>

\* A thread that goes on after its mutex was destroyed, or its slot freed: it
\* may find DONE and leave, or find anything.
TouchDestroyed(s) ==
  /\ wpc[s] \in {"lock", "skip"} /\ proc = "up"
  /\ mutex[s] = "destroyed"
  /\ \/ wpc' = [wpc EXCEPT ![s] = "returned"] /\ UNCHANGED proc
     \/ proc' = "crashed" /\ UNCHANGED wpc
  /\ UNCHANGED <<mainVars, slotVars, childVars, fileVars>>

\* The new process gets any number that is not in use; a fork that fails is
\* exit(1).
Fork(s) ==
  /\ wpc[s] = "func" /\ proc = "up"
  /\ \/ \E p \in FreePids :
          /\ pid' = [pid EXCEPT ![s] = p]
          /\ process' = [process EXCEPT ![p] = [state |-> "running", line |-> item[s]]]
          /\ wpc' = [wpc EXCEPT ![s] = "wait"]
          /\ UNCHANGED proc
     \/ Exit /\ UNCHANGED <<pid, process, wpc>>
  /\ UNCHANGED <<mainVars, slotVars, outcome, fileVars>>

\* WIFEXITED(status) ? WEXITSTATUS(status) : 1
Failed(state) == state # "ok"

AfterKill(s) == IF Failed(outcome[item[s]]) /\ ErrorFile THEN "log" ELSE "clear"

Wait(s) ==
  /\ wpc[s] = "wait" /\ proc = "up"
  /\ process[pid[s]].state \in Outcomes
  /\ process' = [process EXCEPT ![pid[s]] = NoProcess]
  /\ wpc' = [wpc EXCEPT ![s] = "kill"]
  /\ UNCHANGED <<mainVars, slotVars, pid, outcome, proc, fileVars>>

\* kill(pid,SIGTERM) after the wait: the number may stand for nothing, or for
\* a program that another thread has started meanwhile.
KillReaped(s) ==
  /\ wpc[s] = "kill" /\ proc = "up"
  /\ wpc' = [wpc EXCEPT ![s] = AfterKill(s)]
  /\ \/ UNCHANGED <<process, outcome>>
     \/ /\ process[pid[s]].state = "running"
        /\ process' = [process EXCEPT ![pid[s]].state = "killed"]
        /\ outcome' = [outcome EXCEPT ![process[pid[s]].line] = "killed"]
  /\ UNCHANGED <<mainVars, slotVars, pid, proc, fileVars>>

LogError(s) ==
  /\ wpc[s] = "log" /\ proc = "up"
  /\ \/ errors' = [errors EXCEPT ![item[s]] = @ + 1] /\ UNCHANGED lost
     \/ lost' = lost \cup {item[s]} /\ UNCHANGED errors
  /\ wpc' = [wpc EXCEPT ![s] = "clear"]
  /\ UNCHANGED <<mainVars, slotVars, childVars, proc>>

\* Fault: the slot is unlocked with BUSY still set.
ClearBusyKeeps(s) ==
  /\ wpc[s] = "clear" /\ proc = "up"
  /\ Unlock(s)
  /\ wpc' = [wpc EXCEPT ![s] = "lock"]
  /\ UNCHANGED <<mainVars, flags, item, cancel, freed, childVars, proc, fileVars>>

ClearBusy(s) ==
  /\ wpc[s] = "clear" /\ proc = "up"
  /\ Unlock(s)
  /\ flags' = [flags EXCEPT ![s] = @ \ {"BUSY"}]
  /\ wpc' = [wpc EXCEPT ![s] = "lock"]
  /\ UNCHANGED <<mainVars, item, cancel, freed, childVars, proc, fileVars>>

\* The cancellation points of a thread are those of run_prog (waitpid and the
\* error file), and no thread is there when main cancels: NoItemIsCancelled.
Worker(s) ==
  \/ LockOwn(s) \/ Skip(s) \/ TouchDestroyed(s)
  \/ Fork(s) \/ Wait(s) \/ KillReaped(s) \/ LogError(s) \/ ClearBusy(s)

ChildEnds(p) ==
  /\ process[p].state = "running"
  /\ \E o \in Outcomes :
       /\ process' = [process EXCEPT ![p].state = o]
       /\ outcome' = [outcome EXCEPT ![process[p].line] = o]
  /\ UNCHANGED <<mainVars, wpc, slotVars, pid, proc, fileVars>>

Over == proc # "up"

Next ==
  \/ Main
  \/ \E s \in Slots : Worker(s)
  \/ \E p \in Pids : ChildEnds(p)
  \/ Over /\ UNCHANGED vars

Spec == Init /\ [][Next]_vars
=============================================================================
