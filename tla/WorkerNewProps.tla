--------------------------- MODULE WorkerNewProps ----------------------------
(***************************************************************************)
(* What must hold of the pool of worker/new, and that the program built on *)
(* it implements JobRunner, as worker does.                                *)
(***************************************************************************)
EXTENDS WorkerNew

InItem == {"func", "wait", "kill", "log", "clear"}

\* Every variable keeps its type.
TypeOK ==
  /\ mpc \in MainPCs
  /\ x \in Slots
  /\ taken \in 0 .. NLines
  /\ busy \in BOOLEAN
  /\ wpc \in [Slots -> WorkerPCs]
  /\ mutex \in [Slots -> {"free", "main", "worker", "destroyed"}]
  /\ flags \in [Slots -> SUBSET {"BUSY", "DONE"}]
  /\ item \in [Slots -> 0 .. NLines]
  /\ cancel \subseteq Slots
  /\ freed \in BOOLEAN
  /\ pid \in [Slots -> Pids]
  /\ process \in [Pids -> [state : {"none", "running"} \cup Outcomes, line : 0 .. NLines]]
  /\ proc \in {"up", "exited", "crashed"}
  /\ outcome \in [Lines -> {"none"} \cup Outcomes]
  /\ errors \in [Lines -> Nat]
  /\ lost \subseteq Lines

\* A thread that has been asked to cancel is not in the middle of an item, so
\* no program is left without a parent and no failed line without its entry.
NoItemIsCancelled == \A s \in cancel : wpc[s] \notin InItem

\* worker.c:195, "Wait for workers to finish": when a mutex is destroyed its
\* thread has ended.
ThreadsEndBeforePool ==
  \A s \in Slots : mutex[s] = "destroyed" => wpc[s] = "returned"
-----------------------------------------------------------------------------
(* Refinement.  A busy slot tells the phase of its item; every other line  *)
(* is either still to be handed over or closed.                            *)

HandedCount == IF mpc \in {"exec", "tested"} THEN taken - 1 ELSE taken

Carriers(l) == {s \in Slots : "BUSY" \in flags[s] /\ item[s] = l}

ItemPhase(s) ==
  IF wpc[s] \in {"lock", "skip", "func"} THEN "taken"
  ELSE IF wpc[s] = "wait" /\ outcome[item[s]] = "none" THEN "running"
  ELSE "ended"

PhaseOf(l) ==
  IF l > HandedCount THEN "unread"
  ELSE IF Carriers(l) = {} THEN "closed"
  ELSE ItemPhase(CHOOSE s \in Carriers(l) : TRUE)

RunIsOver ==
  IF mpc \in {"cancel", "destroy", "free", "return"} THEN "done"
  ELSE IF proc # "up" THEN "aborted"
  ELSE "no"

Jobs == INSTANCE JobRunner WITH
  phase <- [l \in Lines |-> PhaseOf(l)],
  result <- outcome,
  reported <- {l \in Lines : errors[l] > 0},
  over <- RunIsOver,
  Failures <- {"failed", "killed"}

\* The program implements JobRunner: each line is run once, in order, at most
\* Count at a time, reported if it failed or was killed, and main destroys
\* the pool only when every line has been dealt with.
ImplementsJobRunner == Jobs!Spec
-----------------------------------------------------------------------------
(* The inductive invariant.  LockInv: who holds each mutex, by program     *)
(* counters.  FlagInv: what BUSY and DONE mean to the thread and to main;  *)
(* the slots that a scan without a hit has passed stay idle, since nobody  *)
(* sets BUSY any more.  LineInv: how far the item of a busy slot has come. *)

IsBusy(s) == "BUSY" \in flags[s]
Down == mpc \in {"cancel", "destroy", "free", "return"}
Finishing == mpc \in {"mark", "marked", "poll", "polled"} \/ Down

MainHolds(s) == mpc \in {"tested", "marked", "polled"} /\ x = s
WorkerHolds(s) == wpc[s] \in InItem \cup {"skip"}
Destroyed(s) == mpc \in {"free", "return"} \/ (mpc = "destroy" /\ s < x)

LockInv ==
  \A s \in Slots :
    /\ mutex[s] = "main" <=> MainHolds(s)
    /\ mutex[s] = "destroyed" <=> Destroyed(s)
    /\ ~Destroyed(s) => (mutex[s] = "worker" <=> WorkerHolds(s))

Created(s) == mpc # "open" /\ (mpc = "init" => s < x)
ToldToEnd(s) == \/ mpc \in {"poll", "polled"} \/ Down
                \/ mpc = "mark" /\ s < x
                \/ mpc = "marked" /\ s <= x
SeenIdle(s) == \/ mpc = "poll" /\ ~busy /\ s < x
               \/ mpc = "polled" /\ ~busy /\ s <= x
               \/ Down

SlotInv(s) ==
  /\ wpc[s] = "none" <=> ~Created(s)
  /\ "DONE" \in flags[s] <=> ToldToEnd(s)
  /\ wpc[s] = "returned" => "DONE" \in flags[s]
  /\ wpc[s] \in InItem => IsBusy(s)
  /\ wpc[s] \in {"none", "skip", "returned"} \/ SeenIdle(s) => ~IsBusy(s)

FlagInv ==
  /\ mpc = "open" => x = 0
  /\ cancel # {} => Down
  /\ \A s \in Slots : SlotInv(s)

Untouched(l) == outcome[l] = "none" /\ errors[l] = 0

Stage(s, l) ==
  /\ wpc[s] \in {"lock", "func"} => Untouched(l)
  /\ wpc[s] = "wait" =>
       /\ errors[l] = 0
       /\ process[pid[s]].line = l
       /\ process[pid[s]].state # "none"
       /\ process[pid[s]].state = "running" <=> outcome[l] = "none"
       /\ \A t \in Slots \ {s} : wpc[t] = "wait" => pid[t] # pid[s]
  /\ wpc[s] \in {"kill", "log", "clear"} => outcome[l] # "none"
  /\ wpc[s] \in {"kill", "log"} => errors[l] = 0
  /\ wpc[s] = "log" => Failed(outcome[l])

Handed == {l \in Lines : l <= HandedCount}

ReadInv ==
  /\ mpc \in {"open", "init"} => taken = 0
  /\ mpc \in {"exec", "tested"} => taken > 0
  /\ Finishing => taken = NLines

ItemInv(s) ==
  /\ item[s] \in Handed
  /\ Stage(s, item[s])
  /\ \A t \in Slots \ {s} : IsBusy(t) => item[t] # item[s]

HasOwner(p) == \E s \in Slots : wpc[s] = "wait" /\ pid[s] = p

LineInv ==
  /\ ReadInv
  /\ \A l \in Lines \ Handed : Untouched(l)
  /\ \A s \in Slots : IsBusy(s) => ItemInv(s)
  /\ \A p \in Pids : process[p].state # "none" => HasOwner(p)

IInv == LockInv /\ FlagInv /\ LineInv
-----------------------------------------------------------------------------
\* The kernel runs every thread.  Strong fairness, because of the mutexes: a
\* thread that is idle takes its mutex again and again, and a thread that
\* works keeps it as long as its program runs.  The mutex itself is not fair;
\* what is assumed is that an idle thread is preempted, sooner or later, while
\* it does not hold it.  Programs are assumed to end.
FairSpec ==
  /\ Spec
  /\ SF_vars(Main)
  /\ \A s \in Slots : SF_vars(Worker(s))
  /\ \A p \in Pids : WF_vars(ChildEnds(p))

\* If the programs end, so does the run: main never waits for ever for a
\* slot that nobody will give free.
Terminates == <>Over
=============================================================================
