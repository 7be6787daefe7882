--------------------------- MODULE WorkerPoolProps ---------------------------
(***************************************************************************)
(* What must hold of the worker program, and in what sense it implements   *)
(* JobRunner.                                                              *)
(***************************************************************************)
EXTENDS WorkerPool

\* Every variable keeps its type.
TypeOK ==
  /\ mpc \in MainPCs
  /\ x \in Slots
  /\ linenum \in 0 .. NLines
  /\ mbusy \in BOOLEAN
  /\ mflags \in FlagSets
  /\ wpc \in [Slots -> WorkerPCs]
  /\ wbusy \in [Slots -> BOOLEAN]
  /\ wdone \in [Slots -> BOOLEAN]
  /\ wflags \in [Slots -> FlagSets]
  /\ arg \in [Slots -> 0 .. NLines]
  /\ flags \in [Slots -> FlagSets]
  /\ mutex \in [Slots -> {"free", "main", "worker"}]
  /\ line \in [Slots -> 0 .. NLines]
  /\ serial \in [Slots -> 0 .. NLines]
  /\ cancel \subseteq Slots
  /\ child \in [Slots -> [state : {"none", "running"} \cup Outcomes,
                          line : 0 .. NLines, serial : 0 .. NLines]]
  /\ proc \in {"up", "exited"}
  /\ starts \in [Lines -> Nat]
  /\ outcome \in [Lines -> {"none"} \cup Outcomes]
  /\ logged \in [Lines -> Nat]
  /\ lost \subseteq 0 .. NLines

\* The lines main has handed over, i.e. for which set_busy(wp,1) is complete.
HandedCount ==
  IF mpc \in {"scan", "scanned", "copy", "number", "set", "setting"}
  THEN linenum - 1
  ELSE linenum

Handed == 1 .. HandedCount

\* A slot that owes work: the worker may read line and serial at any moment.
Owing(s) == "BUSY" \in flags[s]

-----------------------------------------------------------------------------
\* No line is given to the program twice, whatever the threads' timing: a slot
\* is busy from the hand-over until its own thread clears it.
RunAtMostOnce == \A l \in Lines : starts[l] <= 1

\* The program sees a matching pair of line and WORKER_SERIAL, although main
\* writes the two with no lock and the worker reads them at different times.
SerialMatchesLine ==
  \A s \in Slots : child[s].state # "none" => child[s].serial = child[s].line

\* main never writes the line or serial of a slot whose thread has work to do
\* or is doing it (the writes happen before set_busy, on an idle slot).
BusySlotIsStable ==
  [][\A s \in Slots :
       Owing(s) \/ wpc[s] \in {"exec", "fork", "wait", "log", "clear", "clearing"}
         => line'[s] = line[s] /\ serial'[s] = serial[s]]_vars

\* flags is a read-modify-write on both sides.  The mutex keeps main's DONE
\* from being lost and only the slot's own thread takes BUSY away.
FlagsAreNotLost ==
  [][\A s \in Slots :
       /\ "DONE" \in flags[s] => "DONE" \in flags'[s]
       /\ "BUSY" \in flags[s] /\ "BUSY" \notin flags'[s] => wpc[s] = "clearing"]_vars

\* The error file names a line at most once and only if its program failed;
\* once its slot is released, a failed line is there unless the error file
\* could not be opened.
ErrorFileIsExact ==
  \A l \in Lines :
    /\ logged[l] <= 1
    /\ logged[l] = 1 => outcome[l] = "failed"
    /\ /\ ErrorFile /\ outcome[l] = "failed" /\ l \in Handed
       /\ \A s \in Slots : Owing(s) => line[s] # l
       => logged[l] = 1 \/ l \in lost

\* The single scan of worker_finish is enough: when main starts to cancel
\* threads, all lines have been run to their end and no program is running.
FinishedMeansDone ==
  mpc \in {"cancel", "gone"} =>
    /\ linenum = NLines
    /\ \A l \in Lines : starts[l] = 1 /\ outcome[l] # "none"
    /\ \A s \in Slots : child[s].state = "none"

\* pthread_cancel only ever hits a thread that is asleep with nothing to do,
\* not one in waitpid or in the error file.
CancelHitsIdleOnly ==
  [][\A s \in Slots :
       wpc[s] # "cancelled" /\ wpc'[s] = "cancelled" => wpc[s] = "sleep"]_vars

\* What a step of one thread may never do to the other: change the line or
\* serial it works with, take its flag away, cancel it at work.
StepsAreSafe == BusySlotIsStable /\ FlagsAreNotLost /\ CancelHitsIdleOnly

-----------------------------------------------------------------------------
(* Refinement.                                                             *)

PhaseOf(l) ==
  IF l \notin Handed THEN "unread"
  ELSE IF starts[l] = 0 THEN "taken"
  ELSE IF outcome[l] = "none" THEN "running"
  ELSE IF \E s \in Slots : Owing(s) /\ line[s] = l THEN "ended"
  ELSE "closed"

Over ==
  IF proc = "exited" THEN "aborted"
  ELSE IF mpc \in {"cancel", "gone"} THEN "done"
  ELSE "no"

Jobs == INSTANCE JobRunner WITH
  phase <- [l \in Lines |-> PhaseOf(l)],
  result <- outcome,
  reported <- {l \in Lines : logged[l] > 0},
  over <- Over,
  Failures <- {"failed"}

\* worker implements JobRunner.
ImplementsJobRunner == Jobs!Spec
-----------------------------------------------------------------------------
(* Liveness.                                                               *)

\* The operating system runs every thread.  It is strong fairness because of
\* the busy_mutex: both sides hold it for a few instructions and sleep (1 s,
\* 100 us) between two attempts, so neither can keep the other out for ever.
\* Programs are assumed to end.
FairSpec ==
  /\ Spec
  /\ SF_vars(Main)
  /\ \A s \in Slots : SF_vars(Worker(s)) /\ WF_vars(ChildEnds(s))

\* If the programs end, so does worker: no thread waits for a wake-up or a DONE
\* that was lost (and FinishedMeansDone says that every line was run by then).
Terminates == <>Terminated

-----------------------------------------------------------------------------
(***************************************************************************)
(* The inductive invariant.  LockInv says who holds a mutex and that a     *)
(* flag word loaded under it is still the current one; FlagInv what BUSY   *)
(* and DONE mean for the two sides of a slot; LineInv how far the line of  *)
(* a busy slot has come, and that every other line is untouched or closed. *)
(***************************************************************************)

MainHolds(s)   == x = s /\ mpc \in {"scanned", "setting", "marking", "polled"}
WorkerHolds(s) == wpc[s] \in {"test", "clearing"}
Working(s)     == wpc[s] \in {"exec", "fork", "wait", "log", "clear", "clearing"}
Finishing      == mpc \in {"mark", "marking", "poll", "polled", "cancel", "gone"}

LockInv ==
  /\ \A s \in Slots :
       /\ mutex[s] = "main" <=> MainHolds(s)
       /\ mutex[s] = "worker" <=> WorkerHolds(s)
       /\ wpc[s] = "test" => wbusy[s] = Owing(s) /\ wdone[s] = ("DONE" \in flags[s])
       /\ wpc[s] = "clearing" => wflags[s] = flags[s]
  /\ mpc = "scanned" => mbusy = Owing(x)
  /\ mpc \in {"setting", "marking"} => mflags = flags[x]
  /\ mpc = "open" => x = 0
  /\ mpc \in {"open", "create"} => \A s \in Slots : s >= x => wpc[s] = "new"

FlagInv ==
  /\ \A s \in Slots :
       /\ Working(s) => Owing(s)
       /\ Owing(s) => wpc[s] \notin {"returned", "cancelled"}
       /\ "DONE" \in flags[s] => Finishing
       /\ wpc[s] = "returned" => "DONE" \in flags[s]
       /\ wpc[s] = "cancelled" => mpc \in {"cancel", "gone"}
  /\ mpc \in {"copy", "number", "set", "setting"} => ~Owing(x)
  /\ mpc \in {"scan", "scanned", "copy", "number", "set", "setting"} => linenum > 0
  /\ Finishing => linenum = NLines
  /\ mpc \in {"poll", "polled"} /\ ~mbusy => \A s \in 0 .. x - 1 : ~Owing(s)
  /\ mpc = "polled" /\ ~mbusy => ~Owing(x)
  /\ mpc \in {"cancel", "gone"} => \A s \in Slots : ~Owing(s)
  /\ cancel # {} => mpc \in {"cancel", "gone"}

Untouched(l) == starts[l] = 0 /\ outcome[l] = "none" /\ logged[l] = 0 /\ l \notin lost

Reported(l) ==
  /\ starts[l] = 1
  /\ outcome[l] \in Outcomes
  /\ logged[l] \in {0, 1}
  /\ logged[l] = 1 => outcome[l] = "failed"
  /\ ErrorFile /\ outcome[l] = "failed" => logged[l] = 1 \/ l \in lost

\* How far the line of a slot has come, from the slot's control point.
Stage(s) ==
  LET l == line[s] IN
  CASE wpc[s] = "fork" -> Untouched(l) /\ arg[s] = l
    [] wpc[s] = "wait" -> /\ starts[l] = 1 /\ logged[l] = 0 /\ l \notin lost
                          /\ child[s].line = l /\ child[s].serial = l
                          /\ \/ child[s].state = "running" /\ outcome[l] = "none"
                             \/ child[s].state \in Outcomes /\ outcome[l] = child[s].state
    [] wpc[s] = "log"  -> /\ starts[l] = 1 /\ logged[l] = 0 /\ l \notin lost
                          /\ outcome[l] = "failed" /\ outcome[l] \in Outcomes
    [] wpc[s] \in {"clear", "clearing"} -> Reported(l)
    [] OTHER -> Untouched(l)

LineInv ==
  /\ \A s \in Slots :
       /\ Owing(s) => line[s] \in Handed /\ serial[s] = line[s] /\ Stage(s)
       /\ wpc[s] # "wait" => child[s].state = "none"
  /\ \A s, t \in Slots : s # t /\ Owing(s) /\ Owing(t) => line[s] # line[t]
  /\ \A l \in Lines :
       /\ l \notin Handed => Untouched(l)
       /\ l \in Handed /\ (\A s \in Slots : Owing(s) => line[s] # l) => Reported(l)
  /\ mpc = "number" => line[x] = linenum
  /\ mpc \in {"set", "setting"} => line[x] = linenum /\ serial[x] = linenum

IInv == LockInv /\ FlagInv /\ LineInv
=============================================================================
