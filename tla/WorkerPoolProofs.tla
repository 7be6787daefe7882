--------------------------- MODULE WorkerPoolProofs ---------------------------
(***************************************************************************)
(* Theorems about the worker pool, for any number of threads and lines.    *)
(***************************************************************************)
EXTENDS WorkerPoolProps, FiniteSetTheorems, TLAPS

USE CountAssumption, NLinesAssumption, OptionAssumption, OutcomesAssumption
DEF Slots, Lines

-----------------------------------------------------------------------------
LEMMA TypeInit == Init => TypeOK
  <1> SUFFICES ASSUME Init PROVE TypeOK
    OBVIOUS
  <1> USE DEF Init
  <1>1. mpc \in MainPCs /\ x \in Slots /\ linenum \in 0 .. NLines
    BY DEF MainPCs
  <1>2. mbusy \in BOOLEAN /\ mflags \in FlagSets
    BY DEF FlagSets
  <1>3. wpc \in [Slots -> WorkerPCs] /\ arg \in [Slots -> 0 .. NLines]
    BY DEF WorkerPCs, NoLine
  <1>4. wbusy \in [Slots -> BOOLEAN] /\ wdone \in [Slots -> BOOLEAN]
    OBVIOUS
  <1>5. wflags \in [Slots -> FlagSets] /\ flags \in [Slots -> FlagSets]
    BY DEF FlagSets
  <1>6. mutex \in [Slots -> {"free", "main", "worker"}]
    OBVIOUS
  <1>7. line \in [Slots -> 0 .. NLines] /\ serial \in [Slots -> 0 .. NLines]
    BY DEF NoLine
  <1>8. child \in [Slots -> [state : {"none", "running"} \cup Outcomes,
                             line : 0 .. NLines, serial : 0 .. NLines]]
    <2>1. child = [s \in Slots |-> Idle]
      OBVIOUS
    <2>2. Idle \in [state : {"none", "running"} \cup Outcomes,
                   line : 0 .. NLines, serial : 0 .. NLines]
      BY DEF Idle, NoLine
    <2> QED
      BY ONLY <2>1, <2>2
  <1>9. cancel \subseteq Slots /\ proc \in {"up", "exited"}
    OBVIOUS
  <1>10. starts \in [Lines -> Nat] /\ logged \in [Lines -> Nat]
    OBVIOUS
  <1>11. outcome \in [Lines -> {"none"} \cup Outcomes] /\ lost \subseteq 0 .. NLines
    OBVIOUS
  <1> QED
    BY <1>1, <1>2, <1>3, <1>4, <1>5, <1>6, <1>7, <1>8, <1>9, <1>10, <1>11 DEF TypeOK

\* A loop over the slots stays within them.
LEMMA NextSlotStays ==
  ASSUME x \in Slots, NEW more, NEW after, NextSlot(more, after)
  PROVE  x' \in Slots /\ mpc' \in {more, after}
  BY DEF NextSlot

LEMMA TypeNext == TypeOK /\ [Next]_vars => TypeOK'
  <1> SUFFICES ASSUME TypeOK, [Next]_vars PROVE TypeOK'
    OBVIOUS
  <1> USE DEF mainVars, workerVars, slotVars, jobVars
  <1>1. CASE OpenInput
    BY <1>1 DEF TypeOK, OpenInput, MainPCs, WorkerPCs, FlagSets
  <1>2. CASE CreateWorker
    <2>1. mpc' \in MainPCs
      <3>1. mpc \in MainPCs
        BY DEF TypeOK
      <3>2. x \in Slots
        BY DEF TypeOK
      <3> QED
        BY <1>2, NextSlotStays, <3>1, <3>2 DEF CreateWorker, MainPCs
    <2>2. x' \in Slots
      <3>1. x \in Slots
        BY DEF TypeOK
      <3>2. x \in Slots
        BY DEF TypeOK
      <3> QED
        BY <1>2, NextSlotStays, <3>1, <3>2 DEF CreateWorker
    <2>3. wpc' \in [Slots -> WorkerPCs]
      <3>1. wpc \in [Slots -> WorkerPCs]
        BY DEF TypeOK
      <3> QED
        BY <1>2, <3>1 DEF CreateWorker, WorkerPCs
    <2> QED
      BY <1>2, <2>1, <2>2, <2>3 DEF TypeOK, CreateWorker
  <1>3. CASE ReadLine
    <2>1. mpc' \in MainPCs
      <3>1. mpc \in MainPCs
        BY DEF TypeOK
      <3> QED
        BY <1>3, <3>1 DEF ReadLine, MainPCs
    <2>2. x' \in Slots
      <3>1. x \in Slots
        BY DEF TypeOK
      <3> QED
        BY <1>3, <3>1 DEF ReadLine
    <2>3. linenum' \in 0 .. NLines
      <3>1. linenum \in 0 .. NLines
        BY DEF TypeOK
      <3> QED
        BY <1>3, <3>1 DEF ReadLine
    <2> QED
      BY <1>3, <2>1, <2>2, <2>3 DEF TypeOK, ReadLine
  <1>4. CASE GetBusy
    <2>1. mpc' \in MainPCs
      <3>1. mpc \in MainPCs
        BY DEF TypeOK
      <3> QED
        BY <1>4, <3>1 DEF GetBusy, Lock, MainPCs
    <2>2. mbusy' \in BOOLEAN
      <3>1. mbusy \in BOOLEAN
        BY DEF TypeOK
      <3> QED
        BY <1>4, <3>1 DEF GetBusy, Lock
    <2>3. mutex' \in [Slots -> {"free", "main", "worker"}]
      <3>1. mutex \in [Slots -> {"free", "main", "worker"}]
        BY DEF TypeOK
      <3> QED
        BY <1>4, <3>1 DEF GetBusy, Lock
    <2> QED
      BY <1>4, <2>1, <2>2, <2>3 DEF TypeOK, GetBusy
  <1>5. CASE PickIdle
    <2>1. mpc' \in MainPCs
      <3>1. mpc \in MainPCs
        BY DEF TypeOK
      <3>2. x \in Slots
        BY DEF TypeOK
      <3> QED
        BY <1>5, NextSlotStays, <3>1, <3>2 DEF PickIdle, Unlock, MainPCs
    <2>2. x' \in Slots
      <3>1. x \in Slots
        BY DEF TypeOK
      <3>2. x \in Slots
        BY DEF TypeOK
      <3> QED
        BY <1>5, NextSlotStays, <3>1, <3>2 DEF PickIdle, Unlock
    <2>3. mutex' \in [Slots -> {"free", "main", "worker"}]
      <3>1. mutex \in [Slots -> {"free", "main", "worker"}]
        BY DEF TypeOK
      <3> QED
        BY <1>5, <3>1 DEF PickIdle, Unlock
    <2> QED
      BY <1>5, <2>1, <2>2, <2>3 DEF TypeOK, PickIdle
  <1>6. CASE CopyLine
    BY <1>6 DEF TypeOK, CopyLine, MainPCs, WorkerPCs, FlagSets
  <1>7. CASE SetSerial
    BY <1>7 DEF TypeOK, SetSerial, MainPCs, WorkerPCs, FlagSets
  <1>8. CASE SetBusyLoad
    BY <1>8 DEF TypeOK, SetBusyLoad, Lock, MainPCs, WorkerPCs, FlagSets
  <1>9. CASE SetBusyStore
    BY <1>9 DEF TypeOK, SetBusyStore, Unlock, MainPCs, WorkerPCs, FlagSets
  <1>10. CASE MarkDoneLoad
    BY <1>10 DEF TypeOK, MarkDoneLoad, Lock, MainPCs, WorkerPCs, FlagSets
  <1>11. CASE MarkDoneStore
    <2>1. mpc' \in MainPCs
      <3>1. mpc \in MainPCs
        BY DEF TypeOK
      <3>2. x \in Slots
        BY DEF TypeOK
      <3> QED
        BY <1>11, NextSlotStays, <3>1, <3>2 DEF MarkDoneStore, Unlock, MainPCs
    <2>2. x' \in Slots
      <3>1. x \in Slots
        BY DEF TypeOK
      <3>2. x \in Slots
        BY DEF TypeOK
      <3> QED
        BY <1>11, NextSlotStays, <3>1, <3>2 DEF MarkDoneStore, Unlock
    <2>3. mbusy' \in BOOLEAN
      <3>1. mbusy \in BOOLEAN
        BY DEF TypeOK
      <3> QED
        BY <1>11, <3>1 DEF MarkDoneStore, Unlock
    <2>4. mutex' \in [Slots -> {"free", "main", "worker"}]
      <3>1. mutex \in [Slots -> {"free", "main", "worker"}]
        BY DEF TypeOK
      <3> QED
        BY <1>11, <3>1 DEF MarkDoneStore, Unlock
    <2>5. flags' \in [Slots -> FlagSets]
      <3>1. flags \in [Slots -> FlagSets]
        BY DEF TypeOK
      <3>2. mflags \in FlagSets
        BY DEF TypeOK
      <3>3. mflags \cup {"DONE"} \in FlagSets
        BY <3>2 DEF FlagSets
      <3> QED
        BY <1>11, <3>1, <3>3 DEF MarkDoneStore
    <2> QED
      BY <1>11, <2>1, <2>2, <2>3, <2>4, <2>5 DEF TypeOK, MarkDoneStore
  <1>12. CASE PollBusy
    BY <1>12 DEF TypeOK, PollBusy, Lock, MainPCs, WorkerPCs, FlagSets
  <1>13. CASE PollNext
    <2>1. mpc' \in MainPCs
      <3>1. mpc \in MainPCs
        BY DEF TypeOK
      <3>2. x \in Slots
        BY DEF TypeOK
      <3> QED
        BY <1>13, NextSlotStays, <3>1, <3>2 DEF PollNext, Unlock, MainPCs
    <2>2. x' \in Slots
      <3>1. x \in Slots
        BY DEF TypeOK
      <3>2. x \in Slots
        BY DEF TypeOK
      <3> QED
        BY <1>13, NextSlotStays, <3>1, <3>2 DEF PollNext, Unlock
    <2>3. mbusy' \in BOOLEAN
      <3>1. mbusy \in BOOLEAN
        BY DEF TypeOK
      <3> QED
        BY <1>13, <3>1 DEF PollNext, Unlock
    <2>4. mutex' \in [Slots -> {"free", "main", "worker"}]
      <3>1. mutex \in [Slots -> {"free", "main", "worker"}]
        BY DEF TypeOK
      <3> QED
        BY <1>13, <3>1 DEF PollNext, Unlock
    <2> QED
      BY <1>13, <2>1, <2>2, <2>3, <2>4 DEF TypeOK, PollNext
  <1>14. CASE CancelWorker
    <2>1. mpc' \in MainPCs
      <3>1. mpc \in MainPCs
        BY DEF TypeOK
      <3>2. x \in Slots
        BY DEF TypeOK
      <3> QED
        BY <1>14, NextSlotStays, <3>1, <3>2 DEF CancelWorker, MainPCs
    <2>2. x' \in Slots
      <3>1. x \in Slots
        BY DEF TypeOK
      <3>2. x \in Slots
        BY DEF TypeOK
      <3> QED
        BY <1>14, NextSlotStays, <3>1, <3>2 DEF CancelWorker
    <2> QED
      BY <1>14, <2>1, <2>2 DEF TypeOK, CancelWorker
  <1>15. ASSUME NEW s \in Slots, ReadFlags(s) PROVE TypeOK'
    <2>1. wpc' \in [Slots -> WorkerPCs]
      <3>1. wpc \in [Slots -> WorkerPCs]
        BY DEF TypeOK
      <3> QED
        BY <1>15, <3>1 DEF ReadFlags, Lock, WorkerPCs
    <2>2. wbusy' \in [Slots -> BOOLEAN]
      <3>1. wbusy \in [Slots -> BOOLEAN]
        BY DEF TypeOK
      <3> QED
        BY <1>15, <3>1 DEF ReadFlags, Lock
    <2>3. wdone' \in [Slots -> BOOLEAN]
      <3>1. wdone \in [Slots -> BOOLEAN]
        BY DEF TypeOK
      <3> QED
        BY <1>15, <3>1 DEF ReadFlags, Lock
    <2>4. mutex' \in [Slots -> {"free", "main", "worker"}]
      <3>1. mutex \in [Slots -> {"free", "main", "worker"}]
        BY DEF TypeOK
      <3> QED
        BY <1>15, <3>1 DEF ReadFlags, Lock
    <2> QED
      BY <1>15, <2>1, <2>2, <2>3, <2>4 DEF TypeOK, ReadFlags
  <1>16. ASSUME NEW s \in Slots, TestFlags(s) PROVE TypeOK'
    BY <1>16 DEF TypeOK, TestFlags, Unlock, MainPCs, WorkerPCs, FlagSets
  <1>17. ASSUME NEW s \in Slots, Wake(s) PROVE TypeOK'
    BY <1>17 DEF TypeOK, Wake, MainPCs, WorkerPCs, FlagSets
  <1>18. ASSUME NEW s \in Slots, BuildArgv(s) PROVE TypeOK'
    BY <1>18 DEF TypeOK, BuildArgv, MainPCs, WorkerPCs, FlagSets
  <1>19. ASSUME NEW s \in Slots, Fork(s) PROVE TypeOK'
    <2>1. wpc' \in [Slots -> WorkerPCs]
      <3>1. wpc \in [Slots -> WorkerPCs]
        BY DEF TypeOK
      <3> QED
        BY <1>19, <3>1 DEF Fork, WorkerPCs
    <2>2. child' \in [Slots -> [state : {"none", "running"} \cup Outcomes,
                               line : 0 .. NLines, serial : 0 .. NLines]]
      <3>1. child \in [Slots -> [state : {"none", "running"} \cup Outcomes,
                               line : 0 .. NLines, serial : 0 .. NLines]]
        BY DEF TypeOK
      <3>2. arg[s] \in 0 .. NLines /\ serial[s] \in 0 .. NLines
        BY DEF TypeOK
      <3>3. [state |-> "running", line |-> arg[s], serial |-> serial[s]]
              \in [state : {"none", "running"} \cup Outcomes, line : 0 .. NLines, serial : 0 .. NLines]
        BY <3>2
      <3> QED
        BY ONLY <1>19, <3>1, <3>3 DEF Fork
    <2>3. starts' \in [Lines -> Nat]
      <3>1. starts \in [Lines -> Nat]
        BY DEF TypeOK
      <3> QED
        BY <1>19, <3>1 DEF Fork
    <2>4. proc' \in {"up", "exited"}
      <3>1. proc \in {"up", "exited"}
        BY DEF TypeOK
      <3> QED
        BY <1>19, <3>1 DEF Fork
    <2> QED
      BY <1>19, <2>1, <2>2, <2>3, <2>4 DEF TypeOK, Fork
  <1>20. ASSUME NEW s \in Slots, WaitChild(s) PROVE TypeOK'
    <2>1. wpc' \in [Slots -> WorkerPCs]
      <3>1. wpc \in [Slots -> WorkerPCs]
        BY DEF TypeOK
      <3> QED
        BY <1>20, <3>1 DEF WaitChild, Idle, NoLine, WorkerPCs
    <2>2. child' \in [Slots -> [state : {"none", "running"} \cup Outcomes,
                               line : 0 .. NLines, serial : 0 .. NLines]]
      <3>1. child \in [Slots -> [state : {"none", "running"} \cup Outcomes,
                               line : 0 .. NLines, serial : 0 .. NLines]]
        BY DEF TypeOK
      <3> QED
        BY <1>20, <3>1 DEF WaitChild, Idle, NoLine
    <2> QED
      BY <1>20, <2>1, <2>2 DEF TypeOK, WaitChild
  <1>21. ASSUME NEW s \in Slots, LogError(s) PROVE TypeOK'
    <2>1. wpc' \in [Slots -> WorkerPCs]
      <3>1. wpc \in [Slots -> WorkerPCs]
        BY DEF TypeOK
      <3> QED
        BY <1>21, <3>1 DEF LogError, WorkerPCs
    <2>2. logged' \in [Lines -> Nat]
      <3>1. logged \in [Lines -> Nat]
        BY DEF TypeOK
      <3> QED
        BY <1>21, <3>1 DEF LogError
    <2>3. lost' \subseteq 0 .. NLines
      <3>1. lost \subseteq 0 .. NLines /\ line[s] \in 0 .. NLines
        BY DEF TypeOK
      <3> QED
        BY <1>21, <3>1 DEF LogError
    <2> QED
      BY <1>21, <2>1, <2>2, <2>3 DEF TypeOK, LogError
  <1>22. ASSUME NEW s \in Slots, ClearBusyLoad(s) PROVE TypeOK'
    BY <1>22 DEF TypeOK, ClearBusyLoad, Lock, MainPCs, WorkerPCs, FlagSets
  <1>23. ASSUME NEW s \in Slots, ClearBusyStore(s) PROVE TypeOK'
    BY <1>23 DEF TypeOK, ClearBusyStore, Unlock, MainPCs, WorkerPCs, FlagSets
  <1>24. ASSUME NEW s \in Slots, Cancelled(s) PROVE TypeOK'
    BY <1>24 DEF TypeOK, Cancelled, MainPCs, WorkerPCs, FlagSets
  <1>25. ASSUME NEW s \in Slots, ChildEnds(s) PROVE TypeOK'
    <2>1. child' \in [Slots -> [state : {"none", "running"} \cup Outcomes,
                               line : 0 .. NLines, serial : 0 .. NLines]]
      <3>1. child \in [Slots -> [state : {"none", "running"} \cup Outcomes,
                               line : 0 .. NLines, serial : 0 .. NLines]]
        BY DEF TypeOK
      <3> QED
        BY <1>25, <3>1 DEF ChildEnds
    <2>2. outcome' \in [Lines -> {"none"} \cup Outcomes]
      <3>1. outcome \in [Lines -> {"none"} \cup Outcomes]
        BY DEF TypeOK
      <3> QED
        BY <1>25, <3>1 DEF ChildEnds
    <2> QED
      BY <1>25, <2>1, <2>2 DEF TypeOK, ChildEnds
  <1>26. CASE UNCHANGED vars
    BY <1>26 DEF TypeOK, vars
  <1> QED
    BY <1>1, <1>2, <1>3, <1>4, <1>5, <1>6, <1>7, <1>8, <1>9, <1>10, <1>11, <1>12, <1>13, <1>14, <1>15, <1>16, <1>17, <1>18, <1>19, <1>20, <1>21, <1>22, <1>23, <1>24, <1>25, <1>26 DEF Next, Main, Worker

\* Every variable keeps its type.
THEOREM TypeCorrect == Spec => []TypeOK
  <1>1. QED
    BY TypeInit, TypeNext, PTL DEF Spec
-----------------------------------------------------------------------------
(* Locks and loaded flag words.                                            *)

LEMMA LockInit == Init => LockInv
  BY DEF Init, LockInv, MainHolds, WorkerHolds

LEMMA LockNext == TypeOK /\ LockInv /\ [Next]_vars => LockInv'
  <1> SUFFICES ASSUME TypeOK, LockInv, [Next]_vars PROVE LockInv'
    OBVIOUS
  <1>t. /\ x \in Slots /\ wpc \in [Slots -> WorkerPCs] /\ flags \in [Slots -> FlagSets]
        /\ mutex \in [Slots -> {"free", "main", "worker"}] /\ wflags \in [Slots -> FlagSets]
        /\ wbusy \in [Slots -> BOOLEAN] /\ wdone \in [Slots -> BOOLEAN]
    BY DEF TypeOK
  <1> USE DEF LockInv, MainHolds, WorkerHolds, Owing, mainVars, workerVars, slotVars, jobVars
  <1>1. CASE OpenInput
    BY <1>1, <1>t DEF OpenInput
  <1>2. CASE CreateWorker
    <2>1. x \in Int /\ Count \in Int
      BY <1>t
    <2>2. wpc[x] = "new"
      BY <1>2, <1>t, <2>1 DEF CreateWorker
    <2>3. mpc' = "create" => \A s \in Slots : s >= x' => wpc'[s] = "new"
      BY <1>2, <1>t, <2>1 DEF CreateWorker, NextSlot
    <2>4. mpc' \in {"create", "fgets"}
      BY <1>2 DEF CreateWorker, NextSlot
    <2>5. \A s \in Slots : wpc'[s] # wpc[s] => wpc[s] = "new" /\ wpc'[s] = "lock"
      BY <1>2, <1>t, <2>2 DEF CreateWorker
    <2>6. UNCHANGED <<slotVars, wbusy, wdone, wflags>>
      BY <1>2 DEF CreateWorker
    <2> QED
      BY <1>2, <2>3, <2>4, <2>5, <2>6, <1>t DEF CreateWorker
  <1>3. CASE ReadLine
    BY <1>3, <1>t DEF ReadLine
  <1>4. CASE GetBusy
    BY <1>4, <1>t DEF GetBusy, Lock
  <1>5. CASE PickIdle
    BY <1>5, <1>t DEF PickIdle, NextSlot, Unlock
  <1>6. CASE CopyLine
    BY <1>6, <1>t DEF CopyLine
  <1>7. CASE SetSerial
    BY <1>7, <1>t DEF SetSerial
  <1>8. CASE SetBusyLoad
    BY <1>8, <1>t DEF SetBusyLoad, Lock
  <1>9. CASE SetBusyStore
    BY <1>9, <1>t DEF SetBusyStore, Unlock
  <1>10. CASE MarkDoneLoad
    BY <1>10, <1>t DEF MarkDoneLoad, Lock
  <1>11. CASE MarkDoneStore
    BY <1>11, <1>t DEF MarkDoneStore, NextSlot, Unlock
  <1>12. CASE PollBusy
    BY <1>12, <1>t DEF PollBusy, Lock
  <1>13. CASE PollNext
    BY <1>13, <1>t DEF PollNext, NextSlot, Unlock
  <1>14. CASE CancelWorker
    BY <1>14, <1>t DEF CancelWorker, NextSlot
  <1>15. ASSUME NEW w \in Slots, ReadFlags(w) PROVE LockInv'
    BY <1>15, <1>t DEF ReadFlags, Lock
  <1>16. ASSUME NEW w \in Slots, TestFlags(w) PROVE LockInv'
    BY <1>16, <1>t DEF TestFlags, Unlock
  <1>17. ASSUME NEW w \in Slots, Wake(w) PROVE LockInv'
    BY <1>17, <1>t DEF Wake
  <1>18. ASSUME NEW w \in Slots, BuildArgv(w) PROVE LockInv'
    BY <1>18, <1>t DEF BuildArgv
  <1>19. ASSUME NEW w \in Slots, Fork(w) PROVE LockInv'
    BY <1>19, <1>t DEF Fork
  <1>20. ASSUME NEW w \in Slots, WaitChild(w) PROVE LockInv'
    BY <1>20, <1>t DEF WaitChild, Idle, NoLine
  <1>21. ASSUME NEW w \in Slots, LogError(w) PROVE LockInv'
    BY <1>21, <1>t DEF LogError
  <1>22. ASSUME NEW w \in Slots, ClearBusyLoad(w) PROVE LockInv'
    BY <1>22, <1>t DEF ClearBusyLoad, Lock
  <1>23. ASSUME NEW w \in Slots, ClearBusyStore(w) PROVE LockInv'
    BY <1>23, <1>t DEF ClearBusyStore, Unlock
  <1>24. ASSUME NEW w \in Slots, Cancelled(w) PROVE LockInv'
    BY <1>24, <1>t DEF Cancelled
  <1>25. ASSUME NEW w \in Slots, ChildEnds(w) PROVE LockInv'
    BY <1>25, <1>t DEF ChildEnds
  <1>26. CASE UNCHANGED vars
    BY <1>26 DEF vars
  <1> QED
    BY <1>1, <1>2, <1>3, <1>4, <1>5, <1>6, <1>7, <1>8, <1>9,
       <1>10, <1>11, <1>12, <1>13, <1>14, <1>15, <1>16, <1>17, <1>18,
       <1>19, <1>20, <1>21, <1>22, <1>23, <1>24, <1>25, <1>26
       DEF Next, Main, Worker

-----------------------------------------------------------------------------
(* What BUSY and DONE mean.                                                *)

LEMMA FlagInit == Init => FlagInv
  BY DEF Init, FlagInv, Working, Finishing, Owing

LEMMA FlagNext == TypeOK /\ LockInv /\ FlagInv /\ [Next]_vars => FlagInv'
  <1> SUFFICES ASSUME TypeOK, LockInv, FlagInv, [Next]_vars PROVE FlagInv'
    OBVIOUS
  <1>t. /\ x \in Slots /\ wpc \in [Slots -> WorkerPCs] /\ flags \in [Slots -> FlagSets]
        /\ mutex \in [Slots -> {"free", "main", "worker"}] /\ wflags \in [Slots -> FlagSets]
        /\ linenum \in 0 .. NLines /\ cancel \subseteq Slots
    BY DEF TypeOK
  <1> USE DEF LockInv, FlagInv, MainHolds, WorkerHolds, Working, Finishing, Owing,
          mainVars, workerVars, slotVars, jobVars
  <1>1. CASE OpenInput
    BY <1>1, <1>t DEF OpenInput
  <1>2. CASE CreateWorker
    BY <1>2, <1>t DEF CreateWorker, NextSlot
  <1>3. CASE ReadLine
    BY <1>3, <1>t DEF ReadLine
  <1>4. CASE GetBusy
    BY <1>4, <1>t DEF GetBusy, Lock
  <1>5. CASE PickIdle
    BY <1>5, <1>t DEF PickIdle, NextSlot, Unlock
  <1>6. CASE CopyLine
    BY <1>6, <1>t DEF CopyLine
  <1>7. CASE SetSerial
    BY <1>7, <1>t DEF SetSerial
  <1>8. CASE SetBusyLoad
    BY <1>8, <1>t DEF SetBusyLoad, Lock
  <1>9. CASE SetBusyStore
    BY <1>9, <1>t DEF SetBusyStore, Unlock
  <1>10. CASE MarkDoneLoad
    BY <1>10, <1>t DEF MarkDoneLoad, Lock
  <1>11. CASE MarkDoneStore
    BY <1>11, <1>t DEF MarkDoneStore, NextSlot, Unlock
  <1>12. CASE PollBusy
    BY <1>12, <1>t DEF PollBusy, Lock
  <1>13. CASE PollNext
    <2>1. x \in Int /\ Count \in Int
      BY <1>t
    <2>2. ~mbusy => \A s \in 0 .. x : ~Owing(s)
      BY <1>13, <2>1, <1>t DEF PollNext
    <2>3. CASE x + 1 < Count
      <3>1. x' = x + 1 /\ mpc' = "poll" /\ (~mbusy' => ~mbusy)
        <4>1. NextSlot("poll", IF mbusy THEN "poll" ELSE "cancel")
          BY <1>13 DEF PollNext
        <4>2. mbusy' = (mbusy /\ x + 1 < Count)
          BY <1>13 DEF PollNext
        <4>3. ~mbusy' => ~mbusy
          BY ONLY <4>2, <2>3
        <4> QED
          BY ONLY <4>1, <4>3, <2>1, <2>3 DEF NextSlot
      <3> QED
        BY <1>13, <2>1, <2>2, <3>1, <1>t DEF PollNext
    <2>4. CASE x + 1 >= Count
      <3>1. x' = 0 /\ mpc' = IF mbusy THEN "poll" ELSE "cancel"
        <4>1. NextSlot("poll", IF mbusy THEN "poll" ELSE "cancel")
          BY <1>13 DEF PollNext
        <4> QED
          BY ONLY <4>1, <2>1, <2>4 DEF NextSlot
      <3>2. ~mbusy => \A s \in Slots : ~Owing(s)
        BY <2>1, <2>2, <2>4
      <3> QED
        BY <1>13, <2>1, <3>1, <3>2, <1>t DEF PollNext
    <2> QED
      BY <2>1, <2>3, <2>4
  <1>14. CASE CancelWorker
    BY <1>14, <1>t DEF CancelWorker, NextSlot
  <1>15. ASSUME NEW w \in Slots, ReadFlags(w) PROVE FlagInv'
    BY <1>15, <1>t DEF ReadFlags, Lock
  <1>16. ASSUME NEW w \in Slots, TestFlags(w) PROVE FlagInv'
    <2>1. (wbusy[w] <=> "BUSY" \in flags[w]) /\ (wdone[w] <=> "DONE" \in flags[w])
      BY <1>16 DEF TestFlags
    <2>2. wpc' = [wpc EXCEPT ![w] = IF wbusy[w] THEN "exec"
                                   ELSE IF wdone[w] THEN "returned" ELSE "sleep"]
      BY <1>16 DEF TestFlags
    <2> QED
      BY <1>16, <2>1, <2>2, <1>t DEF TestFlags
  <1>17. ASSUME NEW w \in Slots, Wake(w) PROVE FlagInv'
    BY <1>17, <1>t DEF Wake
  <1>18. ASSUME NEW w \in Slots, BuildArgv(w) PROVE FlagInv'
    BY <1>18, <1>t DEF BuildArgv
  <1>19. ASSUME NEW w \in Slots, Fork(w) PROVE FlagInv'
    BY <1>19, <1>t DEF Fork
  <1>20. ASSUME NEW w \in Slots, WaitChild(w) PROVE FlagInv'
    BY <1>20, <1>t DEF WaitChild, Idle, NoLine
  <1>21. ASSUME NEW w \in Slots, LogError(w) PROVE FlagInv'
    BY <1>21, <1>t DEF LogError
  <1>22. ASSUME NEW w \in Slots, ClearBusyLoad(w) PROVE FlagInv'
    BY <1>22, <1>t DEF ClearBusyLoad, Lock
  <1>23. ASSUME NEW w \in Slots, ClearBusyStore(w) PROVE FlagInv'
    BY <1>23, <1>t DEF ClearBusyStore, Unlock
  <1>24. ASSUME NEW w \in Slots, Cancelled(w) PROVE FlagInv'
    BY <1>24, <1>t DEF Cancelled
  <1>25. ASSUME NEW w \in Slots, ChildEnds(w) PROVE FlagInv'
    BY <1>25, <1>t DEF ChildEnds
  <1>26. CASE UNCHANGED vars
    BY <1>26 DEF vars
  <1> QED
    BY <1>1, <1>2, <1>3, <1>4, <1>5, <1>6, <1>7, <1>8, <1>9,
       <1>10, <1>11, <1>12, <1>13, <1>14, <1>15, <1>16, <1>17, <1>18,
       <1>19, <1>20, <1>21, <1>22, <1>23, <1>24, <1>25, <1>26
       DEF Next, Main, Worker

-----------------------------------------------------------------------------
(* Where every line is.                                                    *)

LEMMA LineInit == Init => LineInv
  BY DEF Init, LineInv, Owing, Handed, HandedCount, Untouched, Idle

LEMMA HandedAreLines ==
  ASSUME linenum \in 0 .. NLines
  PROVE  Handed \subseteq Lines
  BY DEF Handed, HandedCount

\* A step of one worker on the line of its own busy slot disturbs no other
\* slot and no other line.
LEMMA StageMoves ==
  ASSUME NEW w \in Slots, LineInv, Owing(w),
         linenum \in 0 .. NLines, UNCHANGED <<mpc, x, linenum, flags, line, serial>>,
         \A s \in Slots \ {w} : wpc'[s] = wpc[s] /\ child'[s] = child[s] /\ arg'[s] = arg[s],
         \A k \in Lines \ {line[w]} :
           /\ starts'[k] = starts[k] /\ outcome'[k] = outcome[k] /\ logged'[k] = logged[k]
           /\ k \in lost' <=> k \in lost,
         Stage(w)',
         wpc'[w] # "wait" => child'[w].state = "none"
  PROVE  LineInv'
  <1>1. Handed' = Handed /\ Handed \subseteq Int /\ (\A s \in Slots : Owing(s)' <=> Owing(s))
    BY DEF Handed, HandedCount, Owing
  <1>2. \A s \in Slots \ {w} : Owing(s) => line[s] \in Handed /\ line[s] # line[w]
    BY DEF LineInv
  <1>3. ASSUME NEW s \in Slots, s # w, Owing(s) PROVE Stage(s)'
    <2>1. Stage(s) /\ line[s] # line[w] /\ line'[s] = line[s]
      BY <1>2, <1>3 DEF LineInv
    <2>2. line[s] \in Lines
      BY <1>2, <1>3, HandedAreLines
    <2>3. wpc'[s] = wpc[s] /\ child'[s] = child[s] /\ arg'[s] = arg[s]
      BY <1>3
    <2>4. /\ starts'[line[s]] = starts[line[s]] /\ outcome'[line[s]] = outcome[line[s]]
          /\ logged'[line[s]] = logged[line[s]] /\ (line[s] \in lost' <=> line[s] \in lost)
      BY <2>1, <2>2
    <2> QED
      BY <2>1, <2>3, <2>4 DEF Stage, Untouched, Reported
  <1>4. ASSUME NEW k \in Lines, k # line[w]
        PROVE (Untouched(k)' <=> Untouched(k)) /\ (Reported(k)' <=> Reported(k))
    BY <1>4 DEF Untouched, Reported
  <1>5. line[w] \in Handed
    BY DEF LineInv
  <1>6. \A s \in Slots : /\ Owing(s)' => line'[s] \in Handed' /\ serial'[s] = line'[s] /\ Stage(s)'
                         /\ wpc'[s] # "wait" => child'[s].state = "none"
    BY <1>1, <1>3 DEF LineInv
  <1>7. \A s, t \in Slots : s # t /\ Owing(s)' /\ Owing(t)' => line'[s] # line'[t]
    BY <1>1 DEF LineInv
  <1>8. ASSUME NEW k \in Lines
        PROVE /\ k \notin Handed' => Untouched(k)'
              /\ k \in Handed' /\ (\A s \in Slots : Owing(s)' => line'[s] # k) => Reported(k)'
    <2>1. CASE k = line[w]
      BY <1>1, <1>5, <2>1
    <2>2. CASE k # line[w]
      BY <1>1, <1>4, <2>2 DEF LineInv
    <2> QED
      BY <2>1, <2>2
  <1>9. /\ mpc' = "number" => line'[x'] = linenum'
        /\ mpc' \in {"set", "setting"} => line'[x'] = linenum' /\ serial'[x'] = linenum'
    BY DEF LineInv
  <1> QED
    BY <1>6, <1>7, <1>8, <1>9 DEF LineInv

LEMMA BuildArgvKeepsLines ==
  ASSUME TypeOK, FlagInv, LineInv, NEW w \in Slots, BuildArgv(w)
  PROVE  LineInv'
  <1> DEFINE l == line[w]
  <1>t. /\ linenum \in 0 .. NLines /\ wpc \in [Slots -> WorkerPCs] /\ arg \in [Slots -> 0 .. NLines]
        /\ child \in [Slots -> [state : {"none", "running"} \cup Outcomes,
                               line : 0 .. NLines, serial : 0 .. NLines]]
        /\ starts \in [Lines -> Nat] /\ outcome \in [Lines -> {"none"} \cup Outcomes]
        /\ logged \in [Lines -> Nat]
    BY DEF TypeOK
  <1>1. Owing(w) /\ wpc[w] = "exec"
    BY DEF FlagInv, Working, BuildArgv
  <1>2. Stage(w) /\ l \in Lines /\ child[w].state = "none"
    BY <1>1, <1>t, HandedAreLines DEF LineInv
  <1>3. Untouched(l)
    BY <1>1, <1>2 DEF Stage
  <1>4. UNCHANGED <<mpc, x, linenum, flags, line, serial, child, starts, outcome, logged, lost>>
    BY DEF BuildArgv, mainVars, slotVars, jobVars
  <1>5. wpc'[w] = "fork" /\ arg'[w] = l /\ child'[w] = child[w]
    BY <1>t, <1>4 DEF BuildArgv
  <1>6. Stage(w)'
    BY <1>3, <1>4, <1>5 DEF Stage, Untouched
  <1>7. \A s \in Slots \ {w} : wpc'[s] = wpc[s] /\ child'[s] = child[s] /\ arg'[s] = arg[s]
    BY <1>t, <1>4 DEF BuildArgv
  <1> QED
    BY <1>1, <1>2, <1>4, <1>5, <1>6, <1>7, <1>t, StageMoves
LEMMA ForkKeepsLines ==
  ASSUME TypeOK, FlagInv, LineInv, NEW w \in Slots, Fork(w)
  PROVE  LineInv'
  <1> DEFINE l == line[w]
  <1>t. /\ linenum \in 0 .. NLines /\ wpc \in [Slots -> WorkerPCs] /\ arg \in [Slots -> 0 .. NLines]
        /\ child \in [Slots -> [state : {"none", "running"} \cup Outcomes,
                               line : 0 .. NLines, serial : 0 .. NLines]]
        /\ starts \in [Lines -> Nat] /\ outcome \in [Lines -> {"none"} \cup Outcomes]
        /\ logged \in [Lines -> Nat]
    BY DEF TypeOK
  <1>1. Owing(w) /\ wpc[w] = "fork"
    BY DEF FlagInv, Working, Fork
  <1>2. Stage(w) /\ l \in Lines /\ child[w].state = "none"
    BY <1>1, <1>t, HandedAreLines DEF LineInv
  <1>3. Untouched(l) /\ arg[w] = l /\ serial[w] = l
    BY <1>1, <1>2 DEF Stage, LineInv
  <1>4. UNCHANGED <<mpc, x, linenum, flags, line, serial, arg, outcome, logged, lost>>
    BY DEF Fork, mainVars, slotVars
  <1>5. CASE UNCHANGED <<child, starts, wpc>>
    BY <1>4, <1>5 DEF LineInv, Stage, Untouched, Reported, Owing, Handed, HandedCount
  <1>6. CASE /\ child' = [child EXCEPT ![w] =
                       [state |-> "running", line |-> arg[w], serial |-> serial[w]]]
             /\ starts' = [starts EXCEPT ![arg[w]] = @ + 1]
             /\ wpc' = [wpc EXCEPT ![w] = "wait"]
    <2>1. /\ wpc'[w] = "wait"
          /\ child'[w] = [state |-> "running", line |-> l, serial |-> l]
          /\ starts'[l] = 1
      BY <1>2, <1>3, <1>6, <1>t DEF Untouched
    <2>2. Stage(w)'
      BY <1>3, <1>4, <2>1 DEF Stage, Untouched
    <2>3. \A s \in Slots \ {w} : wpc'[s] = wpc[s] /\ child'[s] = child[s] /\ arg'[s] = arg[s]
      BY <1>4, <1>6, <1>t
    <2>4. \A k \in Lines \ {l} : starts'[k] = starts[k]
      BY <1>3, <1>6, <1>t
    <2> QED
      BY <1>1, <1>4, <2>1, <2>2, <2>3, <2>4, <1>t, StageMoves
  <1> QED
    BY <1>5, <1>6 DEF Fork
LEMMA WaitChildKeepsLines ==
  ASSUME TypeOK, FlagInv, LineInv, NEW w \in Slots, WaitChild(w)
  PROVE  LineInv'
  <1> DEFINE l == line[w]
  <1>t. /\ linenum \in 0 .. NLines /\ wpc \in [Slots -> WorkerPCs] /\ arg \in [Slots -> 0 .. NLines]
        /\ child \in [Slots -> [state : {"none", "running"} \cup Outcomes,
                               line : 0 .. NLines, serial : 0 .. NLines]]
        /\ starts \in [Lines -> Nat] /\ outcome \in [Lines -> {"none"} \cup Outcomes]
        /\ logged \in [Lines -> Nat]
    BY DEF TypeOK
  <1>1. Owing(w) /\ wpc[w] = "wait" /\ child[w].state \in Outcomes
    BY DEF FlagInv, Working, WaitChild
  <1>2. Stage(w) /\ l \in Lines
    BY <1>1, <1>t, HandedAreLines DEF LineInv
  <1>3. starts[l] = 1 /\ logged[l] = 0 /\ l \notin lost /\ outcome[l] = child[w].state
    BY <1>1, <1>2 DEF Stage
  <1>4. UNCHANGED <<mpc, x, linenum, flags, line, serial, arg, starts, outcome, logged, lost>>
    BY DEF WaitChild, mainVars, slotVars, jobVars
  <1>5. /\ child'[w].state = "none"
        /\ wpc'[w] = IF ExitStatus(child[w].state) # 0 /\ ErrorFile THEN "log" ELSE "clear"
    BY <1>t DEF WaitChild, Idle
  <1>6. Stage(w)'
    <2>1. CASE ErrorFile /\ outcome[l] = "failed"
      BY <1>1, <1>3, <1>4, <1>5, <2>1 DEF Stage, ExitStatus
    <2>2. CASE ~(ErrorFile /\ outcome[l] = "failed")
      BY <1>1, <1>3, <1>4, <1>5, <2>2 DEF Stage, ExitStatus, Reported
    <2> QED
      BY <2>1, <2>2
  <1>7. \A s \in Slots \ {w} : wpc'[s] = wpc[s] /\ child'[s] = child[s] /\ arg'[s] = arg[s]
    BY <1>t, <1>4 DEF WaitChild
  <1> QED
    BY <1>1, <1>2, <1>4, <1>5, <1>6, <1>7, <1>t, StageMoves
LEMMA LogErrorKeepsLines ==
  ASSUME TypeOK, FlagInv, LineInv, NEW w \in Slots, LogError(w)
  PROVE  LineInv'
  <1> DEFINE l == line[w]
  <1>t. /\ linenum \in 0 .. NLines /\ wpc \in [Slots -> WorkerPCs] /\ arg \in [Slots -> 0 .. NLines]
        /\ child \in [Slots -> [state : {"none", "running"} \cup Outcomes,
                               line : 0 .. NLines, serial : 0 .. NLines]]
        /\ starts \in [Lines -> Nat] /\ outcome \in [Lines -> {"none"} \cup Outcomes]
        /\ logged \in [Lines -> Nat]
    BY DEF TypeOK
  <1>1. Owing(w) /\ wpc[w] = "log"
    BY DEF FlagInv, Working, LogError
  <1>2. Stage(w) /\ l \in Lines /\ child[w].state = "none"
    BY <1>1, <1>t, HandedAreLines DEF LineInv
  <1>3. /\ starts[l] = 1 /\ logged[l] = 0 /\ l \notin lost
        /\ outcome[l] = "failed" /\ outcome[l] \in Outcomes
    BY <1>1, <1>2 DEF Stage
  <1>4. UNCHANGED <<mpc, x, linenum, flags, line, serial, arg, child, starts, outcome>>
    BY DEF LogError, mainVars, slotVars
  <1>5. wpc'[w] = "clear" /\ child'[w].state = "none"
    BY <1>t, <1>2, <1>4 DEF LogError
  <1>6. \/ logged' = [logged EXCEPT ![l] = @ + 1] /\ lost' = lost
        \/ lost' = lost \cup {l} /\ logged' = logged
    BY DEF LogError
  <1>7. logged'[l] \in {0, 1} /\ (logged'[l] = 1 \/ l \in lost')
    <2>1. CASE logged' = [logged EXCEPT ![l] = @ + 1] /\ lost' = lost
      BY ONLY <1>2, <1>3, <1>t, <2>1
    <2>2. CASE lost' = lost \cup {l} /\ logged' = logged
      BY ONLY <1>3, <2>2
    <2> QED
      BY <1>6, <2>1, <2>2
  <1>8. Stage(w)'
    BY <1>3, <1>4, <1>5, <1>7 DEF Stage, Reported
  <1>9. \A s \in Slots \ {w} : wpc'[s] = wpc[s] /\ child'[s] = child[s] /\ arg'[s] = arg[s]
    BY <1>t, <1>4 DEF LogError
  <1>10. \A k \in Lines \ {l} : logged'[k] = logged[k] /\ (k \in lost' <=> k \in lost)
    BY <1>t, <1>6
  <1> QED
    BY <1>1, <1>4, <1>5, <1>8, <1>9, <1>10, <1>t, StageMoves
LEMMA ChildEndsKeepsLines ==
  ASSUME TypeOK, FlagInv, LineInv, NEW w \in Slots, ChildEnds(w)
  PROVE  LineInv'
  <1> DEFINE l == line[w]
  <1>t. /\ linenum \in 0 .. NLines /\ wpc \in [Slots -> WorkerPCs] /\ arg \in [Slots -> 0 .. NLines]
        /\ child \in [Slots -> [state : {"none", "running"} \cup Outcomes,
                               line : 0 .. NLines, serial : 0 .. NLines]]
        /\ starts \in [Lines -> Nat] /\ outcome \in [Lines -> {"none"} \cup Outcomes]
        /\ logged \in [Lines -> Nat]
    BY DEF TypeOK
  <1>1. Owing(w) /\ wpc[w] = "wait" /\ child[w].state = "running"
    <2>1. child[w].state = "running"
      BY DEF ChildEnds
    <2>2. wpc[w] = "wait"
      BY <2>1 DEF LineInv
    <2> QED
      BY <2>1, <2>2 DEF FlagInv, Working
  <1>2. Stage(w) /\ l \in Lines
    BY <1>1, <1>t, HandedAreLines DEF LineInv
  <1>3. /\ starts[l] = 1 /\ logged[l] = 0 /\ l \notin lost
        /\ child[w].line = l /\ child[w].serial = l
    BY <1>1, <1>2 DEF Stage
  <1>4. /\ UNCHANGED <<mpc, x, linenum, flags, line, serial, arg, wpc, starts, logged, lost>>
    BY DEF ChildEnds, mainVars, slotVars, workerVars
  <1>5. PICK o \in Outcomes : /\ child' = [child EXCEPT ![w].state = o]
                              /\ outcome' = [outcome EXCEPT ![child[w].line] = o]
    BY DEF ChildEnds
  <1>6. /\ child'[w].state = o /\ child'[w].line = l /\ child'[w].serial = l
        /\ outcome'[l] = o
    BY <1>2, <1>3, <1>5, <1>t
  <1>7. Stage(w)' /\ wpc'[w] = "wait"
    BY <1>1, <1>3, <1>4, <1>6 DEF Stage
  <1>8. \A s \in Slots \ {w} : wpc'[s] = wpc[s] /\ child'[s] = child[s] /\ arg'[s] = arg[s]
    BY <1>t, <1>4, <1>5
  <1>9. \A k \in Lines \ {l} : outcome'[k] = outcome[k]
    BY <1>t, <1>3, <1>5
  <1> QED
    BY <1>1, <1>4, <1>7, <1>8, <1>9, <1>t, StageMoves
LEMMA CreateWorkerKeepsLines ==
  ASSUME TypeOK, LockInv, LineInv, CreateWorker
  PROVE  LineInv'
  <1>t. x \in Slots /\ wpc \in [Slots -> WorkerPCs]
    BY DEF TypeOK
  <1>1. wpc[x] = "new"
    BY <1>t DEF LockInv, CreateWorker
  <1>2. mpc' \in {"create", "fgets"} /\ mpc = "create"
    BY DEF CreateWorker, NextSlot
  <1>3. UNCHANGED <<linenum, arg, flags, line, serial, child, starts, outcome, logged, lost>>
    BY DEF CreateWorker, slotVars, jobVars
  <1>4. \A s \in Slots : wpc'[s] # wpc[s] => wpc[s] = "new" /\ wpc'[s] = "lock"
    BY <1>1, <1>t DEF CreateWorker
  <1>5. Handed' = Handed /\ (\A s \in Slots : Owing(s)' <=> Owing(s))
    BY <1>2, <1>3 DEF Handed, HandedCount, Owing
  <1>6. \A k \in Lines : (Untouched(k)' <=> Untouched(k)) /\ (Reported(k)' <=> Reported(k))
    BY <1>3 DEF Untouched, Reported
  <1>7. \A s \in Slots : Stage(s) => Stage(s)'
    BY <1>3, <1>4 DEF Stage, Untouched, Reported
  <1>8. \A s \in Slots : wpc'[s] # "wait" => child'[s].state = "none"
    BY <1>3, <1>4 DEF LineInv
  <1> QED
    BY <1>2, <1>3, <1>5, <1>6, <1>7, <1>8 DEF LineInv

\* main writes the line and the serial of an idle slot only.
LEMMA CopyLineKeepsLines ==
  ASSUME TypeOK, FlagInv, LineInv, CopyLine \/ SetSerial
  PROVE  LineInv'
  <1>t. /\ x \in Slots /\ linenum \in 0 .. NLines
        /\ line \in [Slots -> 0 .. NLines] /\ serial \in [Slots -> 0 .. NLines]
    BY DEF TypeOK
  <1>1. ~Owing(x)
    BY DEF FlagInv, CopyLine, SetSerial
  <1>2. UNCHANGED <<x, linenum, arg, flags, wpc, child, starts, outcome, logged, lost>>
    BY DEF CopyLine, SetSerial, workerVars, jobVars
  <1>3. Handed' = Handed
    BY <1>2 DEF CopyLine, SetSerial, Handed, HandedCount
  <1>4. \A s \in Slots : (Owing(s)' <=> Owing(s)) /\ (Owing(s) => line'[s] = line[s] /\ serial'[s] = serial[s])
    BY <1>1, <1>2, <1>t DEF CopyLine, SetSerial, Owing
  <1>5. \A k \in Lines : (Untouched(k)' <=> Untouched(k)) /\ (Reported(k)' <=> Reported(k))
    BY <1>2 DEF Untouched, Reported
  <1>6. ASSUME NEW s \in Slots, Owing(s), Stage(s) PROVE Stage(s)'
    BY <1>2, <1>4, <1>6 DEF Stage, Untouched, Reported
  <1>7. /\ mpc' = "number" => line'[x'] = linenum'
        /\ mpc' \in {"set", "setting"} => line'[x'] = linenum' /\ serial'[x'] = linenum'
    BY <1>2, <1>t DEF CopyLine, SetSerial, LineInv
  <1>8. \A s \in Slots : /\ Owing(s)' => line'[s] \in Handed' /\ serial'[s] = line'[s] /\ Stage(s)'
                         /\ wpc'[s] # "wait" => child'[s].state = "none"
    BY <1>2, <1>3, <1>4, <1>6 DEF LineInv
  <1>9. \A k \in Lines :
       /\ k \notin Handed' => Untouched(k)'
       /\ k \in Handed' /\ (\A s \in Slots : Owing(s)' => line'[s] # k) => Reported(k)'
    BY <1>3, <1>4, <1>5 DEF LineInv
  <1>10. \A s, t \in Slots : s # t /\ Owing(s)' /\ Owing(t)' => line'[s] # line'[t]
    BY <1>4 DEF LineInv
  <1> QED
    BY <1>7, <1>8, <1>9, <1>10 DEF LineInv

LEMMA LineNext == TypeOK /\ LockInv /\ FlagInv /\ LineInv /\ [Next]_vars => LineInv'
  <1> SUFFICES ASSUME TypeOK, LockInv, FlagInv, LineInv, [Next]_vars PROVE LineInv'
    OBVIOUS
  <1>t. /\ x \in Slots /\ wpc \in [Slots -> WorkerPCs] /\ flags \in [Slots -> FlagSets]
        /\ wflags \in [Slots -> FlagSets] /\ linenum \in 0 .. NLines
    BY DEF TypeOK
  <1> USE DEF LockInv, FlagInv, LineInv, MainHolds, WorkerHolds, Working, Finishing, Owing, Stage, Untouched, Reported, Handed, HandedCount,
          mainVars, workerVars, slotVars, jobVars
  <1>1. CASE OpenInput
    BY <1>1, <1>t DEF OpenInput
  <1>2. CASE CreateWorker
    BY <1>2, CreateWorkerKeepsLines
  <1>3. CASE ReadLine
    BY <1>3, <1>t DEF ReadLine
  <1>4. CASE GetBusy
    BY <1>4, <1>t DEF GetBusy, Lock
  <1>5. CASE PickIdle
    BY <1>5, <1>t DEF PickIdle, NextSlot, Unlock
  <1>6. CASE CopyLine
    BY <1>6, CopyLineKeepsLines
  <1>7. CASE SetSerial
    BY <1>7, CopyLineKeepsLines
  <1>8. CASE SetBusyLoad
    BY <1>8, <1>t DEF SetBusyLoad, Lock
  <1>9. CASE SetBusyStore
    BY <1>9, <1>t DEF SetBusyStore, Unlock
  <1>10. CASE MarkDoneLoad
    BY <1>10, <1>t DEF MarkDoneLoad, Lock
  <1>11. CASE MarkDoneStore
    BY <1>11, <1>t DEF MarkDoneStore, NextSlot, Unlock
  <1>12. CASE PollBusy
    BY <1>12, <1>t DEF PollBusy, Lock
  <1>13. CASE PollNext
    BY <1>13, <1>t DEF PollNext, NextSlot, Unlock
  <1>14. CASE CancelWorker
    BY <1>14, <1>t DEF CancelWorker, NextSlot
  <1>15. ASSUME NEW w \in Slots, ReadFlags(w) PROVE LineInv'
    BY <1>15, <1>t DEF ReadFlags, Lock
  <1>16. ASSUME NEW w \in Slots, TestFlags(w) PROVE LineInv'
    BY <1>16, <1>t DEF TestFlags, Unlock
  <1>17. ASSUME NEW w \in Slots, Wake(w) PROVE LineInv'
    BY <1>17, <1>t DEF Wake
  <1>18. ASSUME NEW w \in Slots, BuildArgv(w) PROVE LineInv'
    BY <1>18, BuildArgvKeepsLines
  <1>19. ASSUME NEW w \in Slots, Fork(w) PROVE LineInv'
    BY <1>19, ForkKeepsLines
  <1>20. ASSUME NEW w \in Slots, WaitChild(w) PROVE LineInv'
    BY <1>20, WaitChildKeepsLines
  <1>21. ASSUME NEW w \in Slots, LogError(w) PROVE LineInv'
    BY <1>21, LogErrorKeepsLines
  <1>22. ASSUME NEW w \in Slots, ClearBusyLoad(w) PROVE LineInv'
    BY <1>22, <1>t DEF ClearBusyLoad, Lock
  <1>23. ASSUME NEW w \in Slots, ClearBusyStore(w) PROVE LineInv'
    BY <1>23, <1>t DEF ClearBusyStore, Unlock
  <1>24. ASSUME NEW w \in Slots, Cancelled(w) PROVE LineInv'
    BY <1>24, <1>t DEF Cancelled
  <1>25. ASSUME NEW w \in Slots, ChildEnds(w) PROVE LineInv'
    BY <1>25, ChildEndsKeepsLines
  <1>26. CASE UNCHANGED vars
    BY <1>26 DEF vars
  <1> QED
    BY <1>1, <1>2, <1>3, <1>4, <1>5, <1>6, <1>7, <1>8, <1>9,
       <1>10, <1>11, <1>12, <1>13, <1>14, <1>15, <1>16, <1>17, <1>18,
       <1>19, <1>20, <1>21, <1>22, <1>23, <1>24, <1>25, <1>26
       DEF Next, Main, Worker

-----------------------------------------------------------------------------
(* Theorems.                                                               *)

\* The inductive invariant holds in every reachable state.
THEOREM Invariance == Spec => [](TypeOK /\ IInv)
  <1>1. Init => TypeOK /\ IInv
    BY TypeInit, LockInit, FlagInit, LineInit DEF IInv
  <1>2. TypeOK /\ IInv /\ [Next]_vars => TypeOK' /\ IInv'
    BY TypeNext, LockNext, FlagNext, LineNext DEF IInv
  <1> QED
    BY <1>1, <1>2, PTL DEF Spec

\* A line is always in one of three places: not handed over, in a busy slot
\* at the stage of that slot's thread, or dealt with.
LEMMA LineCases ==
  ASSUME TypeOK, LineInv, NEW l \in Lines
  PROVE  \/ l \notin Handed /\ Untouched(l)
         \/ \E s \in Slots : Owing(s) /\ line[s] = l /\ Stage(s)
         \/ (\A s \in Slots : Owing(s) => line[s] # l) /\ Reported(l)
  BY DEF LineInv

\* No line is ever given to the program twice (set_busy / worker).
THEOREM AtMostOnce == Spec => []RunAtMostOnce
  <1>1. TypeOK /\ IInv => RunAtMostOnce
    <2> SUFFICES ASSUME TypeOK, IInv, NEW l \in Lines PROVE starts[l] <= 1
      BY DEF RunAtMostOnce
    <2>1. ASSUME NEW s \in Slots, line[s] = l, Stage(s) PROVE starts[l] \in {0, 1}
      BY <2>1 DEF Stage, Untouched, Reported
    <2>2. starts[l] \in {0, 1}
      BY <2>1, LineCases DEF IInv, Untouched, Reported
    <2> QED
      BY <2>2
  <1> QED
    BY <1>1, Invariance, PTL

\* A program's WORKER_SERIAL is the number of the line it was given.
THEOREM SerialsMatch == Spec => []SerialMatchesLine
  <1>1. TypeOK /\ IInv => SerialMatchesLine
    <2> SUFFICES ASSUME TypeOK, IInv, NEW s \in Slots, child[s].state # "none"
                 PROVE child[s].serial = child[s].line
      BY DEF SerialMatchesLine
    <2>1. wpc[s] = "wait" /\ Owing(s)
      BY DEF IInv, LineInv, FlagInv, Working
    <2> QED
      BY <2>1 DEF IInv, LineInv, Stage
  <1> QED
    BY <1>1, Invariance, PTL

\* The error file holds failed lines only, each once, and all of them.
THEOREM ErrorFileExact == Spec => []ErrorFileIsExact
  <1>1. TypeOK /\ IInv => ErrorFileIsExact
    <2> SUFFICES ASSUME TypeOK, IInv, NEW l \in Lines
                 PROVE  /\ logged[l] <= 1
                        /\ logged[l] = 1 => outcome[l] = "failed"
                        /\ /\ ErrorFile /\ outcome[l] = "failed" /\ l \in Handed
                           /\ \A s \in Slots : Owing(s) => line[s] # l
                           => logged[l] = 1 \/ l \in lost
      BY DEF ErrorFileIsExact
    <2>1. ASSUME NEW s \in Slots, line[s] = l, Stage(s)
          PROVE logged[l] \in {0, 1} /\ (logged[l] = 1 => outcome[l] = "failed")
      BY <2>1 DEF Stage, Untouched, Reported
    <2>2. logged[l] \in {0, 1} /\ (logged[l] = 1 => outcome[l] = "failed")
      BY <2>1, LineCases DEF IInv, Untouched, Reported
    <2>3. ASSUME ErrorFile, outcome[l] = "failed", l \in Handed,
                 \A s \in Slots : Owing(s) => line[s] # l
          PROVE logged[l] = 1 \/ l \in lost
      BY <2>3 DEF IInv, LineInv, Reported
    <2> QED
      BY <2>2, <2>3
  <1> QED
    BY <1>1, Invariance, PTL

\* When worker_finish starts to cancel threads, all the work is done.
THEOREM FinishedOnlyWhenDone == Spec => []FinishedMeansDone
  <1>1. TypeOK /\ IInv => FinishedMeansDone
    <2> SUFFICES ASSUME TypeOK, IInv, mpc \in {"cancel", "gone"}
                 PROVE  /\ linenum = NLines
                        /\ \A l \in Lines : starts[l] = 1 /\ outcome[l] # "none"
                        /\ \A s \in Slots : child[s].state = "none"
      BY DEF FinishedMeansDone
    <2>1. linenum = NLines /\ \A s \in Slots : ~Owing(s)
      BY DEF IInv, FlagInv, Finishing
    <2>2. Handed = Lines
      BY <2>1 DEF Handed, HandedCount
    <2>3. \A l \in Lines : Reported(l)
      BY <2>1, <2>2 DEF IInv, LineInv
    <2>4. \A s \in Slots : child[s].state = "none"
      BY <2>1 DEF IInv, LineInv, FlagInv, Working
    <2> QED
      BY <2>1, <2>3, <2>4 DEF Reported
  <1> QED
    BY <1>1, Invariance, PTL

\* main leaves the line and the serial of a slot alone from set_busy(wp, 1)
\* to the thread's set_busy(wp, 0), although no lock protects them.
THEOREM SlotsAreStable == Spec => BusySlotIsStable
  <1>1. TypeOK /\ IInv /\ [Next]_vars =>
          [\A s \in Slots :
             Owing(s) \/ wpc[s] \in {"exec", "fork", "wait", "log", "clear", "clearing"}
               => line'[s] = line[s] /\ serial'[s] = serial[s]]_vars
    <2> SUFFICES ASSUME TypeOK, IInv, Next, NEW s \in Slots,
                        Owing(s) \/ Working(s)
                 PROVE  line'[s] = line[s] /\ serial'[s] = serial[s]
      BY DEF Working
    <2>1. Owing(s)
      BY DEF IInv, FlagInv
    <2>2. CASE CopyLine \/ SetSerial
      <3>1. s # x
        BY <2>1, <2>2 DEF IInv, FlagInv, CopyLine, SetSerial
      <3> QED
        BY <2>2, <3>1 DEF TypeOK, CopyLine, SetSerial
    <2>3. CASE ~(CopyLine \/ SetSerial)
      <3>1. UNCHANGED <<line, serial>>
        BY <2>3 DEF Next, Main, Worker, OpenInput, CreateWorker, ReadLine, GetBusy,
             PickIdle, SetBusyLoad, SetBusyStore, MarkDoneLoad, MarkDoneStore,
             PollBusy, PollNext, CancelWorker, ReadFlags, TestFlags, Wake,
             BuildArgv, Fork, WaitChild, LogError, ClearBusyLoad,
             ClearBusyStore, Cancelled, ChildEnds, vars, slotVars
      <3> QED
        BY <3>1
    <2> QED
      BY <2>2, <2>3
  <1> QED
    BY <1>1, Invariance, PTL DEF Spec, BusySlotIsStable

\* Neither side loses the other's flag, although both read, modify and write
\* the same word.
THEOREM FlagsSurvive == Spec => FlagsAreNotLost
  <1>1. TypeOK /\ IInv /\ [Next]_vars =>
          [\A s \in Slots :
             /\ "DONE" \in flags[s] => "DONE" \in flags'[s]
             /\ "BUSY" \in flags[s] /\ "BUSY" \notin flags'[s] => wpc[s] = "clearing"]_vars
    <2> SUFFICES ASSUME TypeOK, IInv, Next, NEW s \in Slots
                 PROVE  /\ "DONE" \in flags[s] => "DONE" \in flags'[s]
                        /\ "BUSY" \in flags[s] /\ "BUSY" \notin flags'[s] => wpc[s] = "clearing"
      OBVIOUS
    <2>t. x \in Slots /\ flags \in [Slots -> FlagSets]
      BY DEF TypeOK
    <2>1. CASE SetBusyStore \/ MarkDoneStore
      <3>1. mflags = flags[x]
        BY <2>1 DEF IInv, LockInv, SetBusyStore, MarkDoneStore
      <3>2. flags' = [flags EXCEPT ![x] = flags[x] \cup {"BUSY"}]
            \/ flags' = [flags EXCEPT ![x] = flags[x] \cup {"DONE"}]
        BY <2>1, <3>1 DEF SetBusyStore, MarkDoneStore
      <3> QED
        BY <2>t, <3>2
    <2>2. ASSUME NEW w \in Slots, ClearBusyStore(w)
          PROVE  /\ "DONE" \in flags[s] => "DONE" \in flags'[s]
                 /\ "BUSY" \in flags[s] /\ "BUSY" \notin flags'[s] => wpc[s] = "clearing"
      <3>1. wflags[w] = flags[w] /\ wpc[w] = "clearing"
        BY <2>2 DEF IInv, LockInv, ClearBusyStore
      <3>2. flags' = [flags EXCEPT ![w] = flags[w] \ {"BUSY"}]
        BY <2>2, <3>1 DEF ClearBusyStore
      <3> QED
        BY <2>t, <3>1, <3>2
    <2>3. CASE ~(SetBusyStore \/ MarkDoneStore) /\ ~\E w \in Slots : ClearBusyStore(w)
      <3>1. UNCHANGED flags
        BY <2>3 DEF Next, Main, Worker, OpenInput, CreateWorker, ReadLine, GetBusy,
             PickIdle, CopyLine, SetSerial, SetBusyLoad, MarkDoneLoad,
             PollBusy, PollNext, CancelWorker, ReadFlags, TestFlags, Wake,
             BuildArgv, Fork, WaitChild, LogError, ClearBusyLoad,
             Cancelled, ChildEnds, vars, slotVars
      <3> QED
        BY <3>1
    <2> QED
      BY <2>1, <2>2, <2>3
  <1> QED
    BY <1>1, Invariance, PTL DEF Spec, FlagsAreNotLost

\* No thread is cancelled while it waits for a program or writes the error file.
THEOREM OnlyIdleCancelled == Spec => CancelHitsIdleOnly
  <1>1. TypeOK /\ IInv /\ [Next]_vars =>
          [\A s \in Slots :
             wpc[s] # "cancelled" /\ wpc'[s] = "cancelled" => wpc[s] = "sleep"]_vars
    <2> SUFFICES ASSUME TypeOK, IInv, Next, NEW s \in Slots,
                        wpc[s] # "cancelled", wpc'[s] = "cancelled"
                 PROVE  wpc[s] = "sleep"
      OBVIOUS
    <2>t. wpc \in [Slots -> WorkerPCs]
      BY DEF TypeOK
    <2>1. ASSUME NEW w \in Slots, Cancelled(w) PROVE wpc[s] = "sleep"
      <3>1. w = s
        BY <2>1, <2>t DEF Cancelled
      <3>2. ~Owing(s)
        BY <2>1, <3>1 DEF Cancelled, IInv, FlagInv
      <3> QED
        BY <2>1, <3>1, <3>2 DEF Cancelled, IInv, FlagInv, Working
    <2>2. CASE ~\E w \in Slots : Cancelled(w)
      <3>1. \A w \in Slots : wpc'[w] # wpc[w] => wpc'[w] # "cancelled"
        BY <2>2, <2>t DEF Next, Main, Worker, OpenInput, CreateWorker, ReadLine, GetBusy,
             PickIdle, CopyLine, SetSerial, SetBusyLoad, SetBusyStore, MarkDoneLoad,
             MarkDoneStore, PollBusy, PollNext, CancelWorker, ReadFlags, TestFlags, Wake,
             BuildArgv, Fork, WaitChild, LogError, ClearBusyLoad,
             ClearBusyStore, ChildEnds, vars, workerVars
      <3> QED
        BY <3>1
    <2> QED
      BY <2>1, <2>2
  <1> QED
    BY <1>1, Invariance, PTL DEF Spec, CancelHitsIdleOnly

\* The three together: no step of a thread breaks what the other relies on.
THEOREM StepsSafe == Spec => StepsAreSafe
  BY SlotsAreStable, FlagsSurvive, OnlyIdleCancelled DEF StepsAreSafe
-----------------------------------------------------------------------------
(***************************************************************************)
(* The threaded worker program implements JobRunner, for any number of     *)
(* threads and lines: every step of the pool is a step of the job runner   *)
(* or leaves what the job runner sees unchanged.                           *)
(***************************************************************************)
Phase == [l \in Lines |-> PhaseOf(l)]
InErrorFile == {l \in Lines : logged[l] > 0}

-----------------------------------------------------------------------------
LEMMA InitRefines == Init => Jobs!Init
  <1> SUFFICES ASSUME Init PROVE Jobs!Init
    OBVIOUS
  <1>1. \A l \in Lines : PhaseOf(l) = "unread"
    BY DEF Init, PhaseOf, Handed, HandedCount
  <1>2. Over = "no" /\ InErrorFile = {} /\ outcome = [l \in Lines |-> "none"]
    BY DEF Init, Over, InErrorFile
  <1> QED
    BY <1>1, <1>2 DEF Jobs!Init, Jobs!Lines, InErrorFile

\* The instance has a Cardinality of its own.
LEMMA SameCardinality ==
  ASSUME NEW S
  PROVE  Jobs!Cardinality(S) = Cardinality(S)
  BY DEF Jobs!Cardinality, Cardinality

\* The lines in hand are those of the busy slots.
LEMMA InHandOwned ==
  ASSUME TypeOK, IInv, NEW l \in Lines, PhaseOf(l) \in {"taken", "running", "ended"}
  PROVE  \E s \in Slots : Owing(s) /\ line[s] = l
  <1>1. l \in Handed
    BY DEF PhaseOf
  <1>2. CASE \A s \in Slots : Owing(s) => line[s] # l
    <2>1. Reported(l)
      BY <1>1, <1>2 DEF IInv, LineInv
    <2>2. starts[l] # 0 /\ outcome[l] # "none"
      BY <2>1 DEF Reported
    <2>3. PhaseOf(l) = "closed"
      BY <1>1, <1>2, <2>2 DEF PhaseOf
    <2> QED
      BY <2>3
  <1> QED
    BY <1>2

\* With an idle slot in view, fewer than Count lines are in hand.
LEMMA RoomForOneMore ==
  ASSUME TypeOK, IInv, ~Owing(x)
  PROVE  Cardinality({l \in Lines : PhaseOf(l) \in {"taken", "running", "ended"}}) < Count
  <1> DEFINE InHand == {l \in Lines : PhaseOf(l) \in {"taken", "running", "ended"}}
             Others == Slots \ {x}
             owner  == [l \in InHand |-> CHOOSE s \in Slots : Owing(s) /\ line[s] = l]
  <1>1. \A l \in InHand : owner[l] \in Others /\ line[owner[l]] = l
    BY InHandOwned
  <1>2. owner \in Injection(InHand, Others)
    <2>1. owner \in [InHand -> Others]
      BY <1>1
    <2>2. \A k, l \in InHand : owner[k] = owner[l] => k = l
      BY <1>1
    <2> QED
      BY <2>1, <2>2 DEF Injection, IsInjective
  <1>3. IsFiniteSet(Slots) /\ Cardinality(Slots) = Count
    BY FS_Interval
  <1>4. IsFiniteSet(Others) /\ Cardinality(Others) = Count - 1
    <2>1. x \in Slots
      BY DEF TypeOK
    <2> HIDE DEF Slots
    <2>2. /\ IsFiniteSet(Slots \ {x})
          /\ Cardinality(Slots \ {x}) = Cardinality(Slots) - 1
      BY ONLY <1>3, <2>1, FS_RemoveElement
    <2> QED
      BY <1>3, <2>2
  <1> HIDE DEF InHand, Others, owner
  <1>5. IsFiniteSet(InHand) /\ Cardinality(InHand) <= Count - 1
    BY <1>2, <1>4, FS_Injection
  <1>6. Cardinality(InHand) \in Nat
    BY <1>5, FS_CardinalityType
  <1> QED
    BY <1>5, <1>6 DEF InHand

\* A step that moves no line between its places leaves all phases alone.
LEMMA SamePhases ==
  ASSUME Handed' = Handed, UNCHANGED <<starts, outcome>>,
         \A s \in Slots : (Owing(s)' <=> Owing(s)) /\ (Owing(s) => line'[s] = line[s])
  PROVE  Phase' = Phase
  BY DEF Phase, PhaseOf

\* ... and when nothing else that the job runner sees changes, it stutters.
LEMMA Stutters ==
  ASSUME Phase' = Phase, UNCHANGED <<outcome, logged>>, Over' = Over
  PROVE  UNCHANGED Jobs!vars
  BY DEF Jobs!vars, Phase

\* exit() in any thread aborts the job runner.
LEMMA Aborts ==
  ASSUME Phase' = Phase, UNCHANGED <<outcome, logged>>, proc' = "exited"
  PROVE  Jobs!Next
  <1>1. Over' = "aborted"
    BY DEF Over
  <1>2. Jobs!Abort
    BY <1>1 DEF Jobs!Abort, Phase
  <1> QED
    BY <1>2 DEF Jobs!Next

\* set_busy(wp, 1) takes the next line.
LEMMA SetBusyTakes ==
  ASSUME TypeOK, IInv, SetBusyStore
  PROVE  Jobs!Next
  <1> SUFFICES ASSUME NEW n, n = linenum PROVE Jobs!Next
    OBVIOUS
  <1>t. /\ x \in Slots /\ n \in 0 .. NLines /\ flags \in [Slots -> FlagSets]
        /\ mflags = flags[x] /\ ~Owing(x) /\ n > 0 /\ line[x] = n /\ ~Finishing
    BY DEF TypeOK, IInv, LockInv, FlagInv, LineInv, SetBusyStore, Finishing
  <1>1. Handed = 1 .. n - 1 /\ Handed' = 1 .. n
    BY DEF SetBusyStore, Handed, HandedCount
  <1>2. UNCHANGED <<starts, outcome, logged, line, proc>>
    BY DEF SetBusyStore, jobVars
  <1>3. n \in Lines /\ starts[n] = 0
    BY <1>1, <1>t DEF IInv, LineInv, Untouched
  <1>4. PhaseOf(n) = "unread" /\ PhaseOf(n)' = "taken"
    BY <1>1, <1>2, <1>3 DEF PhaseOf
  <1>5. \A k \in Lines : k < n => PhaseOf(k) # "unread"
    BY <1>1, <1>t DEF PhaseOf
  <1>6. \A s \in Slots : s # x => (Owing(s)' <=> Owing(s))
    BY <1>t DEF SetBusyStore, Owing
  <1>7. ASSUME NEW k \in Lines, k # n PROVE PhaseOf(k)' = PhaseOf(k)
    <2>1. k \in Handed' <=> k \in Handed
      BY <1>1, <1>7, <1>t
    <2>2. (\E s \in Slots : Owing(s)' /\ line'[s] = k) <=> (\E s \in Slots : Owing(s) /\ line[s] = k)
      BY <1>2, <1>6, <1>7, <1>t
    <2> QED
      BY <1>2, <2>1, <2>2 DEF PhaseOf
  <1>8. Phase' = [Phase EXCEPT ![n] = "taken"]
    BY <1>4, <1>7 DEF Phase
  <1>9. Over = "no" /\ Over' = "no"
    BY <1>2 DEF Over, SetBusyStore
  <1>10. Cardinality({l \in Lines : PhaseOf(l) \in {"taken", "running", "ended"}}) < Count
    BY <1>t, RoomForOneMore
  <1>11. Cardinality({l \in Lines : Phase[l] \in {"taken", "running", "ended"}}) < Count
    <2>1. {l \in Lines : Phase[l] \in {"taken", "running", "ended"}}
            = {l \in Lines : PhaseOf(l) \in {"taken", "running", "ended"}}
      BY DEF Phase
    <2> QED
      BY <1>10, <2>1
  <1>12. Jobs!Take(n)
    <2>1. Phase[n] = "unread" /\ \A k \in Lines : k < n => Phase[k] # "unread"
      BY <1>3, <1>4, <1>5 DEF Phase
    <2>2. InErrorFile' = InErrorFile
      BY <1>2 DEF InErrorFile
    <2>3. Jobs!Cardinality(Jobs!InHand) < Count
      BY ONLY <1>11, SameCardinality DEF Jobs!InHand, Jobs!Lines, Phase, Lines
    <2>4. Jobs!Lines = Lines
      BY DEF Jobs!Lines
    <2> HIDE DEF Lines
    <2> QED
      BY ONLY <1>2, <1>8, <1>9, <2>1, <2>2, <2>3, <2>4
      DEF Jobs!Take, Phase, InErrorFile
  <1> QED
    BY <1>3, <1>12 DEF Jobs!Next, Jobs!Lines

\* The line of a busy slot, its phase, and what a step on it alone changes.
LEMMA OwnedLine ==
  ASSUME TypeOK, IInv, NEW w \in Slots, Owing(w)
  PROVE  /\ line[w] \in Lines /\ line[w] \in Handed /\ Stage(w)
         /\ \A s \in Slots \ {w} : Owing(s) => line[s] # line[w]
  <1>1. linenum \in 0 .. NLines
    BY DEF TypeOK
  <1>2. line[w] \in Lines
    BY <1>1, HandedAreLines DEF IInv, LineInv
  <1> QED
    BY <1>2 DEF IInv, LineInv

LEMMA OnePhaseChanges ==
  ASSUME NEW n \in Lines, NEW ph, PhaseOf(n)' = ph,
         \A k \in Lines : k # n => PhaseOf(k)' = PhaseOf(k)
  PROVE  Phase' = [Phase EXCEPT ![n] = ph]
  BY DEF Phase

\* fork() begins the program of a line.
LEMMA ForkBegins ==
  ASSUME TypeOK, IInv, NEW w \in Slots, Fork(w)
  PROVE  Jobs!Next
  <1> SUFFICES ASSUME NEW n, n = line[w] PROVE Jobs!Next
    OBVIOUS
  <1>1. Owing(w) /\ wpc[w] = "fork" /\ proc = "up" /\ ~(mpc \in {"cancel", "gone"})
    BY DEF IInv, FlagInv, Working, Fork
  <1>2. /\ n \in Lines /\ n \in Handed /\ starts[n] = 0 /\ outcome[n] = "none" /\ arg[w] = n
    BY <1>1, OwnedLine DEF Stage, Untouched
  <1>3. UNCHANGED <<mpc, linenum, flags, line, outcome, logged>>
    BY DEF Fork, mainVars, slotVars
  <1>4. Handed' = Handed /\ \A s \in Slots : Owing(s)' <=> Owing(s)
    BY <1>3 DEF Handed, HandedCount, Owing
  <1>5. CASE proc' = "exited" /\ UNCHANGED <<child, starts, wpc>>
    <2>1. Phase' = Phase
      BY <1>3, <1>4, <1>5, SamePhases
    <2> QED
      BY <1>3, <1>5, <2>1, Aborts
  <1>6. CASE starts' = [starts EXCEPT ![arg[w]] = @ + 1] /\ UNCHANGED proc
    <2>1. starts'[n] = 1 /\ \A k \in Lines : k # n => starts'[k] = starts[k]
      BY <1>2, <1>6 DEF TypeOK
    <2>2. PhaseOf(n) = "taken" /\ PhaseOf(n)' = "running"
      BY <1>2, <1>3, <1>4, <2>1 DEF PhaseOf
    <2>3. \A k \in Lines : k # n => PhaseOf(k)' = PhaseOf(k)
      BY <1>3, <1>4, <2>1 DEF PhaseOf
    <2>4. Phase' = [Phase EXCEPT ![n] = "running"] /\ Phase[n] = "taken"
      BY <1>2, <2>2, <2>3, OnePhaseChanges DEF Phase
    <2>5. Over = "no" /\ Over' = "no"
      BY <1>1, <1>3, <1>6 DEF Over
    <2>6. Jobs!Begin(n)
      BY ONLY <1>3, <2>4, <2>5 DEF Jobs!Begin, Phase
    <2> QED
      BY <1>2, <2>6 DEF Jobs!Next, Jobs!Lines
  <1> QED
    BY <1>5, <1>6 DEF Fork

\* The program of a line ends, also after an exit() of its parent.
LEMMA ChildEndsEnds ==
  ASSUME TypeOK, IInv, NEW w \in Slots, ChildEnds(w)
  PROVE  Jobs!Next
  <1> SUFFICES ASSUME NEW n, n = line[w] PROVE Jobs!Next
    OBVIOUS
  <1>1. Owing(w) /\ wpc[w] = "wait" /\ child[w].state = "running"
    BY DEF IInv, FlagInv, LineInv, Working, ChildEnds
  <1>2. /\ n \in Lines /\ n \in Handed /\ starts[n] = 1 /\ outcome[n] = "none"
        /\ child[w].line = n
    BY <1>1, OwnedLine DEF Stage
  <1>3. UNCHANGED <<mpc, linenum, flags, line, starts, logged, proc>>
    BY DEF ChildEnds, mainVars, slotVars
  <1>4. Handed' = Handed /\ \A s \in Slots : Owing(s)' <=> Owing(s)
    BY <1>3 DEF Handed, HandedCount, Owing
  <1>5. PICK o \in Outcomes : outcome' = [outcome EXCEPT ![child[w].line] = o]
    BY DEF ChildEnds
  <1>6. outcome' = [outcome EXCEPT ![n] = o]
    BY <1>2, <1>5
  <1>7. outcome'[n] = o /\ o # "none" /\ \A k \in Lines : k # n => outcome'[k] = outcome[k]
    BY <1>2, <1>6 DEF TypeOK
  <1>8. PhaseOf(n) = "running" /\ PhaseOf(n)' = "ended"
    <2>1. PhaseOf(n) = "running"
      BY <1>2 DEF PhaseOf
    <2>2. Owing(w)' /\ line'[w] = n
      BY <1>1, <1>3, <1>4
    <2> QED
      BY <1>2, <1>3, <1>4, <1>7, <2>1, <2>2 DEF PhaseOf
  <1>9. \A k \in Lines : k # n => PhaseOf(k)' = PhaseOf(k)
    BY <1>3, <1>4, <1>7 DEF PhaseOf
  <1>10. Phase' = [Phase EXCEPT ![n] = "ended"] /\ Phase[n] = "running"
    BY <1>2, <1>8, <1>9, OnePhaseChanges DEF Phase
  <1>11. Over' = Over
    BY <1>3 DEF Over
  <1>12. Jobs!End(n)
    BY ONLY <1>3, <1>6, <1>10, <1>11 DEF Jobs!End, Phase
  <1> QED
    BY <1>2, <1>12 DEF Jobs!Next, Jobs!Lines

\* The append to the error file reports a failed line; an error file that
\* does not open leaves no trace.
LEMMA LogReports ==
  ASSUME TypeOK, IInv, NEW w \in Slots, LogError(w)
  PROVE  [Jobs!Next]_(Jobs!vars)
  <1> SUFFICES ASSUME NEW n, n = line[w] PROVE [Jobs!Next]_(Jobs!vars)
    OBVIOUS
  <1>1. Owing(w) /\ wpc[w] = "log" /\ proc = "up" /\ ~(mpc \in {"cancel", "gone"})
    BY DEF IInv, FlagInv, Working, LogError
  <1>2. /\ n \in Lines /\ n \in Handed /\ starts[n] = 1 /\ outcome[n] = "failed" /\ logged[n] = 0
    BY <1>1, OwnedLine DEF Stage
  <1>3. UNCHANGED <<mpc, linenum, flags, line, starts, outcome, proc>>
    BY DEF LogError, mainVars, slotVars
  <1>4. Handed' = Handed /\ \A s \in Slots : Owing(s)' <=> Owing(s)
    BY <1>3 DEF Handed, HandedCount, Owing
  <1>5. Phase' = Phase
    BY <1>3, <1>4, SamePhases
  <1>6. Over = "no" /\ Over' = "no"
    BY <1>1, <1>3 DEF Over
  <1>7. CASE UNCHANGED logged
    BY <1>3, <1>5, <1>6, <1>7, Stutters
  <1>8. CASE logged' = [logged EXCEPT ![line[w]] = @ + 1]
    <2>1. InErrorFile' = InErrorFile \cup {n}
      <3>1. logged'[n] = 1 /\ \A k \in Lines : k # n => logged'[k] = logged[k]
        BY <1>2, <1>8 DEF TypeOK
      <3> QED
        BY <1>2, <3>1 DEF InErrorFile
    <2>2. n \notin InErrorFile
      BY <1>2 DEF InErrorFile
    <2>3. Phase[n] = "ended"
      BY <1>1, <1>2 DEF Phase, PhaseOf
    <2>4. Jobs!Report(n)
      BY ONLY <1>2, <1>3, <1>5, <1>6, <2>1, <2>2, <2>3 DEF Jobs!Report, Phase, InErrorFile
    <2> QED
      BY <1>2, <2>4 DEF Jobs!Next, Jobs!Lines
  <1> QED
    BY <1>7, <1>8 DEF LogError

\* set_busy(wp, 0) closes the line.
LEMMA ClearBusyCloses ==
  ASSUME TypeOK, IInv, NEW w \in Slots, ClearBusyStore(w)
  PROVE  Jobs!Next
  <1> SUFFICES ASSUME NEW n, n = line[w] PROVE Jobs!Next
    OBVIOUS
  <1>1. Owing(w) /\ wpc[w] = "clearing" /\ proc = "up" /\ ~(mpc \in {"cancel", "gone"})
    BY DEF IInv, FlagInv, Working, ClearBusyStore
  <1>2. /\ n \in Lines /\ n \in Handed /\ Reported(n)
        /\ \A s \in Slots \ {w} : Owing(s) => line[s] # n
    BY <1>1, OwnedLine DEF Stage
  <1>3. UNCHANGED <<mpc, linenum, line, starts, outcome, logged, proc>>
    BY DEF ClearBusyStore, mainVars, jobVars
  <1>4. ~Owing(w)' /\ \A s \in Slots \ {w} : Owing(s)' <=> Owing(s)
    BY DEF ClearBusyStore, Owing, TypeOK
  <1>5. Handed' = Handed
    BY <1>3 DEF Handed, HandedCount
  <1>6. PhaseOf(n) = "ended"
    BY <1>1, <1>2 DEF PhaseOf, Reported
  <1>7. PhaseOf(n)' = "closed"
    <2>1. ~\E s \in Slots : Owing(s)' /\ line'[s] = n
      BY <1>2, <1>3, <1>4
    <2> QED
      BY <1>2, <1>3, <1>5, <2>1 DEF PhaseOf, Reported
  <1>8. ASSUME NEW k \in Lines, k # n PROVE PhaseOf(k)' = PhaseOf(k)
    <2>1. (\E s \in Slots : Owing(s)' /\ line'[s] = k) <=> (\E s \in Slots : Owing(s) /\ line[s] = k)
      BY <1>3, <1>4, <1>8
    <2> QED
      BY <1>3, <1>5, <2>1 DEF PhaseOf
  <1>9. Phase' = [Phase EXCEPT ![n] = "closed"] /\ Phase[n] = "ended"
    BY <1>2, <1>6, <1>7, <1>8, OnePhaseChanges DEF Phase
  <1>10. Over = "no" /\ Over' = "no"
    BY <1>1, <1>3 DEF Over
  <1>11. Jobs!Close(n)
    BY ONLY <1>3, <1>9, <1>10 DEF Jobs!Close, Phase
  <1> QED
    BY <1>2, <1>11 DEF Jobs!Next, Jobs!Lines

\* The poll that meets no busy slot finishes the run.
LEMMA PollFinishes ==
  ASSUME TypeOK, IInv, TypeOK', IInv', PollNext
  PROVE  [Jobs!Next]_(Jobs!vars)
  <1>1. UNCHANGED <<linenum, flags, line, starts, outcome, logged, proc>> /\ mpc = "polled" /\ proc = "up"
    BY DEF PollNext, jobVars
  <1>2. mpc' \in {"poll", "cancel"}
    BY DEF PollNext, NextSlot
  <1>3. Handed' = Handed /\ \A s \in Slots : (Owing(s)' <=> Owing(s)) /\ line'[s] = line[s]
    BY <1>1, <1>2 DEF Handed, HandedCount, Owing
  <1>4. Phase' = Phase
    BY <1>1, <1>3, SamePhases
  <1>5. Over = "no"
    BY <1>1 DEF Over
  <1>6. CASE mpc' = "poll"
    <2>1. Over' = Over
      BY <1>1, <1>5, <1>6 DEF Over
    <2> QED
      BY <1>1, <1>4, <2>1, Stutters
  <1>7. CASE mpc' = "cancel"
    <2>1. \A s \in Slots : ~Owing(s)
      BY <1>3, <1>7 DEF IInv, FlagInv
    <2>2. Handed = Lines
      BY <1>1 DEF IInv, FlagInv, Finishing, Handed, HandedCount
    <2>3. \A l \in Lines : Phase[l] = "closed"
      BY <2>1, <2>2 DEF IInv, LineInv, Reported, Phase, PhaseOf
    <2>4. Over' = "done"
      BY <1>1, <1>7 DEF Over
    <2>5. Jobs!Finish
      BY ONLY <1>1, <1>4, <1>5, <2>3, <2>4 DEF Jobs!Finish, Jobs!Lines, Phase, Lines
    <2> QED
      BY <2>5 DEF Jobs!Next
  <1> QED
    BY <1>2, <1>6, <1>7

Quiet ==
  \/ ReadLine \/ GetBusy \/ PickIdle \/ CopyLine \/ SetSerial \/ SetBusyLoad
  \/ MarkDoneLoad \/ MarkDoneStore \/ PollBusy \/ CancelWorker
  \/ \E w \in Slots : \/ ReadFlags(w) \/ TestFlags(w) \/ Wake(w) \/ BuildArgv(w)
                      \/ WaitChild(w) \/ ClearBusyLoad(w) \/ Cancelled(w)

\* All other steps are invisible to the job runner.
LEMMA QuietStutters ==
  ASSUME TypeOK, IInv, Quiet
  PROVE  UNCHANGED Jobs!vars
  <1>1. UNCHANGED <<starts, outcome, logged, proc>>
    BY DEF Quiet, ReadLine, GetBusy, PickIdle, CopyLine, SetSerial, SetBusyLoad,
       MarkDoneLoad, MarkDoneStore, PollBusy, CancelWorker, ReadFlags, TestFlags, Wake,
       BuildArgv, WaitChild, ClearBusyLoad, Cancelled, jobVars
  <1>2. HandedCount' = HandedCount /\ Over' = Over
    <2>1. CASE ReadLine
      <3>1. linenum \in 0 .. NLines
        BY DEF TypeOK
      <3> QED
        BY <1>1, <2>1, <3>1 DEF ReadLine, HandedCount, Over
    <2>2. CASE GetBusy \/ CopyLine \/ SetSerial \/ SetBusyLoad \/ MarkDoneLoad \/ PollBusy
      BY <1>1, <2>2 DEF GetBusy, CopyLine, SetSerial, SetBusyLoad, MarkDoneLoad, PollBusy,
         HandedCount, Over
    <2>3. CASE PickIdle \/ MarkDoneStore \/ CancelWorker
      BY <1>1, <2>3 DEF PickIdle, MarkDoneStore, CancelWorker, NextSlot, HandedCount, Over
    <2>4. CASE \E w \in Slots : \/ ReadFlags(w) \/ TestFlags(w) \/ Wake(w) \/ BuildArgv(w)
                                \/ WaitChild(w) \/ ClearBusyLoad(w) \/ Cancelled(w)
      BY <2>4 DEF ReadFlags, TestFlags, Wake, BuildArgv, WaitChild, ClearBusyLoad,
         Cancelled, mainVars, HandedCount, Over
    <2> QED
      BY <2>1, <2>2, <2>3, <2>4 DEF Quiet
  <1>3. \A s \in Slots : (Owing(s)' <=> Owing(s)) /\ (Owing(s) => line'[s] = line[s])
    <2>1. CASE CopyLine
      BY <2>1 DEF CopyLine, IInv, FlagInv, Owing, TypeOK
    <2>2. CASE MarkDoneStore
      BY <2>2 DEF MarkDoneStore, IInv, LockInv, Owing, TypeOK
    <2>3. CASE UNCHANGED <<flags, line>>
      BY <2>3 DEF Owing
    <2>4. CopyLine \/ MarkDoneStore \/ UNCHANGED <<flags, line>>
      BY DEF Quiet, ReadLine, GetBusy, PickIdle, SetSerial, SetBusyLoad,
         MarkDoneLoad, PollBusy, CancelWorker, ReadFlags, TestFlags, Wake,
         BuildArgv, WaitChild, ClearBusyLoad, Cancelled, slotVars
    <2> QED
      BY <2>1, <2>2, <2>3, <2>4
  <1>4. Phase' = Phase
    BY <1>1, <1>2, <1>3, SamePhases DEF Handed
  <1> QED
    BY <1>1, <1>2, <1>4, Stutters

\* Opening the input and creating the threads may end in exit().
LEMMA StartAborts ==
  ASSUME OpenInput \/ CreateWorker
  PROVE  [Jobs!Next]_(Jobs!vars)
  <1>1. UNCHANGED <<linenum, flags, line, starts, outcome, logged>>
    BY DEF OpenInput, CreateWorker, slotVars, jobVars
  <1>2. mpc \in {"open", "create"} /\ mpc' \in {"open", "create", "fgets"}
    BY DEF OpenInput, CreateWorker, NextSlot
  <1>3. Handed' = Handed /\ \A s \in Slots : (Owing(s)' <=> Owing(s)) /\ line'[s] = line[s]
    BY <1>1, <1>2 DEF Handed, HandedCount, Owing
  <1>4. Phase' = Phase
    BY <1>1, <1>3, SamePhases
  <1>5. CASE proc' = "exited"
    BY <1>1, <1>4, <1>5, Aborts
  <1>6. CASE UNCHANGED proc
    <2>1. Over' = Over
      BY <1>2, <1>6 DEF Over
    <2> QED
      BY <1>1, <1>4, <2>1, Stutters
  <1> QED
    BY <1>5, <1>6 DEF OpenInput, CreateWorker

LEMMA StepRefines ==
  ASSUME TypeOK, IInv, TypeOK', IInv', [Next]_vars
  PROVE  [Jobs!Next]_(Jobs!vars)
  <1>1. CASE OpenInput \/ CreateWorker
    BY <1>1, StartAborts
  <1>2. CASE SetBusyStore
    BY <1>2, SetBusyTakes
  <1>3. CASE PollNext
    BY <1>3, PollFinishes
  <1>4. ASSUME NEW w \in Slots, Fork(w) PROVE Jobs!Next
    BY <1>4, ForkBegins
  <1>5. ASSUME NEW w \in Slots, ChildEnds(w) PROVE Jobs!Next
    BY <1>5, ChildEndsEnds
  <1>6. ASSUME NEW w \in Slots, LogError(w) PROVE [Jobs!Next]_(Jobs!vars)
    BY <1>6, LogReports
  <1>7. ASSUME NEW w \in Slots, ClearBusyStore(w) PROVE Jobs!Next
    BY <1>7, ClearBusyCloses
  <1>8. CASE Quiet
    BY <1>8, QuietStutters
  <1>9. CASE UNCHANGED vars
    <2>1. Phase' = Phase /\ Over' = Over
      BY <1>9 DEF vars, mainVars, slotVars, jobVars, Phase, PhaseOf, Handed, HandedCount,
         Owing, Over
    <2> QED
      BY <1>9, <2>1, Stutters DEF vars, jobVars
  <1> QED
    BY <1>1, <1>2, <1>3, <1>4, <1>5, <1>6, <1>7, <1>8, <1>9 DEF Next, Main, Worker, Quiet

\* The threaded worker program implements the job runner: lines are taken in
\* order, at most Count at a time, each run once, reported only if it failed,
\* and the run is over only when every line is closed.
THEOREM Implementation == Spec => ImplementsJobRunner
  <1>1. TypeOK /\ IInv /\ TypeOK' /\ IInv' /\ [Next]_vars => [Jobs!Next]_(Jobs!vars)
    BY StepRefines
  <1> QED
    BY <1>1, InitRefines, Invariance, PTL DEF Spec, ImplementsJobRunner, Jobs!Spec
=============================================================================
