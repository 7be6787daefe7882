--------------------------- MODULE WorkerNewProofs ---------------------------
(***************************************************************************)
(* Theorems about the thread pool of worker/new, for any number of         *)
(* threads, lines and process numbers: its types, that no item is          *)
(* cancelled, and that the program implements JobRunner.                   *)
(***************************************************************************)
EXTENDS WorkerNewProps, FiniteSetTheorems, TLAPS

USE CountAssumption, NLinesAssumption, OptionAssumption, OutcomesAssumption
DEF Slots, Lines

-----------------------------------------------------------------------------
LEMMA SomePid == (CHOOSE p \in Pids : TRUE) \in Pids
  <1>1. Pids # {}
    BY PidsAssumption, FS_EmptySet
  <1> QED
    BY <1>1

ProcessTable == [Pids -> [state : {"none", "running"} \cup Outcomes, line : 0 .. NLines]]

LEMMA TypeInit == Init => TypeOK
  <1> SUFFICES ASSUME Init PROVE TypeOK
    OBVIOUS
  <1> USE DEF Init
  <1>1. mpc \in MainPCs /\ x \in Slots /\ taken \in 0 .. NLines
    BY DEF MainPCs
  <1>8. busy \in BOOLEAN
    OBVIOUS
  <1>2. wpc \in [Slots -> WorkerPCs]
    BY DEF WorkerPCs
  <1>3. /\ mutex \in [Slots -> {"free", "main", "worker", "destroyed"}]
        /\ flags \in [Slots -> SUBSET {"BUSY", "DONE"}]
        /\ item \in [Slots -> 0 .. NLines]
    BY DEF NoLine
  <1>4. cancel \subseteq Slots /\ freed \in BOOLEAN /\ proc \in {"up", "exited", "crashed"}
    OBVIOUS
  <1>5. pid \in [Slots -> Pids]
    BY SomePid
  <1>6. process \in ProcessTable
    BY DEF ProcessTable, NoProcess, NoLine
  <1>7. /\ outcome \in [Lines -> {"none"} \cup Outcomes]
        /\ errors \in [Lines -> Nat] /\ lost \subseteq Lines
    OBVIOUS
  <1> QED
    BY <1>1, <1>2, <1>3, <1>4, <1>5, <1>6, <1>7, <1>8 DEF TypeOK, ProcessTable

\* A loop over the slots stays within them.
LEMMA NextRoundStays ==
  ASSUME x \in Slots, NEW again, NEW done, NextRound(again, done)
  PROVE  x' \in Slots /\ mpc' \in {again, done}
  BY DEF NextRound

\* A process that changes its state only.
LEMMA StateTyped ==
  ASSUME process \in ProcessTable, NEW p \in Pids, NEW st \in {"none", "running"} \cup Outcomes,
         process' = [process EXCEPT ![p].state = st]
  PROVE  /\ process' \in ProcessTable
         /\ process'[p].state = st /\ process'[p].line = process[p].line
         /\ \A q \in Pids \ {p} : process'[q] = process[q]
  BY DEF ProcessTable

\* LogError alone needs more than the types: the item of a slot that works is a line.
LEMMA TypeNext == TypeOK /\ IInv /\ [Next]_vars => TypeOK'
  <1> SUFFICES ASSUME TypeOK, IInv, [Next]_vars PROVE TypeOK'
    OBVIOUS
  <1> USE DEF mainVars, slotVars, childVars, fileVars, Lock, Unlock, Exit
  <1>1. CASE Open
    BY <1>1 DEF TypeOK, Open, MainPCs
  <1>2. CASE CreateThread
    <2>1. x \in Slots /\ mpc \in MainPCs /\ wpc \in [Slots -> WorkerPCs]
      BY DEF TypeOK
    <2>2. x' \in Slots /\ mpc' \in MainPCs
      BY <1>2, <2>1, NextRoundStays DEF CreateThread, MainPCs
    <2>3. wpc' \in [Slots -> WorkerPCs]
      BY <1>2, <2>1 DEF CreateThread, WorkerPCs
    <2> QED
      BY <1>2, <2>2, <2>3 DEF TypeOK, CreateThread
  <1>3. CASE ReadLine
    BY <1>3 DEF TypeOK, ReadLine, MainPCs
  <1>4. CASE LockSlot
    BY <1>4 DEF TypeOK, LockSlot, MainPCs
  <1>5. CASE PutItem
    <2>1. x \in Slots /\ mpc \in MainPCs /\ taken \in 0 .. NLines
      BY DEF TypeOK
    <2>2. x' \in Slots /\ mpc' \in MainPCs
      BY <1>5, <2>1, NextRoundStays DEF PutItem, MainPCs
    <2>3. flags' \in [Slots -> SUBSET {"BUSY", "DONE"}]
      <3>1. flags' = flags \/ flags' = [flags EXCEPT ![x] = @ \cup {"BUSY"}]
        BY <1>5 DEF PutItem
      <3>2. flags \in [Slots -> SUBSET {"BUSY", "DONE"}]
        BY DEF TypeOK
      <3>3. flags[x] \cup {"BUSY"} \in SUBSET {"BUSY", "DONE"}
        BY <2>1, <3>2
      <3> QED
        BY ONLY <3>1, <3>2, <3>3
    <2>4. item' \in [Slots -> 0 .. NLines]
      <3>1. item' = item \/ item' = [item EXCEPT ![x] = taken]
        BY <1>5 DEF PutItem
      <3> QED
        BY <2>1, <3>1 DEF TypeOK
    <2>5. mutex' \in [Slots -> {"free", "main", "worker", "destroyed"}]
      BY <1>5 DEF PutItem, TypeOK
    <2> QED
      BY <1>5, <2>2, <2>3, <2>4, <2>5 DEF TypeOK, PutItem
  <1>6. CASE MarkDone
    BY <1>6 DEF TypeOK, MarkDone, MainPCs
  <1>7. CASE Marked
    <2>1. x' \in Slots /\ mpc' \in MainPCs
      BY <1>7, NextRoundStays DEF TypeOK, Marked, MainPCs
    <2> QED
      BY <1>7, <2>1 DEF TypeOK, Marked
  <1>8. CASE PollSlot
    BY <1>8 DEF TypeOK, PollSlot, MainPCs
  <1>9. CASE Polled
    <2>1. x' \in Slots /\ mpc' \in MainPCs
      BY <1>9, NextRoundStays DEF TypeOK, Polled, MainPCs
    <2> QED
      BY <1>9, <2>1 DEF TypeOK, Polled
  <1>10. CASE CancelThread
    <2>1. x' \in Slots /\ mpc' \in MainPCs
      BY <1>10, NextRoundStays DEF TypeOK, CancelThread, MainPCs
    <2> QED
      BY <1>10, <2>1 DEF TypeOK, CancelThread
  <1>11. CASE DestroyMutex
    <2>1. x' \in Slots /\ mpc' \in MainPCs
      BY <1>11, NextRoundStays DEF TypeOK, DestroyMutex, MainPCs
    <2> QED
      BY <1>11, <2>1 DEF TypeOK, DestroyMutex
  <1>12. CASE FreePool
    BY <1>12 DEF TypeOK, FreePool, MainPCs
  <1>13. CASE Return
    BY <1>13 DEF TypeOK, Return
  <1>14. ASSUME NEW s \in Slots, LockOwn(s) PROVE TypeOK'
    BY <1>14 DEF TypeOK, LockOwn, WorkerPCs
  <1>15. ASSUME NEW s \in Slots, Skip(s) PROVE TypeOK'
    BY <1>15 DEF TypeOK, Skip, WorkerPCs
  <1>16. ASSUME NEW s \in Slots, TouchDestroyed(s) PROVE TypeOK'
    BY <1>16 DEF TypeOK, TouchDestroyed, WorkerPCs
  <1>17. ASSUME NEW s \in Slots, Fork(s) PROVE TypeOK'
    <2>1. CASE UNCHANGED <<pid, process, wpc>>
      BY <1>17, <2>1 DEF TypeOK, Fork
    <2>2. ASSUME NEW p \in Pids, pid' = [pid EXCEPT ![s] = p],
                 process' = [process EXCEPT ![p] = [state |-> "running", line |-> item[s]]],
                 wpc' = [wpc EXCEPT ![s] = "wait"]
          PROVE  TypeOK'
      <3>1. process' \in ProcessTable
        <4>1. item[s] \in 0 .. NLines
          BY DEF TypeOK
        <4>2. [state |-> "running", line |-> item[s]]
                \in [state : {"none", "running"} \cup Outcomes, line : 0 .. NLines]
          BY <4>1
        <4> QED
          BY <2>2, <4>2 DEF TypeOK, ProcessTable
      <3>2. pid' \in [Slots -> Pids] /\ wpc' \in [Slots -> WorkerPCs]
        BY <2>2 DEF TypeOK, WorkerPCs
      <3> QED
        BY <1>17, <3>1, <3>2 DEF TypeOK, Fork, ProcessTable
    <2> QED
      BY <1>17, <2>1, <2>2 DEF Fork, FreePids
  <1>18. ASSUME NEW s \in Slots, Wait(s) PROVE TypeOK'
    <2>1. process' \in ProcessTable
      BY <1>18 DEF TypeOK, Wait, ProcessTable, NoProcess, NoLine
    <2> QED
      BY <1>18, <2>1 DEF TypeOK, Wait, WorkerPCs, ProcessTable
  <1>19. ASSUME NEW s \in Slots, KillReaped(s) PROVE TypeOK'
    <2>1. wpc' \in [Slots -> WorkerPCs]
      BY <1>19 DEF TypeOK, KillReaped, WorkerPCs, AfterKill
    <2>2. pid[s] \in Pids
      BY DEF TypeOK
    <2>3. process' \in ProcessTable
      BY <1>19, <2>2, StateTyped DEF TypeOK, KillReaped, ProcessTable
    <2>4. outcome' \in [Lines -> {"none"} \cup Outcomes]
      BY <1>19 DEF TypeOK, KillReaped
    <2> QED
      BY <1>19, <2>1, <2>3, <2>4 DEF TypeOK, KillReaped, ProcessTable
  <1>20. ASSUME NEW s \in Slots, LogError(s) PROVE TypeOK'
    <2>1. item[s] \in Lines
      BY <1>20 DEF LogError, InItem, IInv, FlagInv, SlotInv, LineInv, ItemInv, Handed
    <2>2. errors' \in [Lines -> Nat]
      <3>1. errors' = errors \/ errors' = [errors EXCEPT ![item[s]] = @ + 1]
        BY <1>20 DEF LogError
      <3>2. errors \in [Lines -> Nat]
        BY DEF TypeOK
      <3> QED
        BY ONLY <2>1, <3>1, <3>2
    <2>3. lost' \subseteq Lines
      BY <1>20, <2>1 DEF TypeOK, LogError
    <2>4. wpc' \in [Slots -> WorkerPCs]
      BY <1>20 DEF TypeOK, LogError, WorkerPCs
    <2> QED
      BY <1>20, <2>2, <2>3, <2>4 DEF TypeOK, LogError
  <1>21. ASSUME NEW s \in Slots, ClearBusy(s) PROVE TypeOK'
    BY <1>21 DEF TypeOK, ClearBusy, WorkerPCs
  <1>22. ASSUME NEW p \in Pids, ChildEnds(p) PROVE TypeOK'
    <2>1. process' \in ProcessTable
      BY <1>22, StateTyped DEF TypeOK, ChildEnds, ProcessTable
    <2>2. outcome' \in [Lines -> {"none"} \cup Outcomes]
      BY <1>22 DEF TypeOK, ChildEnds
    <2> QED
      BY <1>22, <2>1, <2>2 DEF TypeOK, ChildEnds, ProcessTable
  <1>23. CASE UNCHANGED vars
    BY <1>23 DEF TypeOK, vars
  <1> QED
    BY <1>1, <1>2, <1>3, <1>4, <1>5, <1>6, <1>7, <1>8, <1>9, <1>10, <1>11, <1>12, <1>13,
       <1>14, <1>15, <1>16, <1>17, <1>18, <1>19, <1>20, <1>21, <1>22, <1>23
    DEF Next, Main, Worker

-----------------------------------------------------------------------------
LEMMA LockInit == Init => LockInv
  BY DEF Init, LockInv, MainHolds, WorkerHolds, Destroyed, InItem

LEMMA LockNext == TypeOK /\ LockInv /\ FlagInv /\ [Next]_vars => LockInv'
  <1> SUFFICES ASSUME TypeOK, LockInv, FlagInv, [Next]_vars PROVE LockInv'
    OBVIOUS
  <1> USE DEF mainVars, slotVars, childVars, fileVars, Lock, Unlock, Exit,
          LockInv, MainHolds, WorkerHolds, Destroyed, InItem
  <1>1. CASE Open
    BY <1>1 DEF TypeOK, Open
  <1>2. CASE CreateThread
    <2>1. x \in Slots /\ x' \in Slots /\ (mpc' = mpc \/ mpc' \in {"init", "read"})
      BY <1>2, NextRoundStays DEF TypeOK, CreateThread
    <2>2. \A s \in Slots : wpc'[s] # wpc[s] => wpc[s] = "none" /\ wpc'[s] = "lock"
      BY <1>2, <2>1 DEF TypeOK, CreateThread, FlagInv, SlotInv, Created
    <2> QED
      BY <1>2, <2>1, <2>2 DEF TypeOK, CreateThread
  <1>3. CASE ReadLine
    BY <1>3 DEF TypeOK, ReadLine
  <1>4. CASE LockSlot
    BY <1>4 DEF TypeOK, LockSlot
  <1>5. CASE PutItem
    <2>1. x \in Slots /\ x' \in Slots /\ mpc' \in {"exec", "read"} /\ mutex' = [mutex EXCEPT ![x] = "free"]
      BY <1>5, NextRoundStays DEF TypeOK, PutItem
    <2>2. UNCHANGED wpc /\ mpc = "tested" /\ mutex[x] = "main"
      BY <1>5, <2>1 DEF PutItem
    <2> QED
      BY <2>1, <2>2 DEF TypeOK
  <1>6. CASE MarkDone
    BY <1>6 DEF TypeOK, MarkDone
  <1>7. CASE Marked
    <2>1. x \in Slots /\ x' \in Slots /\ mpc' \in {"mark", "poll"}
      BY <1>7, NextRoundStays DEF TypeOK, Marked
    <2> QED
      BY <1>7, <2>1 DEF TypeOK, Marked
  <1>8. CASE PollSlot
    BY <1>8 DEF TypeOK, PollSlot
  <1>9. CASE Polled
    <2>1. x \in Slots /\ x' \in Slots /\ mpc' \in {"poll", "cancel"}
      BY <1>9, NextRoundStays DEF TypeOK, Polled
    <2> QED
      BY <1>9, <2>1 DEF TypeOK, Polled
  <1>10. CASE CancelThread
    <2>1. x \in Slots /\ x' \in Slots /\ (mpc' = "cancel" \/ (mpc' = "destroy" /\ x' = 0))
      BY <1>10 DEF TypeOK, CancelThread, NextRound
    <2> QED
      BY <1>10, <2>1 DEF TypeOK, CancelThread
  <1>11. CASE DestroyMutex
    <2>1. x \in Slots /\ x' \in Slots
      BY <1>11, NextRoundStays DEF TypeOK, DestroyMutex
    <2>2. \/ mpc' = "destroy" /\ x' = x + 1
          \/ mpc' = "free" /\ x + 1 = Count
      BY <1>11, <2>1 DEF DestroyMutex, NextRound
    <2> QED
      BY <1>11, <2>1, <2>2 DEF TypeOK, DestroyMutex
  <1>12. CASE FreePool
    BY <1>12 DEF TypeOK, FreePool
  <1>13. CASE Return
    BY <1>13 DEF TypeOK, Return
  <1>14. ASSUME NEW w \in Slots, LockOwn(w) PROVE LockInv'
    BY <1>14 DEF TypeOK, LockOwn
  <1>15. ASSUME NEW w \in Slots, Skip(w) PROVE LockInv'
    BY <1>15 DEF TypeOK, Skip
  <1>16. ASSUME NEW w \in Slots, TouchDestroyed(w) PROVE LockInv'
    BY <1>16 DEF TypeOK, TouchDestroyed
  <1>17. ASSUME NEW w \in Slots, Fork(w) PROVE LockInv'
    BY <1>17 DEF TypeOK, Fork
  <1>18. ASSUME NEW w \in Slots, Wait(w) PROVE LockInv'
    BY <1>18 DEF TypeOK, Wait
  <1>19. ASSUME NEW w \in Slots, KillReaped(w) PROVE LockInv'
    BY <1>19 DEF TypeOK, KillReaped, AfterKill
  <1>20. ASSUME NEW w \in Slots, LogError(w) PROVE LockInv'
    BY <1>20 DEF TypeOK, LogError
  <1>21. ASSUME NEW w \in Slots, ClearBusy(w) PROVE LockInv'
    <2>1. ~Destroyed(w)
      BY <1>21 DEF ClearBusy, FlagInv, SlotInv, SeenIdle, Down
    <2> QED
      BY <1>21, <2>1 DEF TypeOK, ClearBusy
  <1>22. ASSUME NEW p \in Pids, ChildEnds(p) PROVE LockInv'
    BY <1>22 DEF ChildEnds
  <1>23. CASE UNCHANGED vars
    BY <1>23 DEF vars
  <1> QED
    BY <1>1, <1>2, <1>3, <1>4, <1>5, <1>6, <1>7, <1>8, <1>9, <1>10, <1>11, <1>12, <1>13,
       <1>14, <1>15, <1>16, <1>17, <1>18, <1>19, <1>20, <1>21, <1>22, <1>23
    DEF Next, Main, Worker

-----------------------------------------------------------------------------
LEMMA FlagInit == Init => FlagInv
  BY DEF Init, FlagInv, SlotInv, Created, ToldToEnd, SeenIdle, Down, IsBusy, InItem

LEMMA FlagNext == TypeOK /\ LockInv /\ FlagInv /\ [Next]_vars => FlagInv'
  <1> SUFFICES ASSUME TypeOK, LockInv, FlagInv, [Next]_vars PROVE FlagInv'
    OBVIOUS
  <1> USE DEF mainVars, slotVars, childVars, fileVars, Lock, Unlock, Exit,
          FlagInv, SlotInv, Created, ToldToEnd, SeenIdle, Down, IsBusy, InItem
  <1>1. CASE Open
    BY <1>1 DEF TypeOK, Open
  <1>2. CASE CreateThread
    <2>1. CASE proc' = "exited" /\ UNCHANGED <<wpc, x, mpc>>
      BY <1>2, <2>1 DEF CreateThread
    <2>2. CASE wpc' = [wpc EXCEPT ![x] = "lock"] /\ NextRound("init", "read")
      <3>1. x \in Slots
        BY DEF TypeOK
      <3>2. \/ mpc' = "init" /\ x' = x + 1
            \/ mpc' = "read" /\ x + 1 = Count
        BY <2>2, <3>1 DEF NextRound
      <3>3. mpc = "init" /\ UNCHANGED <<flags, cancel>> /\ wpc \in [Slots -> WorkerPCs]
        BY <1>2 DEF CreateThread, TypeOK
      <3>4. cancel' = {} /\ mpc' # "open"
        BY <3>2, <3>3
      <3>5. ASSUME NEW s \in Slots PROVE SlotInv(s)'
        <4>1. SlotInv(s) /\ s \in Int /\ x \in Int
          BY <3>1
        <4>2. wpc'[s] = IF s = x THEN "lock" ELSE wpc[s]
          BY <2>2, <3>3, <3>1
        <4> QED
          BY <3>2, <3>3, <4>1, <4>2
      <3> QED
        BY <3>4, <3>5
    <2> QED
      BY <1>2, <2>1, <2>2 DEF CreateThread
  <1>3. CASE ReadLine
    BY <1>3 DEF TypeOK, ReadLine
  <1>4. CASE LockSlot
    BY <1>4 DEF TypeOK, LockSlot
  <1>5. CASE PutItem
    <2>1. x \in Slots /\ mpc' \in {"exec", "read"} /\ mpc = "tested"
      BY <1>5, NextRoundStays DEF TypeOK, PutItem
    <2>2. mutex[x] = "main" /\ wpc[x] \notin InItem \cup {"skip", "none", "returned"}
      BY <2>1 DEF LockInv, MainHolds, WorkerHolds, Destroyed
    <2>3. UNCHANGED <<wpc, cancel>> /\ (flags' = flags \/ flags' = [flags EXCEPT ![x] = @ \cup {"BUSY"}])
      BY <1>5 DEF PutItem
    <2>4. flags \in [Slots -> SUBSET {"BUSY", "DONE"}]
      BY DEF TypeOK
    <2>5. ASSUME NEW s \in Slots
          PROVE  /\ "DONE" \in flags'[s] <=> "DONE" \in flags[s]
                 /\ "BUSY" \in flags[s] => "BUSY" \in flags'[s]
                 /\ s # x => flags'[s] = flags[s]
      BY ONLY <2>1, <2>3, <2>4, s \in Slots
    <2>6. cancel = {}
      BY <2>1
    <2>7. ASSUME NEW s \in Slots PROVE SlotInv(s)'
      BY <2>1, <2>2, <2>3, <2>5
    <2> QED
      BY <2>1, <2>3, <2>6, <2>7
  <1>6. CASE MarkDone
    BY <1>6 DEF TypeOK, MarkDone
  <1>7. CASE Marked
    <2>1. x \in Slots /\ mpc = "marked" /\ UNCHANGED <<wpc, flags, cancel>>
      BY <1>7 DEF TypeOK, Marked
    <2>2. \/ mpc' = "mark" /\ x' = x + 1
          \/ mpc' = "poll" /\ x' = 0 /\ x + 1 = Count
      BY <1>7, <2>1 DEF Marked, NextRound
    <2> QED
      BY <2>1, <2>2 DEF TypeOK
  <1>8. CASE PollSlot
    <2>1. x \in Slots /\ mpc = "poll" /\ mpc' = "polled" /\ UNCHANGED <<x, wpc, flags, cancel>>
      BY <1>8 DEF TypeOK, PollSlot
    <2>2. ~busy' => ~busy /\ ~IsBusy(x)
      BY <1>8 DEF PollSlot
    <2> QED
      BY <2>1, <2>2
  <1>9. CASE Polled
    <2>1. x \in Slots /\ mpc = "polled" /\ UNCHANGED <<wpc, flags, cancel>>
      BY <1>9 DEF TypeOK, Polled
    <2>2. \/ mpc' = "poll" /\ x' = x + 1 /\ (~busy' => ~busy)
          \/ mpc' = "poll" /\ x' = 0
          \/ mpc' = "cancel" /\ x + 1 = Count /\ ~busy
      <3>1. x + 1 < Count => mpc' = "poll" /\ x' = x + 1
        BY <1>9 DEF Polled, NextRound
      <3>2. x + 1 < Count => (busy' <=> busy)
        BY <1>9 DEF Polled
      <3>3. ~(x + 1 < Count) => x' = 0 /\ mpc' = IF busy THEN "poll" ELSE "cancel"
        BY <1>9 DEF Polled, NextRound
      <3>4. x + 1 < Count \/ x + 1 = Count
        BY <2>1
      <3> QED
        BY <3>1, <3>2, <3>3, <3>4
    <2> QED
      BY <2>1, <2>2 DEF TypeOK
  <1>10. CASE CancelThread
    BY <1>10, NextRoundStays DEF TypeOK, CancelThread
  <1>11. CASE DestroyMutex
    BY <1>11, NextRoundStays DEF TypeOK, DestroyMutex
  <1>12. CASE FreePool
    BY <1>12 DEF TypeOK, FreePool
  <1>13. CASE Return
    BY <1>13 DEF TypeOK, Return
  <1>14. ASSUME NEW w \in Slots, LockOwn(w) PROVE FlagInv'
    BY <1>14 DEF TypeOK, LockOwn
  <1>15. ASSUME NEW w \in Slots, Skip(w) PROVE FlagInv'
    BY <1>15 DEF TypeOK, Skip
  <1>16. ASSUME NEW w \in Slots, TouchDestroyed(w) PROVE FlagInv'
    BY <1>16 DEF TypeOK, TouchDestroyed, LockInv, Destroyed
  <1>17. ASSUME NEW w \in Slots, Fork(w) PROVE FlagInv'
    BY <1>17 DEF TypeOK, Fork
  <1>18. ASSUME NEW w \in Slots, Wait(w) PROVE FlagInv'
    BY <1>18 DEF TypeOK, Wait
  <1>19. ASSUME NEW w \in Slots, KillReaped(w) PROVE FlagInv'
    BY <1>19 DEF TypeOK, KillReaped, AfterKill
  <1>20. ASSUME NEW w \in Slots, LogError(w) PROVE FlagInv'
    BY <1>20 DEF TypeOK, LogError
  <1>21. ASSUME NEW w \in Slots, ClearBusy(w) PROVE FlagInv'
    BY <1>21 DEF TypeOK, ClearBusy
  <1>22. ASSUME NEW p \in Pids, ChildEnds(p) PROVE FlagInv'
    BY <1>22 DEF ChildEnds
  <1>23. CASE UNCHANGED vars
    BY <1>23 DEF vars
  <1> QED
    BY <1>1, <1>2, <1>3, <1>4, <1>5, <1>6, <1>7, <1>8, <1>9, <1>10, <1>11, <1>12, <1>13,
       <1>14, <1>15, <1>16, <1>17, <1>18, <1>19, <1>20, <1>21, <1>22, <1>23
    DEF Next, Main, Worker

-----------------------------------------------------------------------------
LEMMA LineInit == Init => LineInv
  <1> SUFFICES ASSUME Init PROVE LineInv
    OBVIOUS
  <1>1. ReadInv
    BY DEF Init, ReadInv, Finishing, Down
  <1>2. \A l \in Lines : Untouched(l)
    BY DEF Init, Untouched
  <1>3. \A s \in Slots : ~IsBusy(s)
    BY DEF Init, IsBusy
  <1>4. \A p \in Pids : process[p].state = "none"
    BY DEF Init, NoProcess
  <1> QED
    BY <1>1, <1>2, <1>3, <1>4 DEF LineInv

\* Main hands the lines over in order.
LEMMA ReadNext ==
  ASSUME TypeOK, FlagInv, ReadInv, [Next]_vars
  PROVE  ReadInv' /\ (Handed' = Handed \/ PutItem)
  <1> USE DEF mainVars, slotVars, childVars, fileVars,
          ReadInv, Handed, HandedCount, Finishing, Down, TypeOK
  <1>1. CASE Open \/ LockSlot \/ MarkDone \/ PollSlot \/ FreePool \/ Return
    <2>1. /\ UNCHANGED taken
          /\ <<mpc, mpc'>> \in {<<"open", "init">>, <<"open", "open">>, <<"exec", "tested">>,
                               <<"mark", "marked">>, <<"poll", "polled">>,
                               <<"free", "return">>, <<"return", "return">>}
      BY <1>1 DEF Open, LockSlot, MarkDone, PollSlot, FreePool, Return
    <2> QED
      BY <2>1
  <1>2. CASE CreateThread
    BY <1>2, NextRoundStays DEF CreateThread
  <1>3. CASE ReadLine
    <2>1. CASE taken < NLines /\ taken' = taken + 1 /\ mpc' = "exec"
      BY <1>3, <2>1 DEF ReadLine
    <2>2. CASE taken = NLines /\ mpc' = "mark" /\ UNCHANGED taken
      BY <1>3, <2>2 DEF ReadLine
    <2> QED
      BY <1>3, <2>1, <2>2 DEF ReadLine
  <1>4. CASE PutItem
    <2>1. mpc = "tested" /\ mpc' \in {"exec", "read"} /\ UNCHANGED taken
      BY <1>4, NextRoundStays DEF PutItem
    <2> QED
      BY <1>4, <2>1
  <1>5. CASE Marked \/ Polled \/ CancelThread \/ DestroyMutex
    <2>1. mpc \in {"marked", "polled", "cancel", "destroy"} /\ UNCHANGED taken /\ busy \in BOOLEAN
      BY <1>5 DEF Marked, Polled, CancelThread, DestroyMutex
    <2>2. mpc' \in {"mark", "poll", "cancel", "destroy", "free"}
      BY <1>5, NextRoundStays DEF Marked, Polled, CancelThread, DestroyMutex
    <2> QED
      BY <2>1, <2>2
  <1>6. CASE UNCHANGED mainVars
    BY <1>6
  <1>7. ASSUME NEW s \in Slots, Worker(s) PROVE UNCHANGED mainVars
    BY <1>7 DEF Worker, LockOwn, Skip, TouchDestroyed, Fork, Wait, KillReaped, LogError, ClearBusy
  <1>8. ASSUME NEW p \in Pids, ChildEnds(p) PROVE UNCHANGED mainVars
    BY <1>8 DEF ChildEnds
  <1> QED
    BY <1>1, <1>2, <1>3, <1>4, <1>5, <1>6, <1>7, <1>8 DEF Next, Main, vars

\* A step that neither hands over, nor ends, nor runs anything.
LEMMA Quiet ==
  ASSUME LineInv, ReadInv', Handed' = Handed,
         UNCHANGED <<item, pid, process, outcome, errors>>,
         \A s \in Slots : /\ IsBusy(s)' => IsBusy(s)
                          /\ wpc'[s] = "wait" <=> wpc[s] = "wait"
                          /\ \/ ~IsBusy(s)'
                             \/ wpc'[s] = wpc[s]
                             \/ wpc[s] = "lock" /\ wpc'[s] = "func"
  PROVE  LineInv'
  <1>1. \A l \in Lines \ Handed' : Untouched(l)'
    BY DEF LineInv, Untouched
  <1>2. ASSUME NEW s \in Slots, IsBusy(s)' PROVE ItemInv(s)'
    <2>1. ItemInv(s)
      BY <1>2 DEF LineInv
    <2>2. item'[s] \in Handed' /\ \A t \in Slots \ {s} : IsBusy(t)' => item'[t] # item'[s]
      BY <2>1 DEF ItemInv
    <2>3. Stage(s, item[s])'
      BY <1>2, <2>1 DEF ItemInv, Stage, Untouched
    <2> QED
      BY <2>2, <2>3 DEF ItemInv
  <1>3. ASSUME NEW p \in Pids, process'[p].state # "none" PROVE HasOwner(p)'
    BY <1>3 DEF LineInv, HasOwner
  <1> QED
    BY <1>1, <1>2, <1>3 DEF LineInv

\* What a thread that works on an item may rely on.
LEMMA AtWork ==
  ASSUME FlagInv, LineInv, NEW s \in Slots, wpc[s] \in InItem
  PROVE  IsBusy(s) /\ ItemInv(s) /\ item[s] \in Lines
  BY DEF FlagInv, SlotInv, LineInv, ItemInv, Handed

\* A process that has not been waited for belongs to the one thread that will.
LEMMA OwnerOf ==
  ASSUME FlagInv, LineInv, NEW p \in Pids, process[p].state # "none"
  PROVE  \E s \in Slots : /\ wpc[s] = "wait" /\ pid[s] = p /\ IsBusy(s) /\ ItemInv(s)
                          /\ process[p].line = item[s] /\ item[s] \in Lines
  <1>1. PICK s \in Slots : wpc[s] = "wait" /\ pid[s] = p
    BY DEF LineInv, HasOwner
  <1>2. IsBusy(s) /\ ItemInv(s) /\ item[s] \in Lines
    BY <1>1, AtWork DEF InItem
  <1>3. process[p].line = item[s]
    BY <1>1, <1>2 DEF ItemInv, Stage
  <1> QED
    BY <1>1, <1>2, <1>3

\* A process ends of itself, or is killed by a thread w that has reaped its
\* own child and was given the number.
LEMMA ProcessEnds ==
  ASSUME TypeOK, FlagInv, LineInv, ReadInv', Handed' = Handed,
         NEW p \in Pids, NEW o \in Outcomes, process[p].state = "running",
         process' = [process EXCEPT ![p].state = o],
         outcome' = [outcome EXCEPT ![process[p].line] = o],
         UNCHANGED <<flags, item, pid, errors>>,
         \A s \in Slots : \/ wpc'[s] = wpc[s]
                          \/ wpc[s] = "kill" /\ wpc'[s] = AfterKill(s)
  PROVE  LineInv'
  <1>1. PICK w \in Slots : /\ wpc[w] = "wait" /\ pid[w] = p /\ IsBusy(w) /\ ItemInv(w)
                           /\ process[p].line = item[w] /\ item[w] \in Lines
    BY OwnerOf
  <1>2. o \notin {"none", "running"} /\ wpc'[w] = "wait"
    BY <1>1
  <1>3. \A l \in Lines : outcome'[l] = IF l = item[w] THEN o ELSE outcome[l]
    BY <1>1 DEF TypeOK
  <1>4. \A q \in Pids : /\ process'[q].line = process[q].line
                        /\ process'[q].state = IF q = p THEN o ELSE process[q].state
    <2>1. process \in ProcessTable
      BY DEF TypeOK, ProcessTable
    <2>2. o \in {"none", "running"} \cup Outcomes
      OBVIOUS
    <2>3. /\ process'[p].state = o /\ process'[p].line = process[p].line
          /\ \A q \in Pids \ {p} : process'[q] = process[q]
      BY <2>1, <2>2, StateTyped
    <2> QED
      BY <2>3
  <1>5. \A l \in Lines \ Handed' : Untouched(l)'
    <2>1. item[w] \in Handed
      BY <1>1 DEF ItemInv
    <2> QED
      BY <1>3, <2>1 DEF LineInv, Untouched
  <1>6. ASSUME NEW s \in Slots, IsBusy(s)' PROVE ItemInv(s)'
    <2>1. IsBusy(s) /\ ItemInv(s) /\ item[s] \in Lines /\ pid[s] \in Pids
      BY <1>6 DEF IsBusy, LineInv, ItemInv, Handed, TypeOK
    <2>2. item'[s] \in Handed' /\ \A t \in Slots \ {s} : IsBusy(t)' => item'[t] # item'[s]
      BY <2>1 DEF ItemInv, IsBusy
    <2>3. CASE s = w
      <3>1. errors[item[s]] = 0 /\ \A t \in Slots \ {s} : wpc[t] = "wait" => pid[t] # pid[s]
        BY <1>1, <2>1, <2>3 DEF ItemInv, Stage
      <3>2. \A t \in Slots : wpc'[t] = "wait" => wpc[t] = "wait"
        BY DEF AfterKill
      <3>3. Stage(s, item[s])'
        BY <1>1, <1>2, <1>3, <1>4, <2>3, <3>1, <3>2 DEF Stage
      <3> QED
        BY <2>2, <3>3 DEF ItemInv
    <2>4. CASE s # w
      <3>1. item[s] # item[w]
        BY <1>1, <2>1, <2>4 DEF ItemInv
      <3>2. outcome'[item[s]] = outcome[item[s]]
        BY <1>3, <2>1, <3>1
      <3>3. wpc[s] = "wait" => pid[s] # p
        BY <1>1, <2>4 DEF ItemInv, Stage
      <3>4. \A t \in Slots : wpc'[t] = "wait" => wpc[t] = "wait"
        BY DEF AfterKill
      <3>5. CASE wpc'[s] = wpc[s]
        <4>1. Stage(s, item[s])'
          BY <1>4, <2>1, <3>2, <3>3, <3>4, <3>5 DEF ItemInv, Stage, Untouched
        <4> QED
          BY <2>2, <4>1 DEF ItemInv
      <3>6. CASE wpc[s] = "kill" /\ wpc'[s] = AfterKill(s)
        <4>1. Stage(s, item[s])'
          BY <2>1, <3>2, <3>6 DEF ItemInv, Stage, AfterKill, Failed
        <4> QED
          BY <2>2, <4>1 DEF ItemInv
      <3> QED
        BY <3>5, <3>6
    <2> QED
      BY <2>3, <2>4
  <1>7. ASSUME NEW q \in Pids, process'[q].state # "none" PROVE HasOwner(q)'
    <2>1. process[q].state # "none"
      BY <1>4, <1>7
    <2>2. PICK t \in Slots : wpc[t] = "wait" /\ pid[t] = q
      BY <2>1 DEF LineInv, HasOwner
    <2>3. wpc'[t] = "wait" /\ pid'[t] = q
      BY <2>2
    <2> QED
      BY <2>3 DEF HasOwner
  <1> QED
    BY <1>5, <1>6, <1>7 DEF LineInv

\* The slot that takes the line in main's hands: its thread idles.
LEMMA PutItemKeepsLines ==
  ASSUME TypeOK, LockInv, FlagInv, LineInv, ReadInv', PutItem
  PROVE  LineInv'
  <1> USE DEF mainVars, slotVars, childVars, fileVars
  <1>1. x \in Slots /\ mpc = "tested" /\ taken \in Lines
    BY DEF PutItem, TypeOK, LineInv, ReadInv
  <1>2. UNCHANGED <<wpc, taken, pid, process, outcome, errors>>
    BY DEF PutItem
  <1>3. CASE mpc' = "exec" /\ UNCHANGED <<item, flags>>
    <2>1. Handed' = Handed
      BY <1>1, <1>2, <1>3 DEF Handed, HandedCount
    <2> QED
      BY <1>2, <1>3, <2>1, Quiet DEF IsBusy
  <1>4. CASE /\ "BUSY" \notin flags[x]
             /\ item' = [item EXCEPT ![x] = taken]
             /\ flags' = [flags EXCEPT ![x] = @ \cup {"BUSY"}]
             /\ mpc' = "read"
    <2>1. Handed' = Handed \cup {taken} /\ taken \notin Handed
      BY <1>1, <1>2, <1>4 DEF Handed, HandedCount
    <2>2. \A s \in Slots : /\ item'[s] = IF s = x THEN taken ELSE item[s]
                           /\ IsBusy(s)' <=> (s = x \/ IsBusy(s))
      BY <1>1, <1>4 DEF TypeOK, IsBusy
    <2>3. wpc[x] = "lock"
      <3>1. SlotInv(x) /\ ~IsBusy(x)
        BY <1>1, <1>4 DEF FlagInv, IsBusy
      <3>2. wpc[x] \notin {"none", "returned"} \cup InItem
        BY <1>1, <3>1 DEF SlotInv, Created, ToldToEnd, Down
      <3>3. wpc[x] # "skip"
        BY <1>1 DEF LockInv, MainHolds, WorkerHolds, Destroyed
      <3> QED
        BY <1>1, <3>2, <3>3 DEF TypeOK, WorkerPCs, InItem
    <2>4. Untouched(taken)
      BY <1>1, <2>1 DEF LineInv
    <2>5. \A l \in Lines \ Handed' : Untouched(l)'
      BY <1>2, <2>1 DEF LineInv, Untouched
    <2>6. ASSUME NEW s \in Slots, IsBusy(s)' PROVE ItemInv(s)'
      <3>1. CASE s = x
        <4>1. Stage(s, item[s])'
          BY <1>1, <1>2, <2>2, <2>3, <2>4, <3>1 DEF Stage, Untouched
        <4>2. \A t \in Slots \ {s} : IsBusy(t)' => item'[t] # taken
          BY <2>1, <2>2, <3>1 DEF LineInv, ItemInv
        <4> QED
          BY <2>1, <2>2, <3>1, <4>1, <4>2 DEF ItemInv
      <3>2. CASE s # x
        <4>1. IsBusy(s) /\ ItemInv(s) /\ item'[s] = item[s]
          BY <2>2, <2>6, <3>2 DEF LineInv
        <4>2. Stage(s, item[s])'
          BY <1>2, <4>1 DEF ItemInv, Stage, Untouched
        <4>3. item'[s] \in Handed' /\ item'[s] # taken
          BY <2>1, <4>1 DEF ItemInv
        <4> QED
          BY <2>2, <4>1, <4>2, <4>3 DEF ItemInv
      <3> QED
        BY <3>1, <3>2
    <2>7. \A q \in Pids : process'[q].state # "none" => HasOwner(q)'
      BY <1>2 DEF LineInv, HasOwner
    <2> QED
      BY <2>5, <2>6, <2>7 DEF LineInv
  <1>5. mpc' = "exec" \/ mpc' = "read"
    BY NextRoundStays, <1>1 DEF PutItem
  <1> QED
    BY <1>1, <1>3, <1>4, NextRoundStays DEF PutItem

LEMMA ForkKeepsLines ==
  ASSUME TypeOK, FlagInv, LineInv, ReadInv', Handed' = Handed, NEW w \in Slots, Fork(w)
  PROVE  LineInv'
  <1> USE DEF mainVars, slotVars
  <1>1. wpc[w] = "func" /\ UNCHANGED <<flags, item, outcome, errors>>
    BY DEF Fork, fileVars
  <1>2. IsBusy(w) /\ ItemInv(w) /\ item[w] \in Lines
    BY <1>1, AtWork DEF InItem
  <1>3. CASE UNCHANGED <<pid, process, wpc>>
    BY <1>1, <1>3, Quiet DEF IsBusy
  <1>4. ASSUME NEW p \in FreePids, pid' = [pid EXCEPT ![w] = p],
               process' = [process EXCEPT ![p] = [state |-> "running", line |-> item[w]]],
               wpc' = [wpc EXCEPT ![w] = "wait"]
        PROVE  LineInv'
    <2>1. p \in Pids /\ process[p].state = "none"
      BY DEF FreePids
    <2>2. \A s \in Slots : /\ pid'[s] = IF s = w THEN p ELSE pid[s]
                           /\ wpc'[s] = IF s = w THEN "wait" ELSE wpc[s]
                           /\ pid[s] \in Pids
      BY <1>4 DEF TypeOK
    <2>3. \A q \in Pids : process'[q] = IF q = p THEN [state |-> "running", line |-> item[w]]
                                        ELSE process[q]
      BY <1>4, <2>1 DEF TypeOK
    <2>4. \A s \in Slots : wpc[s] = "wait" => pid[s] # p
      BY <2>1, AtWork DEF ItemInv, Stage, InItem
    <2>5. \A l \in Lines \ Handed' : Untouched(l)'
      BY <1>1 DEF LineInv, Untouched
    <2>6. ASSUME NEW s \in Slots, IsBusy(s)' PROVE ItemInv(s)'
      <3>1. IsBusy(s) /\ ItemInv(s)
        BY <1>1, <2>6 DEF IsBusy, LineInv
      <3>2. item'[s] \in Handed' /\ \A t \in Slots \ {s} : IsBusy(t)' => item'[t] # item'[s]
        BY <1>1, <3>1 DEF ItemInv, IsBusy
      <3>3. CASE s = w
        <4>1. Untouched(item[w])
          BY <1>1, <1>2 DEF ItemInv, Stage
        <4>2. Stage(w, item[w])'
          BY <1>1, <2>1, <2>2, <2>3, <2>4, <4>1 DEF Stage, Untouched
        <4> QED
          BY <3>2, <3>3, <4>2 DEF ItemInv
      <3>4. CASE s # w
        <4>1. wpc[s] = "wait" => process'[pid[s]] = process[pid[s]]
          BY <2>2, <2>3, <2>4
        <4>2. \A t \in Slots \ {s} : wpc[s] = "wait" /\ wpc'[t] = "wait" => pid'[t] # pid[s]
          BY <2>2, <2>4, <3>1 DEF ItemInv, Stage
        <4>3. Stage(s, item[s])'
          BY <1>1, <2>2, <3>1, <3>4, <4>1, <4>2 DEF ItemInv, Stage, Untouched
        <4> QED
          BY <3>2, <4>3 DEF ItemInv
      <3> QED
        BY <3>3, <3>4
    <2>7. ASSUME NEW q \in Pids, process'[q].state # "none" PROVE HasOwner(q)'
      <3>1. CASE q = p
        BY <2>2, <3>1 DEF HasOwner
      <3>2. CASE q # p
        <4>1. PICK t \in Slots : wpc[t] = "wait" /\ pid[t] = q
          BY <2>3, <2>7, <3>2 DEF LineInv, HasOwner
        <4> QED
          BY <1>1, <2>2, <4>1 DEF HasOwner
      <3> QED
        BY <3>1, <3>2
    <2> QED
      BY <2>5, <2>6, <2>7 DEF LineInv
  <1> QED
    BY <1>3, <1>4 DEF Fork

LEMMA WaitKeepsLines ==
  ASSUME TypeOK, FlagInv, LineInv, ReadInv', Handed' = Handed, NEW w \in Slots, Wait(w)
  PROVE  LineInv'
  <1>1. wpc[w] = "wait" /\ UNCHANGED <<flags, item, pid, outcome, errors>>
    BY DEF Wait, mainVars, slotVars, fileVars
  <1>2. IsBusy(w) /\ ItemInv(w) /\ item[w] \in Lines /\ pid[w] \in Pids
    BY <1>1, AtWork DEF InItem, TypeOK
  <1>3. \A s \in Slots : /\ wpc'[s] = IF s = w THEN "kill" ELSE wpc[s]
                         /\ pid[s] \in Pids
    BY DEF Wait, TypeOK
  <1>4. \A q \in Pids : process'[q] = IF q = pid[w] THEN NoProcess ELSE process[q]
    BY <1>2 DEF Wait, TypeOK
  <1>5. \A l \in Lines \ Handed' : Untouched(l)'
    BY <1>1 DEF LineInv, Untouched
  <1>6. ASSUME NEW s \in Slots, IsBusy(s)' PROVE ItemInv(s)'
    <2>1. IsBusy(s) /\ ItemInv(s)
      BY <1>1, <1>6 DEF IsBusy, LineInv
    <2>2. item'[s] \in Handed' /\ \A t \in Slots \ {s} : IsBusy(t)' => item'[t] # item'[s]
      BY <1>1, <2>1 DEF ItemInv, IsBusy
    <2>3. CASE s = w
      <3>1. process[pid[w]].state # "running"
        BY DEF Wait
      <3>2. outcome[item[w]] # "none" /\ errors[item[w]] = 0
        BY <1>1, <1>2, <3>1 DEF ItemInv, Stage
      <3>3. Stage(w, item[w])'
        BY <1>1, <1>3, <3>2 DEF Stage
      <3> QED
        BY <2>2, <2>3, <3>3 DEF ItemInv
    <2>4. CASE s # w
      <3>1. wpc[s] = "wait" => process'[pid[s]] = process[pid[s]]
        BY <1>1, <1>2, <1>3, <1>4, <2>4 DEF ItemInv, Stage
      <3>2. \A t \in Slots : wpc'[t] = "wait" => wpc[t] = "wait"
        BY <1>3
      <3>3. Stage(s, item[s])'
        BY <1>1, <1>3, <2>1, <2>4, <3>1, <3>2 DEF ItemInv, Stage, Untouched
      <3> QED
        BY <2>2, <3>3 DEF ItemInv
    <2> QED
      BY <2>3, <2>4
  <1>7. ASSUME NEW q \in Pids, process'[q].state # "none" PROVE HasOwner(q)'
    <2>1. q # pid[w] /\ process[q].state # "none"
      BY <1>4, <1>7 DEF NoProcess
    <2>2. PICK t \in Slots : wpc[t] = "wait" /\ pid[t] = q
      BY <2>1 DEF LineInv, HasOwner
    <2> QED
      BY <1>1, <1>3, <2>1, <2>2 DEF HasOwner
  <1> QED
    BY <1>5, <1>6, <1>7 DEF LineInv

LEMMA KillReapedKeepsLines ==
  ASSUME TypeOK, FlagInv, LineInv, ReadInv', Handed' = Handed, NEW w \in Slots, KillReaped(w)
  PROVE  LineInv'
  <1>1. wpc[w] = "kill" /\ UNCHANGED <<flags, item, pid, errors>>
    BY DEF KillReaped, mainVars, slotVars, fileVars
  <1>2. wpc \in [Slots -> WorkerPCs] /\ wpc' = [wpc EXCEPT ![w] = AfterKill(w)]
    BY DEF KillReaped, TypeOK
  <1>3. \A s \in Slots : wpc'[s] = IF s = w THEN AfterKill(w) ELSE wpc[s]
    BY <1>2
  <1>4. IsBusy(w) /\ ItemInv(w)
    BY <1>1, AtWork DEF InItem
  <1>5. CASE UNCHANGED <<process, outcome>>
    <2>1. \A l \in Lines \ Handed' : Untouched(l)'
      BY <1>1, <1>5 DEF LineInv, Untouched
    <2>2. \A s \in Slots : (wpc'[s] = "wait" <=> wpc[s] = "wait")
      BY <1>1, <1>3 DEF AfterKill
    <2>3. ASSUME NEW s \in Slots, IsBusy(s)' PROVE ItemInv(s)'
      <3>1. IsBusy(s) /\ ItemInv(s)
        BY <1>1, <2>3 DEF IsBusy, LineInv
      <3>2. item'[s] \in Handed' /\ \A t \in Slots \ {s} : IsBusy(t)' => item'[t] # item'[s]
        BY <1>1, <3>1 DEF ItemInv, IsBusy
      <3>3. CASE s = w
        <4>1. Stage(w, item[w])'
          BY <1>1, <1>3, <1>4, <1>5 DEF ItemInv, Stage, AfterKill
        <4> QED
          BY <3>2, <3>3, <4>1 DEF ItemInv
      <3>4. CASE s # w
        <4>1. Stage(s, item[s])'
          BY <1>1, <1>3, <1>5, <2>2, <3>1, <3>4 DEF ItemInv, Stage, Untouched
        <4> QED
          BY <3>2, <4>1 DEF ItemInv
      <3> QED
        BY <3>3, <3>4
    <2>4. \A q \in Pids : process'[q].state # "none" => HasOwner(q)'
      BY <1>1, <1>5, <2>2 DEF LineInv, HasOwner
    <2> QED
      BY <2>1, <2>3, <2>4 DEF LineInv
  <1>6. CASE /\ process[pid[w]].state = "running"
             /\ process' = [process EXCEPT ![pid[w]].state = "killed"]
             /\ outcome' = [outcome EXCEPT ![process[pid[w]].line] = "killed"]
    <2>1. pid[w] \in Pids
      BY DEF TypeOK
    <2>2. \A s \in Slots : \/ wpc'[s] = wpc[s]
                           \/ wpc[s] = "kill" /\ wpc'[s] = AfterKill(s)
      BY <1>1, <1>3
    <2> QED
      BY <1>1, <1>6, <2>1, <2>2, ProcessEnds
  <1> QED
    BY <1>5, <1>6 DEF KillReaped

LEMMA LogErrorKeepsLines ==
  ASSUME TypeOK, FlagInv, LineInv, ReadInv', Handed' = Handed, NEW w \in Slots, LogError(w)
  PROVE  LineInv'
  <1>1. wpc[w] = "log" /\ UNCHANGED <<flags, item, pid, process, outcome>>
    BY DEF LogError, slotVars, childVars
  <1>2. IsBusy(w) /\ ItemInv(w) /\ item[w] \in Lines
    BY <1>1, AtWork DEF InItem
  <1>3. \A s \in Slots : wpc'[s] = IF s = w THEN "clear" ELSE wpc[s]
    BY DEF LogError, TypeOK
  <1>4. errors \in [Lines -> Nat] /\ (errors' = errors \/ errors' = [errors EXCEPT ![item[w]] = @ + 1])
    BY DEF LogError, TypeOK
  <1>5. \A l \in Lines : l # item[w] => errors'[l] = errors[l]
    BY <1>4
  <1>6. \A l \in Lines \ Handed' : Untouched(l)'
    BY <1>1, <1>2, <1>5 DEF LineInv, ItemInv, Untouched
  <1>7. ASSUME NEW s \in Slots, IsBusy(s)' PROVE ItemInv(s)'
    <2>1. IsBusy(s) /\ ItemInv(s) /\ item[s] \in Lines
      BY <1>1, <1>7 DEF IsBusy, LineInv, ItemInv, Handed
    <2>2. item'[s] \in Handed' /\ \A t \in Slots \ {s} : IsBusy(t)' => item'[t] # item'[s]
      BY <1>1, <2>1 DEF ItemInv, IsBusy
    <2>3. CASE s = w
      <3>1. Stage(w, item[w])'
        BY <1>1, <1>2, <1>3 DEF ItemInv, Stage
      <3> QED
        BY <2>2, <2>3, <3>1 DEF ItemInv
    <2>4. CASE s # w
      <3>1. errors'[item[s]] = errors[item[s]]
        BY <1>2, <1>5, <2>1, <2>4 DEF ItemInv
      <3>2. Stage(s, item[s])'
        BY <1>1, <1>3, <2>1, <2>4, <3>1 DEF ItemInv, Stage, Untouched
      <3> QED
        BY <2>2, <3>2 DEF ItemInv
    <2> QED
      BY <2>3, <2>4
  <1>8. ASSUME NEW q \in Pids, process'[q].state # "none" PROVE HasOwner(q)'
    <2>1. PICK t \in Slots : wpc[t] = "wait" /\ pid[t] = q
      BY <1>1, <1>8 DEF LineInv, HasOwner
    <2> QED
      BY <1>1, <1>3, <2>1 DEF HasOwner
  <1> QED
    BY <1>6, <1>7, <1>8 DEF LineInv

LEMMA LineNext ==
  ASSUME TypeOK, LockInv, FlagInv, LineInv, [Next]_vars
  PROVE  LineInv'
  <1> USE DEF mainVars, slotVars, childVars, fileVars
  <1>1. ReadInv' /\ (Handed' = Handed \/ PutItem)
    BY ReadNext DEF LineInv
  <1>2. CASE PutItem
    BY <1>1, <1>2, PutItemKeepsLines
  <1> SUFFICES ASSUME Handed' = Handed PROVE LineInv'
    BY <1>1, <1>2
  <1>3. CASE UNCHANGED <<wpc, item, pid, process, outcome, errors, flags>>
    BY <1>1, <1>3, Quiet DEF IsBusy
  <1>4. CASE \/ Open \/ ReadLine \/ LockSlot \/ Marked \/ PollSlot \/ Polled
             \/ CancelThread \/ DestroyMutex \/ FreePool \/ Return \/ UNCHANGED vars
    BY <1>3, <1>4 DEF Open, ReadLine, LockSlot, Marked, PollSlot, Polled,
       CancelThread, DestroyMutex, FreePool, Return, vars
  <1>5. CASE CreateThread
    <2>1. UNCHANGED <<item, pid, process, outcome, errors, flags>>
      BY <1>5 DEF CreateThread
    <2>2. x \in Slots /\ mpc = "init" /\ wpc \in [Slots -> WorkerPCs]
      BY <1>5 DEF CreateThread, TypeOK
    <2>3. wpc[x] = "none" /\ ~IsBusy(x)
      BY <2>2 DEF FlagInv, SlotInv, Created
    <2>4. wpc' = wpc \/ wpc' = [wpc EXCEPT ![x] = "lock"]
      BY <1>5 DEF CreateThread
    <2>5. \A s \in Slots : wpc'[s] = wpc[s] \/ (wpc[s] = "none" /\ wpc'[s] = "lock" /\ ~IsBusy(s))
      BY <2>2, <2>3, <2>4
    <2> QED
      BY <1>1, <2>1, <2>5, Quiet DEF IsBusy
  <1>6. CASE MarkDone
    <2>1. UNCHANGED <<wpc, item, pid, process, outcome, errors>>
      BY <1>6 DEF MarkDone
    <2>2. \A s \in Slots : IsBusy(s)' <=> IsBusy(s)
      BY <1>6 DEF MarkDone, IsBusy, TypeOK
    <2> QED
      BY <1>1, <2>1, <2>2, Quiet
  <1>7. ASSUME NEW w \in Slots, LockOwn(w) \/ Skip(w) \/ TouchDestroyed(w) PROVE LineInv'
    <2>1. UNCHANGED <<item, pid, process, outcome, errors, flags>>
      BY <1>7 DEF LockOwn, Skip, TouchDestroyed
    <2>2. \A s \in Slots : \/ wpc'[s] = wpc[s]
                           \/ wpc[s] = "lock" /\ wpc'[s] = "func"
                           \/ ~IsBusy(s) /\ "wait" \notin {wpc[s], wpc'[s]}
      <3>1. CASE LockOwn(w)
        BY <3>1 DEF LockOwn, TypeOK, IsBusy
      <3>2. CASE Skip(w)
        BY <3>2 DEF Skip, TypeOK, IsBusy, FlagInv, SlotInv
      <3>3. CASE TouchDestroyed(w)
        <4>1. ~IsBusy(w)
          BY <3>3 DEF TouchDestroyed, LockInv, Destroyed, FlagInv, SlotInv, SeenIdle, Down
        <4> QED
          BY <3>3, <4>1 DEF TouchDestroyed, TypeOK
      <3> QED
        BY <1>7, <3>1, <3>2, <3>3
    <2> QED
      BY <1>1, <2>1, <2>2, Quiet DEF IsBusy
  <1>8. ASSUME NEW w \in Slots, ClearBusy(w) PROVE LineInv'
    <2>1. UNCHANGED <<item, pid, process, outcome, errors>>
      BY <1>8 DEF ClearBusy
    <2>2. \A s \in Slots : /\ IsBusy(s)' <=> s # w /\ IsBusy(s)
                           /\ wpc'[s] = IF s = w THEN "lock" ELSE wpc[s]
      BY <1>8 DEF ClearBusy, IsBusy, TypeOK
    <2>3. wpc[w] = "clear"
      BY <1>8 DEF ClearBusy
    <2> QED
      BY <1>1, <2>1, <2>2, <2>3, Quiet
  <1>9. ASSUME NEW w \in Slots, Fork(w) \/ Wait(w) \/ KillReaped(w) \/ LogError(w) PROVE LineInv'
    BY <1>1, <1>9, ForkKeepsLines, WaitKeepsLines, KillReapedKeepsLines, LogErrorKeepsLines
  <1>10. ASSUME NEW p \in Pids, ChildEnds(p) PROVE LineInv'
    BY <1>1, <1>10, ProcessEnds DEF ChildEnds
  <1> QED
    BY <1>2, <1>4, <1>5, <1>6, <1>7, <1>8, <1>9, <1>10 DEF Next, Main, Worker

-----------------------------------------------------------------------------
\* Every variable of the pool keeps its type, and the inductive invariant
\* holds: who has each mutex, what BUSY and DONE say of the thread, and how far
\* the line of a busy slot has come.
THEOREM TypeCorrect == Spec => [](TypeOK /\ IInv)
  <1>1. Init => TypeOK /\ IInv
    BY TypeInit, LockInit, FlagInit, LineInit DEF IInv
  <1>2. TypeOK /\ IInv /\ [Next]_vars => (TypeOK /\ IInv)'
    BY TypeNext, LockNext, FlagNext, LineNext DEF IInv
  <1> QED
    BY <1>1, <1>2, PTL DEF Spec

\* A thread is asked to cancel (worker_destroy) only once it has no item, so
\* no program is left without a parent: main has seen every slot idle after it
\* stopped handing over lines, and an idle slot stays idle.
THEOREM ItemsAreNotCancelled == Spec => []NoItemIsCancelled
  <1>1. TypeOK /\ IInv => NoItemIsCancelled
    <2> SUFFICES ASSUME TypeOK, IInv, NEW s \in cancel PROVE wpc[s] \notin InItem
      BY DEF NoItemIsCancelled
    <2>1. s \in Slots /\ Down
      BY DEF TypeOK, IInv, FlagInv
    <2> QED
      BY <2>1 DEF IInv, FlagInv, SlotInv, SeenIdle
  <1> QED
    BY <1>1, TypeCorrect, PTL

-----------------------------------------------------------------------------
(* The refinement: every step of the pool is a step of the job runner or   *)
(* leaves what the job runner sees unchanged.                              *)

Phase == [l \in Lines |-> PhaseOf(l)]
InErrorFile == {l \in Lines : errors[l] > 0}

LEMMA InitRefines == Init => Jobs!Init
  <1> SUFFICES ASSUME Init PROVE Jobs!Init
    OBVIOUS
  <1>1. \A l \in Lines : PhaseOf(l) = "unread"
    BY DEF Init, PhaseOf, HandedCount
  <1>2. RunIsOver = "no" /\ InErrorFile = {} /\ outcome = [l \in Lines |-> "none"]
    BY DEF Init, RunIsOver, InErrorFile
  <1> QED
    BY <1>1, <1>2 DEF Jobs!Init, Jobs!Lines, InErrorFile

\* The instance has a Cardinality of its own.
LEMMA SameCardinality ==
  ASSUME NEW S
  PROVE  Jobs!Cardinality(S) = Cardinality(S)
  BY DEF Jobs!Cardinality, Cardinality

LEMMA HandedCountTyped ==
  ASSUME TypeOK, LineInv
  PROVE  HandedCount \in 0 .. NLines /\ Handed = 1 .. HandedCount
  BY DEF TypeOK, LineInv, ReadInv, HandedCount, Handed

\* A line in a busy slot has the phase of the slot's thread ...
LEMMA BusyPhase ==
  ASSUME TypeOK, LineInv, NEW s \in Slots, IsBusy(s)
  PROVE  PhaseOf(item[s]) = ItemPhase(s) /\ item[s] \in Lines
  <1>1. ItemInv(s)
    BY DEF LineInv
  <1>2. item[s] \in Lines /\ ~(item[s] > HandedCount)
    BY <1>1, HandedCountTyped DEF ItemInv
  <1>3. Carriers(item[s]) = {s}
    BY <1>1 DEF ItemInv, Carriers, IsBusy
  <1> QED
    BY <1>2, <1>3 DEF PhaseOf

CarriedPhases == \A s \in Slots : IsBusy(s) => PhaseOf(item[s]) = ItemPhase(s)

\* The same of the state that a step leads to.
LEMMA BusyPhaseNext == (TypeOK /\ LineInv)' => CarriedPhases'
  <1>1. TypeOK /\ LineInv => CarriedPhases
    BY BusyPhase DEF CarriedPhases
  <1> QED
    BY <1>1, PTL

\* ... and any other line is unread or closed.
LEMMA NoCarrierPhase ==
  ASSUME NEW l \in Lines, \A s \in Slots : IsBusy(s) => item[s] # l
  PROVE  PhaseOf(l) = IF l > HandedCount THEN "unread" ELSE "closed"
  BY DEF PhaseOf, Carriers, IsBusy

LEMMA InHandCarried ==
  ASSUME NEW l \in Lines, PhaseOf(l) \in {"taken", "running", "ended"}
  PROVE  \E s \in Slots : IsBusy(s) /\ item[s] = l
  BY NoCarrierPhase

\* With an idle slot in view, fewer than Count lines are in hand.
LEMMA RoomForOneMore ==
  ASSUME TypeOK, ~IsBusy(x)
  PROVE  Cardinality({l \in Lines : PhaseOf(l) \in {"taken", "running", "ended"}}) < Count
  <1> DEFINE InHand == {l \in Lines : PhaseOf(l) \in {"taken", "running", "ended"}}
             Others == Slots \ {x}
             carrier == [l \in InHand |-> CHOOSE s \in Slots : IsBusy(s) /\ item[s] = l]
  <1>1. \A l \in InHand : carrier[l] \in Others /\ item[carrier[l]] = l
    BY InHandCarried
  <1>2. carrier \in Injection(InHand, Others)
    <2>1. carrier \in [InHand -> Others]
      BY <1>1
    <2>2. \A k, l \in InHand : carrier[k] = carrier[l] => k = l
      BY <1>1
    <2> QED
      BY <2>1, <2>2 DEF Injection, IsInjective
  <1>3. IsFiniteSet(Slots) /\ Cardinality(Slots) = Count
    BY FS_Interval
  <1>4. IsFiniteSet(Others) /\ Cardinality(Others) = Count - 1
    <2>1. x \in Slots
      BY DEF TypeOK
    <2> HIDE DEF Slots
    <2>2. /\ IsFiniteSet(Slots \ {x})
          /\ Cardinality(Slots \ {x}) = Cardinality(Slots) - 1
      BY ONLY <1>3, <2>1, FS_RemoveElement
    <2> QED
      BY <1>3, <2>2
  <1> HIDE DEF InHand, Others, carrier
  <1>5. IsFiniteSet(InHand) /\ Cardinality(InHand) <= Count - 1
    BY <1>2, <1>4, FS_Injection
  <1>6. Cardinality(InHand) \in Nat
    BY <1>5, FS_CardinalityType
  <1> QED
    BY <1>5, <1>6 DEF InHand

\* A line whose slot is left as it is keeps its phase.
LEMMA SamePhaseOf ==
  ASSUME NEW k \in Lines, k > HandedCount' <=> k > HandedCount,
         \A s \in Slots : IsBusy(s)' /\ item'[s] = k <=> IsBusy(s) /\ item[s] = k,
         \A s \in Slots : IsBusy(s) /\ item[s] = k => ItemPhase(s)' = ItemPhase(s)
  PROVE  PhaseOf(k)' = PhaseOf(k)
  <1>1. Carriers(k)' = Carriers(k)
    BY DEF Carriers, IsBusy
  <1>2. CASE Carriers(k) = {}
    BY <1>1, <1>2 DEF PhaseOf
  <1>3. CASE Carriers(k) # {}
    <2> DEFINE s == CHOOSE s \in Carriers(k) : TRUE
    <2>1. s \in Slots /\ IsBusy(s) /\ item[s] = k
      BY <1>3 DEF Carriers, IsBusy
    <2>2. s' = s
      BY <1>1
    <2>3. ItemPhase(s)' = ItemPhase(s)
      BY <2>1, <2>2
    <2> QED
      BY <1>1, <1>3, <2>2, <2>3 DEF PhaseOf
  <1> QED
    BY <1>2, <1>3

LEMMA SamePhases ==
  ASSUME HandedCount' = HandedCount,
         \A s \in Slots : /\ IsBusy(s)' <=> IsBusy(s)
                          /\ IsBusy(s) => item'[s] = item[s] /\ ItemPhase(s)' = ItemPhase(s)
  PROVE  Phase' = Phase
  BY SamePhaseOf DEF Phase

LEMMA OnePhaseChanges ==
  ASSUME NEW n \in Lines, NEW ph, PhaseOf(n)' = ph,
         \A k \in Lines : k # n => PhaseOf(k)' = PhaseOf(k)
  PROVE  Phase' = [Phase EXCEPT ![n] = ph]
  BY DEF Phase

LEMMA Stutters ==
  ASSUME Phase' = Phase, UNCHANGED <<outcome, errors>>, RunIsOver' = RunIsOver
  PROVE  UNCHANGED Jobs!vars
  BY DEF Jobs!vars, Phase

\* exit() in any thread aborts the job runner.
LEMMA Aborts ==
  ASSUME Phase' = Phase, UNCHANGED <<outcome, errors>>, RunIsOver' = "aborted"
  PROVE  Jobs!Next
  <1>1. Jobs!Abort
    BY DEF Jobs!Abort, Phase
  <1> QED
    BY <1>1 DEF Jobs!Next

\* What a thread at work on line n may rely on: the run is not over, and n's
\* phase is that of its slot.
LEMMA WorkerView ==
  ASSUME TypeOK, IInv, NEW w \in Slots, wpc[w] \in InItem, proc = "up"
  PROVE  /\ item[w] \in Lines /\ ~(item[w] > HandedCount) /\ RunIsOver = "no"
         /\ IsBusy(w) /\ ItemInv(w) /\ PhaseOf(item[w]) = ItemPhase(w)
  <1>1. IsBusy(w) /\ ItemInv(w) /\ item[w] \in Lines
    BY AtWork DEF IInv
  <1>2. ~Down
    BY <1>1 DEF IInv, FlagInv, SlotInv, SeenIdle
  <1>3. PhaseOf(item[w]) = ItemPhase(w) /\ ~(item[w] > HandedCount)
    BY <1>1, BusyPhase, HandedCountTyped DEF IInv, ItemInv
  <1> QED
    BY <1>1, <1>2, <1>3 DEF RunIsOver, Down

\* A step on the line of one busy slot w changes the phase of that line only.
LEMMA OwnPhaseChanges ==
  ASSUME TypeOK, IInv, TypeOK', LineInv', NEW w \in Slots, IsBusy(w),
         UNCHANGED <<mpc, taken, flags, item>>,
         \A s \in Slots \ {w} : IsBusy(s) => ItemPhase(s)' = ItemPhase(s)
  PROVE  Phase' = [Phase EXCEPT ![item[w]] = ItemPhase(w)'] /\ Phase[item[w]] = ItemPhase(w)
  <1>1. item[w] \in Lines /\ PhaseOf(item[w]) = ItemPhase(w)
    BY BusyPhase DEF IInv
  <1>2. IsBusy(w)' /\ item'[w] = item[w] /\ HandedCount' = HandedCount
    BY DEF IsBusy, HandedCount
  <1>3. PhaseOf(item[w])' = ItemPhase(w)'
    BY <1>2, BusyPhaseNext DEF CarriedPhases
  <1>4. ASSUME NEW k \in Lines, k # item[w] PROVE PhaseOf(k)' = PhaseOf(k)
    <2>1. \A s \in Slots : IsBusy(s)' /\ item'[s] = k <=> IsBusy(s) /\ item[s] = k
      BY DEF IsBusy
    <2>2. \A s \in Slots : IsBusy(s) /\ item[s] = k => ItemPhase(s)' = ItemPhase(s)
      BY <1>4
    <2> QED
      BY <1>2, <2>1, <2>2, SamePhaseOf
  <1> QED
    BY <1>1, <1>2, <1>3, <1>4 DEF Phase

\* worker_exec takes the next line, into a slot that it has seen idle.
LEMMA PutItemTakes ==
  ASSUME TypeOK, IInv, TypeOK', IInv', PutItem
  PROVE  [Jobs!Next]_(Jobs!vars)
  <1> USE DEF mainVars, slotVars, childVars, fileVars
  <1>1. /\ x \in Slots /\ mpc = "tested" /\ proc = "up" /\ taken \in Lines
        /\ UNCHANGED <<taken, wpc, outcome, errors, proc>>
    BY DEF PutItem, TypeOK, IInv, LineInv, ReadInv
  <1>2. CASE mpc' = "exec" /\ UNCHANGED <<item, flags>>
    <2>1. HandedCount' = HandedCount /\ RunIsOver' = RunIsOver
      BY <1>1, <1>2 DEF HandedCount, RunIsOver
    <2>2. Phase' = Phase
      BY <1>1, <1>2, <2>1, SamePhases DEF IsBusy, ItemPhase
    <2> QED
      BY <1>1, <2>1, <2>2, Stutters
  <1>3. CASE /\ "BUSY" \notin flags[x]
             /\ item' = [item EXCEPT ![x] = taken]
             /\ flags' = [flags EXCEPT ![x] = @ \cup {"BUSY"}]
             /\ mpc' = "read" /\ UNCHANGED x
    <2> SUFFICES ASSUME NEW n, n = taken PROVE Jobs!Next
      OBVIOUS
    <2>1. HandedCount = n - 1 /\ HandedCount' = n /\ n \in Lines
      BY <1>1, <1>3 DEF HandedCount
    <2>2. \A s \in Slots : /\ item'[s] = IF s = x THEN n ELSE item[s]
                           /\ IsBusy(s)' <=> (s = x \/ IsBusy(s))
      BY <1>1, <1>3 DEF TypeOK, IsBusy
    <2>3. \A s \in Slots : IsBusy(s) => item[s] < n
      BY <1>1, <2>1, HandedCountTyped DEF IInv, LineInv, ItemInv
    <2>4. PhaseOf(n) = "unread"
      BY <2>1, <2>3, NoCarrierPhase
    <2>5. PhaseOf(n)' = "taken"
      <3>1. IsBusy(x)' /\ item'[x] = n /\ x' = x
        BY <1>1, <1>3, <2>2
      <3>2. PhaseOf(item[x])' = ItemPhase(x)'
        BY <1>1, <3>1, BusyPhaseNext DEF IInv, CarriedPhases
      <3>3. wpc[x] \in {"lock", "skip", "func"}
        BY <1>1, <1>3 DEF IInv, FlagInv, SlotInv, IsBusy, Created, ToldToEnd, Down, InItem,
           TypeOK, WorkerPCs
      <3> QED
        BY <1>1, <3>1, <3>2, <3>3 DEF ItemPhase
    <2>6. ASSUME NEW k \in Lines, k # n PROVE PhaseOf(k)' = PhaseOf(k)
      <3>1. k > HandedCount' <=> k > HandedCount
        BY <2>1, <2>6
      <3>2. \A s \in Slots : IsBusy(s)' /\ item'[s] = k <=> IsBusy(s) /\ item[s] = k
        BY <1>3, <2>2, <2>6 DEF IsBusy
      <3>3. \A s \in Slots : IsBusy(s) /\ item[s] = k => ItemPhase(s)' = ItemPhase(s)
        BY <1>1, <1>3, <2>2 DEF IsBusy, ItemPhase
      <3> QED
        BY <3>1, <3>2, <3>3, SamePhaseOf
    <2>7. Phase' = [Phase EXCEPT ![n] = "taken"]
      BY <2>1, <2>5, <2>6, OnePhaseChanges
    <2>8. \A k \in Lines : k < n => PhaseOf(k) # "unread"
      <3> SUFFICES ASSUME NEW k \in Lines, k < n PROVE PhaseOf(k) # "unread"
        OBVIOUS
      <3>1. ~(k > HandedCount)
        BY <2>1
      <3> QED
        BY <3>1 DEF PhaseOf, ItemPhase
    <2>9. RunIsOver = "no" /\ RunIsOver' = "no"
      BY <1>1, <1>3 DEF RunIsOver
    <2>10. Cardinality({l \in Lines : Phase[l] \in {"taken", "running", "ended"}}) < Count
      <3>1. {l \in Lines : Phase[l] \in {"taken", "running", "ended"}}
              = {l \in Lines : PhaseOf(l) \in {"taken", "running", "ended"}}
        BY DEF Phase
      <3> QED
        BY <1>3, <3>1, RoomForOneMore DEF IsBusy
    <2>11. Jobs!Take(n)
      <3>1. Phase[n] = "unread" /\ \A k \in Lines : k < n => Phase[k] # "unread"
        BY <2>1, <2>4, <2>8 DEF Phase
      <3>2. InErrorFile' = InErrorFile
        BY <1>1 DEF InErrorFile
      <3>3. Jobs!Cardinality(Jobs!InHand) < Count
        BY ONLY <2>10, SameCardinality DEF Jobs!InHand, Jobs!Lines, Phase, Lines
      <3>4. Jobs!Lines = Lines
        BY DEF Jobs!Lines
      <3> HIDE DEF Lines
      <3> QED
        BY ONLY <1>1, <2>7, <2>9, <3>1, <3>2, <3>3, <3>4 DEF Jobs!Take, Phase, InErrorFile
    <2> QED
      BY <2>1, <2>11 DEF Jobs!Next, Jobs!Lines
  <1> QED
    BY <1>1, <1>2, <1>3, NextRoundStays DEF PutItem

\* fork() begins the program of a line.
LEMMA ForkBegins ==
  ASSUME TypeOK, IInv, TypeOK', IInv', NEW w \in Slots, Fork(w)
  PROVE  Jobs!Next
  <1> SUFFICES ASSUME NEW n, n = item[w] PROVE Jobs!Next
    OBVIOUS
  <1>1. /\ wpc[w] = "func" /\ proc = "up"
        /\ UNCHANGED <<mpc, taken, flags, item, outcome, errors>>
    BY DEF Fork, mainVars, slotVars, fileVars
  <1>2. n \in Lines /\ RunIsOver = "no" /\ IsBusy(w) /\ ItemInv(w)
    BY <1>1, WorkerView DEF InItem
  <1>3. CASE proc' = "exited" /\ UNCHANGED wpc
    <2>1. HandedCount' = HandedCount /\ RunIsOver' = "aborted"
      BY <1>1, <1>2, <1>3 DEF HandedCount, RunIsOver
    <2>2. Phase' = Phase
      BY <1>1, <1>3, <2>1, SamePhases DEF IsBusy, ItemPhase
    <2> QED
      BY <1>1, <2>1, <2>2, Aborts
  <1>4. CASE wpc' = [wpc EXCEPT ![w] = "wait"] /\ UNCHANGED proc
    <2>1. \A s \in Slots : wpc'[s] = IF s = w THEN "wait" ELSE wpc[s]
      BY <1>4 DEF TypeOK
    <2>2. \A s \in Slots \ {w} : ItemPhase(s)' = ItemPhase(s)
      BY <1>1, <2>1 DEF ItemPhase
    <2>3. ItemPhase(w) = "taken" /\ ItemPhase(w)' = "running"
      BY <1>1, <1>2, <2>1 DEF ItemPhase, ItemInv, Stage, Untouched
    <2>4. Phase' = [Phase EXCEPT ![n] = "running"] /\ Phase[n] = "taken"
      BY <1>1, <1>2, <2>2, <2>3, OwnPhaseChanges DEF IInv
    <2>5. RunIsOver' = "no"
      BY <1>1, <1>2, <1>4 DEF RunIsOver
    <2>6. Jobs!Begin(n)
      BY ONLY <1>1, <1>2, <2>4, <2>5 DEF Jobs!Begin, Phase
    <2> QED
      BY <1>2, <2>6 DEF Jobs!Next, Jobs!Lines
  <1> QED
    BY <1>3, <1>4 DEF Fork, Exit

\* The program of a line ends, by itself or killed by the thread of another.
LEMMA ProcessEndsEnds ==
  ASSUME TypeOK, IInv, TypeOK', IInv',
         NEW p \in Pids, NEW o \in Outcomes, process[p].state = "running",
         outcome' = [outcome EXCEPT ![process[p].line] = o],
         UNCHANGED <<mpc, taken, flags, item, errors, proc>>,
         \A s \in Slots : \/ wpc'[s] = wpc[s]
                          \/ wpc[s] = "kill" /\ wpc'[s] = AfterKill(s)
  PROVE  Jobs!Next
  <1>1. PICK w \in Slots : /\ wpc[w] = "wait" /\ IsBusy(w) /\ ItemInv(w) /\ pid[w] = p
                           /\ process[p].line = item[w] /\ item[w] \in Lines
    BY OwnerOf DEF IInv
  <1> SUFFICES ASSUME NEW n, n = item[w] PROVE Jobs!Next
    OBVIOUS
  <1>2. outcome[n] = "none" /\ o # "none" /\ n \in Lines
    BY <1>1 DEF ItemInv, Stage
  <1>3. \A l \in Lines : outcome'[l] = IF l = n THEN o ELSE outcome[l]
    BY <1>1 DEF TypeOK
  <1>4. ItemPhase(w) = "running" /\ ItemPhase(w)' = "ended"
    BY <1>1, <1>2, <1>3 DEF ItemPhase
  <1>5. ASSUME NEW s \in Slots \ {w}, IsBusy(s) PROVE ItemPhase(s)' = ItemPhase(s)
    <2>1. item[s] \in Lines /\ item[s] # n
      BY <1>1, <1>5, BusyPhase DEF IInv, ItemInv
    <2>2. outcome'[item[s]] = outcome[item[s]]
      BY <1>3, <2>1
    <2> QED
      BY <2>2 DEF ItemPhase, AfterKill
  <1>6. Phase' = [Phase EXCEPT ![n] = "ended"] /\ Phase[n] = "running"
    BY <1>1, <1>4, <1>5, OwnPhaseChanges DEF IInv
  <1>7. RunIsOver' = RunIsOver
    BY DEF RunIsOver
  <1>8. outcome' = [outcome EXCEPT ![n] = o]
    BY <1>1
  <1>9. Jobs!End(n)
    BY ONLY <1>6, <1>7, <1>8, o \in Outcomes, errors' = errors DEF Jobs!End, Phase
  <1> QED
    BY <1>2, <1>9 DEF Jobs!Next, Jobs!Lines

\* The append to the error file reports a failed line; an error file that
\* does not open leaves no trace.
LEMMA LogErrorReports ==
  ASSUME TypeOK, IInv, NEW w \in Slots, LogError(w)
  PROVE  [Jobs!Next]_(Jobs!vars)
  <1> SUFFICES ASSUME NEW n, n = item[w] PROVE [Jobs!Next]_(Jobs!vars)
    OBVIOUS
  <1>1. /\ wpc[w] = "log" /\ proc = "up"
        /\ UNCHANGED <<mpc, taken, flags, item, outcome, proc>>
    BY DEF LogError, mainVars, slotVars, childVars
  <1>2. /\ n \in Lines /\ RunIsOver = "no" /\ IsBusy(w) /\ ItemInv(w)
        /\ PhaseOf(n) = ItemPhase(w)
    BY <1>1, WorkerView DEF InItem
  <1>3. \A s \in Slots : wpc'[s] = IF s = w THEN "clear" ELSE wpc[s]
    BY DEF LogError, TypeOK
  <1>4. Phase' = Phase
    <2>1. \A s \in Slots : ItemPhase(s)' = ItemPhase(s)
      BY <1>1, <1>3 DEF ItemPhase
    <2> QED
      BY <1>1, <2>1, SamePhases DEF IsBusy, HandedCount
  <1>5. RunIsOver' = "no"
    BY <1>1, <1>2 DEF RunIsOver
  <1>6. CASE UNCHANGED errors
    BY <1>1, <1>2, <1>4, <1>5, <1>6, Stutters
  <1>7. CASE errors' = [errors EXCEPT ![item[w]] = @ + 1]
    <2>1. errors[n] = 0 /\ outcome[n] \in {"failed", "killed"}
      BY <1>1, <1>2 DEF ItemInv, Stage, Failed, TypeOK
    <2>2. InErrorFile' = InErrorFile \cup {n}
      <3>1. errors'[n] = 1 /\ \A k \in Lines : k # n => errors'[k] = errors[k]
        BY <1>2, <1>7, <2>1 DEF TypeOK
      <3> QED
        BY <1>2, <3>1 DEF InErrorFile
    <2>3. n \notin InErrorFile
      BY <2>1 DEF InErrorFile
    <2>4. Phase[n] = "ended"
      BY <1>1, <1>2 DEF Phase, ItemPhase
    <2>5. Jobs!Report(n)
      BY ONLY <1>1, <1>2, <1>4, <1>5, <2>1, <2>2, <2>3, <2>4 DEF Jobs!Report, Phase, InErrorFile
    <2> QED
      BY <1>2, <2>5 DEF Jobs!Next, Jobs!Lines
  <1> QED
    BY <1>6, <1>7 DEF LogError

\* The thread that clears BUSY closes the line.
LEMMA ClearBusyCloses ==
  ASSUME TypeOK, IInv, NEW w \in Slots, ClearBusy(w)
  PROVE  Jobs!Next
  <1> SUFFICES ASSUME NEW n, n = item[w] PROVE Jobs!Next
    OBVIOUS
  <1>1. /\ wpc[w] = "clear" /\ proc = "up"
        /\ UNCHANGED <<mpc, taken, item, outcome, errors, proc>>
    BY DEF ClearBusy, mainVars, childVars, fileVars
  <1>2. /\ n \in Lines /\ ~(n > HandedCount) /\ RunIsOver = "no" /\ ItemInv(w)
        /\ PhaseOf(n) = ItemPhase(w)
    BY <1>1, WorkerView DEF InItem
  <1>3. \A s \in Slots : /\ IsBusy(s)' <=> s # w /\ IsBusy(s)
                         /\ s # w => wpc'[s] = wpc[s]
    BY DEF ClearBusy, IsBusy, TypeOK
  <1>4. HandedCount' = HandedCount
    BY <1>1 DEF HandedCount
  <1>5. PhaseOf(n) = "ended"
    BY <1>1, <1>2 DEF ItemPhase
  <1>6. PhaseOf(n)' = "closed"
    <2>1. Carriers(n)' = {}
      BY <1>1, <1>2, <1>3 DEF ItemInv, Carriers, IsBusy
    <2> QED
      BY <1>2, <1>4, <2>1 DEF PhaseOf
  <1>7. ASSUME NEW k \in Lines, k # n PROVE PhaseOf(k)' = PhaseOf(k)
    <2>1. \A s \in Slots : IsBusy(s)' /\ item'[s] = k <=> IsBusy(s) /\ item[s] = k
      BY <1>1, <1>3, <1>7
    <2>2. \A s \in Slots : IsBusy(s) /\ item[s] = k => ItemPhase(s)' = ItemPhase(s)
      BY <1>1, <1>3, <1>7 DEF ItemPhase
    <2> QED
      BY <1>4, <2>1, <2>2, SamePhaseOf
  <1>8. Phase' = [Phase EXCEPT ![n] = "closed"] /\ Phase[n] = "ended"
    BY <1>2, <1>5, <1>6, <1>7, OnePhaseChanges DEF Phase
  <1>9. RunIsOver' = "no"
    BY <1>1, <1>2 DEF RunIsOver
  <1>10. Jobs!Close(n)
    BY ONLY <1>1, <1>2, <1>8, <1>9 DEF Jobs!Close, Phase
  <1> QED
    BY <1>2, <1>10 DEF Jobs!Next, Jobs!Lines

\* The scan that has met no busy slot finishes the run.
LEMMA PolledFinishes ==
  ASSUME TypeOK, IInv, TypeOK', IInv', Polled
  PROVE  [Jobs!Next]_(Jobs!vars)
  <1>1. /\ mpc = "polled" /\ proc = "up" /\ x \in Slots
        /\ UNCHANGED <<taken, wpc, flags, item, outcome, errors, proc>>
    BY DEF Polled, childVars, fileVars, TypeOK
  <1>2. mpc' \in {"poll", "cancel"}
    BY <1>1, NextRoundStays DEF Polled
  <1>3. HandedCount' = HandedCount /\ RunIsOver = "no"
    BY <1>1, <1>2 DEF HandedCount, RunIsOver
  <1>4. Phase' = Phase
    BY <1>1, <1>3, SamePhases DEF IsBusy, ItemPhase
  <1>5. CASE mpc' = "poll"
    <2>1. RunIsOver' = "no"
      BY <1>1, <1>5 DEF RunIsOver
    <2> QED
      BY <1>1, <1>3, <1>4, <2>1, Stutters
  <1>6. CASE mpc' = "cancel"
    <2>1. \A s \in Slots : ~IsBusy(s)
      BY <1>1, <1>6 DEF IInv, FlagInv, SlotInv, SeenIdle, Down, IsBusy
    <2>2. HandedCount = NLines
      BY <1>1 DEF IInv, LineInv, ReadInv, Finishing, HandedCount
    <2>3. \A l \in Lines : Phase[l] = "closed"
      BY <2>1, <2>2, NoCarrierPhase DEF Phase
    <2>4. RunIsOver' = "done"
      BY <1>6 DEF RunIsOver
    <2>5. Jobs!Finish
      BY ONLY <1>1, <1>3, <1>4, <2>3, <2>4 DEF Jobs!Finish, Jobs!Lines, Phase, Lines
    <2> QED
      BY <2>5 DEF Jobs!Next
  <1> QED
    BY <1>2, <1>5, <1>6

\* The steps that the job runner does not see.
QuietMain ==
  \/ ReadLine \/ LockSlot \/ MarkDone \/ Marked \/ PollSlot
  \/ CancelThread \/ DestroyMutex \/ FreePool \/ Return

LEMMA QuietMainStutters ==
  ASSUME TypeOK, IInv, QuietMain
  PROVE  UNCHANGED Jobs!vars
  <1> USE DEF slotVars, childVars, fileVars, mainVars
  <1>1. UNCHANGED <<wpc, item, outcome, errors>>
    BY DEF QuietMain, ReadLine, LockSlot, MarkDone, Marked, PollSlot,
       CancelThread, DestroyMutex, FreePool, Return
  <1>2. \A s \in Slots : IsBusy(s)' <=> IsBusy(s)
    <2>1. CASE UNCHANGED flags
      BY <2>1 DEF IsBusy
    <2>2. CASE MarkDone
      BY <2>2 DEF MarkDone, IsBusy, TypeOK
    <2> QED
      BY <2>1, <2>2 DEF QuietMain, ReadLine, LockSlot, Marked, PollSlot,
         CancelThread, DestroyMutex, FreePool, Return
  <1>3. HandedCount' = HandedCount /\ RunIsOver' = RunIsOver
    <2>1. CASE ReadLine
      <3>1. mpc = "read" /\ UNCHANGED proc /\ taken \in 0 .. NLines
        BY <2>1 DEF ReadLine, TypeOK
      <3>2. \/ mpc' = "exec" /\ taken' = taken + 1
            \/ mpc' = "mark" /\ taken' = taken
        BY <2>1 DEF ReadLine
      <3> QED
        BY <3>1, <3>2 DEF HandedCount, RunIsOver
    <2>2. CASE LockSlot \/ MarkDone \/ PollSlot \/ FreePool \/ Return
      <3>1. /\ UNCHANGED taken /\ (proc' = proc \/ mpc' = "return")
            /\ <<mpc, mpc'>> \in {<<"exec", "tested">>, <<"mark", "marked">>,
                                 <<"poll", "polled">>, <<"free", "return">>, <<"return", "return">>}
        BY <2>2 DEF LockSlot, MarkDone, PollSlot, FreePool, Return
      <3> QED
        BY <3>1 DEF HandedCount, RunIsOver
    <2>3. CASE Marked \/ CancelThread \/ DestroyMutex
      <3>1. UNCHANGED <<taken, proc>> /\ x \in Slots
        BY <2>3 DEF Marked, CancelThread, DestroyMutex, TypeOK
      <3>2. \/ mpc = "marked" /\ mpc' \in {"mark", "poll"}
            \/ mpc \in {"cancel", "destroy"} /\ mpc' \in {"cancel", "destroy", "free"}
        BY <2>3, <3>1, NextRoundStays DEF Marked, CancelThread, DestroyMutex
      <3> QED
        BY <3>1, <3>2 DEF HandedCount, RunIsOver
    <2> QED
      BY <2>1, <2>2, <2>3 DEF QuietMain
  <1>4. Phase' = Phase
    BY <1>1, <1>2, <1>3, SamePhases DEF ItemPhase
  <1> QED
    BY <1>1, <1>3, <1>4, Stutters

LEMMA QuietWorkerStutters ==
  ASSUME TypeOK, IInv, NEW w \in Slots,
         LockOwn(w) \/ Skip(w) \/ TouchDestroyed(w) \/ Wait(w)
  PROVE  UNCHANGED Jobs!vars
  <1>1. UNCHANGED <<mpc, taken, flags, item, outcome, errors>>
    BY DEF LockOwn, Skip, TouchDestroyed, Wait, mainVars, slotVars, childVars, fileVars
  <1>2. RunIsOver' = RunIsOver
    <2>1. CASE UNCHANGED proc
      BY <1>1, <2>1 DEF RunIsOver
    <2>2. CASE TouchDestroyed(w)
      <3>1. Down
        BY <2>2 DEF TouchDestroyed, IInv, LockInv, Destroyed, Down
      <3> QED
        BY <1>1, <3>1 DEF RunIsOver, Down
    <2> QED
      BY <2>1, <2>2 DEF LockOwn, Skip, Wait
  <1>3. \A s \in Slots : IsBusy(s) => ItemPhase(s)' = ItemPhase(s)
    <2>1. CASE LockOwn(w)
      BY <1>1, <2>1 DEF LockOwn, ItemPhase, IsBusy, TypeOK
    <2>2. CASE Skip(w)
      <3>1. ~IsBusy(w)
        BY <2>2 DEF Skip, IInv, FlagInv, SlotInv
      <3>2. \A s \in Slots : s # w => wpc'[s] = wpc[s]
        BY <2>2 DEF Skip, TypeOK
      <3> QED
        BY <1>1, <3>1, <3>2 DEF ItemPhase
    <2>3. CASE TouchDestroyed(w)
      <3>1. ~IsBusy(w)
        BY <2>3 DEF TouchDestroyed, IInv, LockInv, Destroyed, FlagInv, SlotInv, SeenIdle, Down
      <3>2. \A s \in Slots : s # w => wpc'[s] = wpc[s]
        BY <2>3 DEF TouchDestroyed, TypeOK
      <3> QED
        BY <1>1, <3>1, <3>2 DEF ItemPhase
    <2>4. CASE Wait(w)
      <3>1. wpc[w] = "wait" /\ process[pid[w]].state # "running"
        BY <2>4 DEF Wait
      <3>2. outcome[item[w]] # "none"
        BY <3>1, AtWork DEF IInv, InItem, ItemInv, Stage, Wait
      <3>3. \A s \in Slots : wpc'[s] = IF s = w THEN "kill" ELSE wpc[s]
        BY <2>4 DEF Wait, TypeOK
      <3> QED
        BY <1>1, <3>1, <3>2, <3>3 DEF ItemPhase
    <2> QED
      BY <2>1, <2>2, <2>3, <2>4
  <1>4. Phase' = Phase
    BY <1>1, <1>3, SamePhases DEF IsBusy, HandedCount
  <1> QED
    BY <1>1, <1>2, <1>4, Stutters

\* Opening the input and creating the threads may end in an early return.
LEMMA StartAborts ==
  ASSUME TypeOK, IInv, Open \/ CreateThread
  PROVE  [Jobs!Next]_(Jobs!vars)
  <1>1. UNCHANGED <<taken, flags, item, outcome, errors>>
    BY DEF Open, CreateThread, slotVars, childVars, fileVars
  <1>2. mpc \in {"open", "init"} /\ mpc' \in {"open", "init", "read"} /\ proc = "up"
    BY NextRoundStays DEF Open, CreateThread, TypeOK
  <1>3. HandedCount' = HandedCount
    BY <1>1, <1>2 DEF HandedCount
  <1>4. \A s \in Slots : ~IsBusy(s)
    <2>1. taken = 0
      BY <1>2 DEF IInv, LineInv, ReadInv
    <2>2. Handed = {}
      BY <1>2, <2>1 DEF Handed, HandedCount
    <2> QED
      BY <2>2 DEF IInv, LineInv, ItemInv
  <1>5. Phase' = Phase
    BY <1>1, <1>3, <1>4, SamePhases DEF IsBusy
  <1>6. CASE proc' = "exited"
    <2>1. RunIsOver' = "aborted"
      BY <1>2, <1>6 DEF RunIsOver
    <2> QED
      BY <1>1, <1>5, <2>1, Aborts
  <1>7. CASE UNCHANGED proc
    <2>1. RunIsOver' = RunIsOver
      BY <1>2, <1>7 DEF RunIsOver
    <2> QED
      BY <1>1, <1>5, <2>1, Stutters
  <1> QED
    BY <1>6, <1>7 DEF Open, CreateThread, Exit

\* The kill after the wait: nothing, or the end of another thread's program.
LEMMA KillReapedEnds ==
  ASSUME TypeOK, IInv, TypeOK', IInv', NEW w \in Slots, KillReaped(w)
  PROVE  [Jobs!Next]_(Jobs!vars)
  <1>1. /\ wpc[w] = "kill" /\ proc = "up"
        /\ UNCHANGED <<mpc, taken, flags, item, errors, proc>>
    BY DEF KillReaped, mainVars, slotVars, fileVars
  <1>2. wpc \in [Slots -> WorkerPCs] /\ wpc' = [wpc EXCEPT ![w] = AfterKill(w)]
    BY DEF KillReaped, TypeOK
  <1>3. \A s \in Slots : wpc'[s] = IF s = w THEN AfterKill(w) ELSE wpc[s]
    BY <1>2
  <1>4. CASE UNCHANGED outcome
    <2>1. \A s \in Slots : ItemPhase(s)' = ItemPhase(s)
      BY <1>1, <1>3, <1>4 DEF ItemPhase, AfterKill
    <2>2. Phase' = Phase
      BY <1>1, <2>1, SamePhases DEF IsBusy, HandedCount
    <2>3. RunIsOver' = RunIsOver
      BY <1>1 DEF RunIsOver
    <2> QED
      BY <1>1, <1>4, <2>2, <2>3, Stutters
  <1>5. CASE /\ process[pid[w]].state = "running"
             /\ outcome' = [outcome EXCEPT ![process[pid[w]].line] = "killed"]
    <2>1. pid[w] \in Pids
      BY DEF TypeOK
    <2>2. \A s \in Slots : \/ wpc'[s] = wpc[s]
                           \/ wpc[s] = "kill" /\ wpc'[s] = AfterKill(s)
      BY <1>1, <1>3
    <2> QED
      BY <1>1, <1>5, <2>1, <2>2, ProcessEndsEnds
  <1> QED
    BY <1>4, <1>5 DEF KillReaped

LEMMA StepRefines ==
  ASSUME TypeOK, IInv, TypeOK', IInv', [Next]_vars
  PROVE  [Jobs!Next]_(Jobs!vars)
  <1>1. CASE Open \/ CreateThread
    BY <1>1, StartAborts
  <1>2. CASE PutItem
    BY <1>2, PutItemTakes
  <1>3. CASE Polled
    BY <1>3, PolledFinishes
  <1>4. CASE QuietMain
    BY <1>4, QuietMainStutters
  <1>5. ASSUME NEW w \in Slots, Worker(w) PROVE [Jobs!Next]_(Jobs!vars)
    BY <1>5, QuietWorkerStutters, ForkBegins, KillReapedEnds, LogErrorReports, ClearBusyCloses
    DEF Worker
  <1>6. ASSUME NEW p \in Pids, ChildEnds(p) PROVE Jobs!Next
    <2>1. UNCHANGED <<mpc, taken, flags, item, errors, proc, wpc>> /\ process[p].state = "running"
      BY <1>6 DEF ChildEnds, mainVars, slotVars, fileVars
    <2>2. PICK o \in Outcomes : outcome' = [outcome EXCEPT ![process[p].line] = o]
      BY <1>6 DEF ChildEnds
    <2> QED
      BY <2>1, <2>2, ProcessEndsEnds
  <1>7. CASE UNCHANGED vars
    <2>1. Phase' = Phase /\ RunIsOver' = RunIsOver
      BY <1>7 DEF vars, mainVars, slotVars, childVars, fileVars, Phase, PhaseOf, Carriers,
         ItemPhase, HandedCount, RunIsOver
    <2> QED
      BY <1>7, <2>1, Stutters DEF vars, childVars, fileVars
  <1> QED
    BY <1>1, <1>2, <1>3, <1>4, <1>5, <1>6, <1>7 DEF Next, Main, QuietMain

\* The program built on the pool of worker/new implements the job runner:
\* lines are taken in order, at most Count at a time, each run once, reported
\* only if it failed or was killed, and main destroys the pool only when every
\* line is closed.
THEOREM Implementation == Spec => ImplementsJobRunner
  <1>1. TypeOK /\ IInv /\ TypeOK' /\ IInv' /\ [Next]_vars => [Jobs!Next]_(Jobs!vars)
    BY StepRefines
  <1> QED
    BY <1>1, InitRefines, TypeCorrect, PTL DEF Spec, ImplementsJobRunner, Jobs!Spec
=============================================================================
