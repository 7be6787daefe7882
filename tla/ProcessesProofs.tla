-------------------------- MODULE ProcessesProofs --------------------------
(* Theorems about timeout, syscmd and bgrun, for every program they are      *)
(* asked to run, every ssh and every command line: what they leave behind    *)
(* and what they report.                                                     *)
EXTENDS MCProcesses, WellFoundedInduction, TLAPS

-----------------------------------------------------------------------------
(* Induction over the naturals, stated of a set of numbers.                  *)

LEMMA LeastElement ==
  ASSUME NEW Where \in SUBSET Nat, Where # {}
  PROVE  \E m \in Where : \A n \in Where : m <= n
  <1> DEFINE Less == {r \in Nat \X Nat : r[1] < r[2]}
  <1>1. IsWellFoundedOn(Less, Nat)
    BY NatLessThanWellFounded DEF OpToRel
  <1>2. PICK m \in Where : \A n \in Where : <<n, m>> \notin Less
    BY ONLY <1>1, WFMin, Where \in SUBSET Nat, Where # {}
  <1>3. \A n \in Where : <<n, m>> \notin Less => m <= n
    OBVIOUS
  <1> HIDE DEF Less
  <1> QED
    BY <1>2, <1>3

LEMMA SetInduction ==
  ASSUME NEW Where, 0 \in Where, \A n \in Nat : n \in Where => n + 1 \in Where
  PROVE  Nat \subseteq Where
  <1> SUFFICES ASSUME Nat \ Where # {} PROVE FALSE
    OBVIOUS
  <1>1. PICK m \in Nat \ Where : \A n \in Nat \ Where : m <= n
    BY LeastElement
  <1>2. m - 1 \in Nat
    BY <1>1
  <1> QED
    BY <1>1, <1>2

-----------------------------------------------------------------------------
(* timeout.                                                                  *)

LEMMA ProgramType ==
  ASSUME NEW p \in Programs
  PROVE  /\ p.code \in 0..2 /\ \A ending \in p.endings : ending \in T!Ending
  BY InputsAssumption DEF T!ProgramsAssumption

LEMMA EndingIsNone == T!NoEnding \notin T!Ending
                      /\ \A c \in 0..2 : [how |-> "exit", code |-> c] \in T!Ending
                      /\ T!BySignal \in T!Ending
  <1>1. \A e \in T!Ending : e.how # "none"
    BY DEF T!Ending
  <1>2. T!NoEnding.how = "none"
    BY DEF T!NoEnding
  <1>3. \A c \in 0..2 : [how |-> "exit", code |-> c] \in T!Ending
    BY DEF T!Ending
  <1>4. T!BySignal \in T!Ending
    <2>1. [how |-> "signal", code |-> 0] \in [how : {"signal"}, code : {0}]
      OBVIOUS
    <2> QED
      BY <2>1 DEF T!Ending, T!BySignal
  <1> QED
    BY <1>1, <1>2, <1>3, <1>4

LEMMA TimeoutInit == T!Init => T!IInv
  <1> SUFFICES ASSUME T!Init PROVE T!IInv
    OBVIOUS
  <1>1. T!TypeOK
    <2>1. asked \in BOOLEAN /\ reaper \in BOOLEAN
      BY DEF T!Init
    <2> QED
      BY <2>1 DEF T!Init, T!TypeOK
  <1> QED
    BY <1>1 DEF T!Init, T!IInv, T!ChildIsReaped, T!Gone

LEMMA TimeoutMain ==
  ASSUME T!IInv, T!Main
  PROVE  T!IInv'
  <1>1. CASE T!Fork
    BY <1>1 DEF T!Fork, T!IInv, T!TypeOK, T!ChildIsReaped, T!Gone, T!ExitStatus
  <1>2. CASE T!SetHandler
    BY <1>2 DEF T!SetHandler, T!IInv, T!TypeOK, T!ChildIsReaped, T!Gone, T!ExitStatus
  <1>3. CASE T!SetAlarm
    BY <1>3 DEF T!SetAlarm, T!IInv, T!TypeOK, T!ChildIsReaped, T!Gone, T!ExitStatus
  <1>4. CASE T!Wait
    BY <1>4, EndingIsNone
       DEF T!Wait, T!MainRuns, T!IInv, T!TypeOK, T!ChildIsReaped, T!Gone, T!ExitStatus
  <1>5. CASE T!Return
    <2>1. T!ExitStatus \in 0..2
      BY <1>5 DEF T!Return, T!IInv, T!TypeOK, T!ExitStatus, T!Ending
    <2>2. T!ExitStatus' = T!ExitStatus
      BY <1>5 DEF T!Return, T!ExitStatus
    <2> QED
      BY <1>5, <2>1, <2>2
         DEF T!Return, T!MainRuns, T!IInv, T!TypeOK, T!ChildIsReaped, T!Gone
  <1> QED
    BY <1>1, <1>2, <1>3, <1>4, <1>5 DEF T!Main

LEMMA TimeoutSignal ==
  ASSUME T!IInv, NEW sig \in {"TERM", "INT"}, T!Signal(sig)
  PROVE  /\ child' \in {"none", "starting", "running", "zombie", "reaped"}
         /\ asked' \in BOOLEAN /\ cause' \in {"none", "itself", "timeout"}
         /\ stat' \in T!Ending \cup {T!NoEnding}
         /\ child' = child \/ (child \in {"starting", "running"} /\ child' = "zombie")
         /\ child' \in {"zombie", "reaped"} => stat' # T!NoEnding
         /\ cause' = "none" <=> child' \in {"none", "starting", "running"}
         /\ child' = child => stat' = stat
  <1> USE DEF T!IInv, T!TypeOK
  <1>1. CASE T!Ends(T!BySignal, "timeout") /\ UNCHANGED asked /\ child \in {"starting", "running"}
    BY <1>1, EndingIsNone DEF T!Ends
  <1>2. CASE UNCHANGED <<child, stat, cause>>
             /\ asked' = (asked \/ (child = "running" /\ prog[sig] = "exits"))
    <2>1. asked' \in BOOLEAN
      <3>1. asked \in BOOLEAN
        OBVIOUS
      <3>2. asked' = (asked \/ (child = "running" /\ prog[sig] = "exits"))
        BY <1>2
      <3> HIDE DEF T!IInv, T!TypeOK
      <3> QED
        BY ONLY <3>1, <3>2
    <2> QED
      BY <1>2, <2>1
  <1> QED
    BY <1>1, <1>2 DEF T!Signal

LEMMA TimeoutHandler ==
  ASSUME T!IInv, T!Handler
  PROVE  T!IInv'
  <1>1. CASE T!AlarmFires
    <2>1. T!TypeOK'
      BY <1>1 DEF T!AlarmFires, T!IInv, T!TypeOK
    <2> QED
      BY <1>1, <2>1 DEF T!AlarmFires, T!IInv, T!ChildIsReaped, T!Gone, T!ExitStatus
  <1>2. CASE T!SendTerm
    <2>1. T!Signal("TERM")
      BY <1>2 DEF T!SendTerm
    <2> QED
      BY <1>2, <2>1, TimeoutSignal
         DEF T!SendTerm, T!IInv, T!TypeOK, T!ChildIsReaped, T!Gone, T!ExitStatus
  <1>3. CASE T!SendInt
    <2>1. T!Signal("INT")
      BY <1>3 DEF T!SendInt
    <2> QED
      BY <1>3, <2>1, TimeoutSignal
         DEF T!SendInt, T!IInv, T!TypeOK, T!ChildIsReaped, T!Gone, T!ExitStatus
  <1>4. CASE T!MarkKilled
    BY <1>4 DEF T!MarkKilled, T!IInv, T!TypeOK, T!ChildIsReaped, T!Gone, T!ExitStatus
  <1> QED
    BY <1>1, <1>2, <1>3, <1>4 DEF T!Handler

LEMMA TimeoutChild ==
  ASSUME T!IInv, T!Exec \/ T!EndsByItself \/ T!EndsAsAsked
  PROVE  T!IInv'
  <1>1. prog.code \in 0..2 /\ \A ending \in prog.endings : ending \in T!Ending
    BY ProgramType DEF T!IInv, T!TypeOK
  <1>2. CASE T!Exec
    BY <1>2, EndingIsNone
       DEF T!Exec, T!Ends, T!IInv, T!TypeOK, T!ChildIsReaped, T!Gone, T!ExitStatus
  <1>3. CASE T!EndsByItself
    BY <1>1, <1>3, EndingIsNone
       DEF T!EndsByItself, T!Ends, T!IInv, T!TypeOK, T!ChildIsReaped, T!Gone, T!ExitStatus
  <1>4. CASE T!EndsAsAsked
    BY <1>1, <1>4, EndingIsNone
       DEF T!EndsAsAsked, T!Ends, T!IInv, T!TypeOK, T!ChildIsReaped, T!Gone, T!ExitStatus
  <1> QED
    BY <1>2, <1>3, <1>4

LEMMA TimeoutKept ==
  ASSUME T!IInv, UNCHANGED timeoutVars
  PROVE  T!IInv'
  BY DEF timeoutVars, T!IInv, T!TypeOK, T!ChildIsReaped, T!Gone, T!ExitStatus

LEMMA TimeoutIdleStays ==
  ASSUME TimeoutIdle, T!Next \/ UNCHANGED timeoutVars
  PROVE  TimeoutIdle'
  BY DEF TimeoutIdle, timeoutVars, T!Next, T!Main, T!Handler, T!Fork, T!SetHandler, T!SetAlarm,
         T!Wait, T!Return, T!AlarmFires, T!SendTerm, T!SendInt, T!MarkKilled,
         T!Exec, T!EndsByItself, T!EndsAsAsked

LEMMA TimeoutNext ==
  ASSUME TimeoutIdle \/ T!IInv, T!Next \/ UNCHANGED timeoutVars
  PROVE  (TimeoutIdle \/ T!IInv)'
  BY TimeoutMain, TimeoutHandler, TimeoutChild, TimeoutKept, TimeoutIdleStays DEF T!Next

-----------------------------------------------------------------------------
(* syscmd.                                                                   *)

LEMMA JobType ==
  ASSUME NEW j \in Jobs
  PROVE  /\ j.script \in Seq(S!Kind) /\ Len(j.script) \in Nat /\ j.code \in 0..2
         /\ j.sigint \in BOOLEAN
  BY InputsAssumption DEF S!JobsAssumption

LEMMA SyscmdInit == S!Init => S!IInv
  <1> SUFFICES ASSUME S!Init PROVE S!IInv
    OBVIOUS
  <1>1. eatnext \in BOOLEAN /\ unwaited \in BOOLEAN
    BY DEF S!Init
  <1>2. Len(job.script) \in Nat
    BY JobType DEF S!Init
  <1>3. S!TypeOK
    BY <1>1, <1>2 DEF S!Init, S!TypeOK, S!NoStatus, S!BySignalled
  <1> QED
    BY <1>3 DEF S!Init, S!IInv, S!NothingLeftBehind, S!Gone, S!Alive, S!NoStatus

(* The lines on their way grow with the lines ssh has said.                  *)
LEMMA MoreSaid ==
  ASSUME NEW m \in Nat, NEW s \in Seq(1..m)
  PROVE  /\ s \in Seq(1 .. m + 1)
         /\ s \o <<m + 1>> \in Seq(1 .. m + 1)
         /\ s \o <<m + 1, m + 1>> \in Seq(1 .. m + 1)
  <1>1. s \in Seq(1 .. m + 1)
    OBVIOUS
  <1>2. <<m + 1>> \in Seq(1 .. m + 1) /\ <<m + 1, m + 1>> \in Seq(1 .. m + 1)
    OBVIOUS
  <1> QED
    BY <1>1, <1>2

LEMMA SyscmdStarts ==
  ASSUME S!IInv, S!OpenPty \/ S!ForkSsh \/ S!ForkFeeder \/ S!SetTimer
  PROVE  S!IInv'
  <1> USE DEF S!sshVars, S!readVars, S!timerVars, S!Returns, S!Failed, S!GroupKilled, S!NoStatus
  <1>1. S!TypeOK'
    BY DEF S!IInv, S!TypeOK, S!OpenPty, S!ForkSsh, S!ForkFeeder, S!SetTimer
  <1>2. CASE S!OpenPty
    BY <1>1, <1>2 DEF S!OpenPty, S!IInv, S!NothingLeftBehind, S!Gone, S!Alive
  <1>3. CASE S!ForkSsh
    BY <1>1, <1>3 DEF S!ForkSsh, S!IInv, S!NothingLeftBehind, S!Gone, S!Alive
  <1>4. CASE S!ForkFeeder
    BY <1>1, <1>4 DEF S!ForkFeeder, S!IInv, S!NothingLeftBehind, S!Gone, S!Alive
  <1>5. CASE S!SetTimer
    BY <1>1, <1>5 DEF S!SetTimer, S!IInv, S!NothingLeftBehind, S!Gone, S!Alive
  <1> QED
    BY <1>2, <1>3, <1>4, <1>5

LEMMA SyscmdReads ==
  ASSUME S!IInv, S!ReadLine
  PROVE  S!IInv'
  <1> USE DEF S!sshVars, S!readVars, S!timerVars, S!Returns, S!Failed, S!GroupKilled, S!NoStatus
  <1>1. /\ at = "read" /\ out \in Seq(1..said) /\ out # <<>> /\ shown \in Seq(1..said)
        /\ UNCHANGED <<job, said, timer, term, unwaited>> /\ out' = Tail(out)
    BY DEF S!ReadLine, S!IInv, S!TypeOK
  <1>2. out' \in Seq(1..said) /\ Append(shown, Head(out)) \in Seq(1..said)
    <2>1. said \in Nat /\ Head(out) \in 1..said
      BY <1>1 DEF S!IInv, S!TypeOK
    <2> QED
      BY ONLY <1>1, <2>1
  <1>3. CASE S!Eat
    <2>1. UNCHANGED <<shown, ssh, status, feeder, at, outcome>> /\ eatnext' = FALSE
      BY <1>3 DEF S!Eat
    <2>3. eatnext' \in BOOLEAN
      BY ONLY <2>1
    <2>2. S!TypeOK'
      BY <1>1, <1>2, <2>1, <2>3 DEF S!IInv, S!TypeOK
    <2> QED
      BY <1>1, <2>1, <2>2 DEF S!IInv, S!NothingLeftBehind, S!Gone, S!Alive
  <1>4. CASE S!Answer
    <2>1. /\ UNCHANGED <<shown, status, feeder, at, outcome>> /\ eatnext' = TRUE
          /\ ssh' = IF ssh = "asking" THEN "running" ELSE ssh
      BY <1>4 DEF S!Answer
    <2>2. S!TypeOK'
      BY <1>1, <1>2, <2>1 DEF S!IInv, S!TypeOK
    <2> QED
      BY <1>1, <2>1, <2>2 DEF S!IInv, S!NothingLeftBehind, S!Gone, S!Alive
  <1>5. CASE S!Show
    <2>1. UNCHANGED <<eatnext, ssh, status, feeder, at, outcome>> /\ shown' = Append(shown, Head(out))
      BY <1>5 DEF S!Show
    <2>2. S!TypeOK'
      BY <1>1, <1>2, <2>1 DEF S!IInv, S!TypeOK
    <2> QED
      BY <1>1, <2>1, <2>2 DEF S!IInv, S!NothingLeftBehind, S!Gone, S!Alive
  <1>6. CASE S!Abort
    <2>1. /\ UNCHANGED <<shown, eatnext>> /\ feeder' = S!Interrupted(feeder) /\ at' = "gone"
          /\ \/ S!SshDies /\ outcome' = 255
             \/ ~S!Adm(job) /\ job.sigint /\ outcome' = 130 /\ UNCHANGED <<ssh, status>>
      BY <1>6 DEF S!Abort
    <2>2. S!TypeOK'
      BY <1>1, <1>2, <2>1 DEF S!IInv, S!TypeOK, S!SshDies, S!Alive, S!Interrupted, S!BySignalled
    <2>3. job' = job /\ S!Adm(job)' = S!Adm(job)
      BY <1>1 DEF S!Adm
    <2> QED
      BY <1>1, <2>1, <2>2, <2>3
         DEF S!IInv, S!NothingLeftBehind, S!Gone, S!Alive, S!SshDies, S!Interrupted, S!BySignalled
  <1> QED
    BY <1>3, <1>4, <1>5, <1>6 DEF S!ReadLine

LEMMA SyscmdEnds ==
  ASSUME S!IInv, S!EndOfOutput \/ S!StopFeeder \/ S!WaitSsh
  PROVE  S!IInv'
  <1> USE DEF S!sshVars, S!readVars, S!timerVars, S!Returns, S!Failed, S!GroupKilled, S!NoStatus
  <1>1. CASE S!EndOfOutput
    <2>1. S!TypeOK'
      BY <1>1 DEF S!IInv, S!TypeOK, S!EndOfOutput
    <2> QED
      BY <1>1, <2>1 DEF S!EndOfOutput, S!IInv, S!NothingLeftBehind, S!Gone, S!Alive
  <1>2. CASE S!StopFeeder
    <2>1. S!TypeOK'
      BY <1>2 DEF S!IInv, S!TypeOK, S!StopFeeder, S!Interrupted
    <2> QED
      BY <1>2, <2>1
         DEF S!StopFeeder, S!Interrupted, S!IInv, S!NothingLeftBehind, S!Gone, S!Alive
  <1>3. CASE S!WaitSsh
    <2>1. status \in 0..4 /\ status # 3
      BY <1>3 DEF S!IInv, S!TypeOK, S!BySignalled, S!NoStatus, S!WaitSsh
    <2>2. S!ExitStatus \in 0..2 /\ (S!ExitStatus = 0 => status = 0)
      BY <2>1 DEF S!ExitStatus, S!BySignalled
    <2>3. S!TypeOK'
      BY <1>3, <2>2 DEF S!IInv, S!TypeOK, S!WaitSsh
    <2> QED
      BY <1>3, <2>2, <2>3 DEF S!WaitSsh, S!IInv, S!NothingLeftBehind, S!Gone, S!Alive
  <1> QED
    BY <1>1, <1>2, <1>3

LEMMA SyscmdAlarm ==
  ASSUME S!IInv, S!CatchAlarm
  PROVE  S!IInv'
  <1>1. /\ timer = "set" /\ at \in {"read", "stop", "wait"} /\ term' = 1 /\ timer' \in {"off", "set"}
        /\ UNCHANGED <<job, feeder, said, out, eatnext, shown>>
    BY DEF S!CatchAlarm, S!readVars
  <1>2. \/ ssh' = ssh /\ status' = status /\ (term = 1 => ~S!Alive)
        \/ ssh' = (IF S!Alive THEN "zombie" ELSE ssh) /\ status' = (IF S!Alive THEN 4 ELSE status)
    BY DEF S!CatchAlarm, S!SshDies, S!BySignalled
  <1>3. \/ UNCHANGED <<at, outcome, unwaited>>
        \/ at = "read" /\ at' = "stop" /\ UNCHANGED <<outcome, unwaited>>
        \/ at = "wait" /\ S!Alive /\ unwaited' = TRUE /\ at' = "gone" /\ outcome' \in 0..2
    BY DEF S!CatchAlarm, S!Interrupts, S!Returns
  <1>4. unwaited' \in BOOLEAN
    <2>1. unwaited \in BOOLEAN
      BY DEF S!IInv, S!TypeOK
    <2> QED
      BY <1>3, <2>1
  <1>5. S!TypeOK'
    BY <1>1, <1>2, <1>3, <1>4 DEF S!IInv, S!TypeOK, S!Alive, S!BySignalled
  <1>6. at = "wait" /\ S!Alive => ssh' = "zombie"
    BY DEF S!CatchAlarm, S!SshDies, S!IInv
  <1>7. job' = job /\ S!Adm(job)' = S!Adm(job)
    BY <1>1 DEF S!Adm
  <1>8. /\ ssh' \in {"zombie", "reaped"} => status' # S!NoStatus
        /\ S!Alive' => S!Alive
    BY <1>2 DEF S!IInv, S!NoStatus, S!Alive
  <1> QED
    BY <1>1, <1>3, <1>5, <1>6, <1>7, <1>8 DEF S!IInv, S!NothingLeftBehind, S!Gone, S!Alive

LEMMA SyscmdOthers ==
  ASSUME S!IInv, S!SshSays \/ S!SshEnds \/ S!FeederOpens \/ S!FeederBreaks
  PROVE  S!IInv'
  <1> USE DEF S!sshVars, S!readVars, S!timerVars
  <1>0. Len(job.script) \in Nat /\ job.code \in 0..2
    BY JobType DEF S!IInv, S!TypeOK
  <1>1. CASE S!SshSays
    <2>1. /\ said \in Nat /\ said + 1 <= Len(job.script) /\ said' = said + 1
          /\ out \in Seq(1..said) /\ shown \in Seq(1..said)
      BY <1>0, <1>1 DEF S!SshSays, S!IInv, S!TypeOK
    <2>2. out' = out \o <<said + 1>> \/ out' = out \o <<said + 1, said + 1>>
      BY <1>1 DEF S!SshSays
    <2>3. out' \in Seq(1..said') /\ shown' \in Seq(1..said')
      <3>1. shown' = shown
        BY <1>1 DEF S!SshSays
      <3> QED
        BY ONLY <2>1, <2>2, <3>1, MoreSaid
    <2>4. ssh = "running" /\ ssh' \in {"running", "asking"}
          /\ UNCHANGED <<job, at, feeder, status, eatnext, shown, timer, term, unwaited, outcome>>
      BY <1>1 DEF S!SshSays
    <2>5. S!TypeOK'
      BY <1>0, <2>1, <2>3, <2>4 DEF S!IInv, S!TypeOK
    <2> QED
      BY <2>4, <2>5 DEF S!IInv, S!NothingLeftBehind, S!Gone, S!Alive
  <1>2. CASE S!SshEnds
    <2>1. S!TypeOK'
      BY <1>0, <1>2 DEF S!SshEnds, S!IInv, S!TypeOK, S!BySignalled
    <2> QED
      BY <1>0, <1>2, <2>1 DEF S!SshEnds, S!IInv, S!NothingLeftBehind, S!Gone, S!Alive, S!NoStatus
  <1>3. CASE S!FeederOpens
    <2>1. S!TypeOK'
      BY <1>3 DEF S!FeederOpens, S!IInv, S!TypeOK
    <2> QED
      BY <1>3, <2>1 DEF S!FeederOpens, S!IInv, S!NothingLeftBehind, S!Gone, S!Alive
  <1>4. CASE S!FeederBreaks
    <2>1. S!TypeOK'
      BY <1>4 DEF S!FeederBreaks, S!IInv, S!TypeOK
    <2> QED
      BY <1>4, <2>1 DEF S!FeederBreaks, S!IInv, S!NothingLeftBehind, S!Gone, S!Alive
  <1> QED
    BY <1>1, <1>2, <1>3, <1>4

(* What syscmd shows.  The concatenation of the first n + 1 of a sequence of *)
(* sequences is that of the first n, and the next; flatten of SequencesExt   *)
(* is a function defined by recursion, so that there is one comes first.     *)

Flat(L, n, f) == f = [i \in 1..n |-> IF i = 1 THEN L[i] ELSE f[i - 1] \o L[i]]

LEMMA FlatExists ==
  ASSUME NEW L, NEW m \in Nat
  PROVE  \E f : Flat(L, m, f)
  <1> DEFINE Good == {n \in Nat : \E f : Flat(L, n, f)}
  <1>1. 0 \in Good
    <2>1. Flat(L, 0, [i \in 1..0 |-> 0])
      BY DEF Flat
    <2> QED
      BY <2>1
  <1>2. ASSUME NEW n \in Nat, n \in Good PROVE n + 1 \in Good
    <2>1. PICK f : Flat(L, n, f)
      BY <1>2
    <2> DEFINE g == [i \in 1 .. n + 1 |-> IF i = 1 THEN L[i] ELSE f[i - 1] \o L[i]]
    <2>2. \A i \in 1..n : f[i] = IF i = 1 THEN L[i] ELSE f[i - 1] \o L[i]
      BY <2>1 DEF Flat
    <2>3. \A i \in 1..n : g[i] = f[i]
      BY <2>2
    <2>4. \A i \in 1 .. n + 1 : g[i] = IF i = 1 THEN L[i] ELSE g[i - 1] \o L[i]
      <3> SUFFICES ASSUME NEW i \in 1 .. n + 1
                   PROVE  g[i] = IF i = 1 THEN L[i] ELSE g[i - 1] \o L[i]
        OBVIOUS
      <3>1. i # 1 => i - 1 \in 1..n
        OBVIOUS
      <3>2. i # 1 => g[i - 1] = f[i - 1]
        BY <2>3, <3>1
      <3>3. g[i] = IF i = 1 THEN L[i] ELSE f[i - 1] \o L[i]
        OBVIOUS
      <3> HIDE DEF g
      <3> QED
        BY <3>2, <3>3
    <2>5. g = [i \in 1 .. n + 1 |-> g[i]]
      OBVIOUS
    <2> HIDE DEF g
    <2>6. Flat(L, n + 1, g)
      BY <2>4, <2>5 DEF Flat
    <2> QED
      BY <2>6
  <1> HIDE DEF Good
  <1>3. Nat \subseteq Good
    BY <1>1, <1>2, SetInduction
  <1> QED
    BY <1>3 DEF Good

LEMMA FlatAgree ==
  ASSUME NEW L, NEW M, NEW n \in Nat, NEW m \in Nat, n <= m, NEW f, NEW g,
         Flat(L, n, f), Flat(M, m, g), \A i \in 1..n : L[i] = M[i]
  PROVE  \A i \in 1..n : f[i] = g[i]
  <1> DEFINE Good == {i \in Nat : i \in 1..n => f[i] = g[i]}
  <1>1. 0 \in Good
    OBVIOUS
  <1>2. \A i \in 1..n : f[i] = IF i = 1 THEN L[i] ELSE f[i - 1] \o L[i]
    BY DEF Flat
  <1>3. \A i \in 1..m : g[i] = IF i = 1 THEN M[i] ELSE g[i - 1] \o M[i]
    BY DEF Flat
  <1>4. ASSUME NEW i \in Nat, i \in Good PROVE i + 1 \in Good
    <2>1. SUFFICES ASSUME i + 1 \in 1..n PROVE f[i + 1] = g[i + 1]
      OBVIOUS
    <2>2. i + 1 \in 1..m /\ (i = 0 \/ i \in 1..n) /\ (i + 1) - 1 = i
      BY <2>1
    <2>3. f[i + 1] = IF i + 1 = 1 THEN L[i + 1] ELSE f[i] \o L[i + 1]
      BY <1>2, <2>1, <2>2
    <2>4. g[i + 1] = IF i + 1 = 1 THEN M[i + 1] ELSE g[i] \o M[i + 1]
      BY <1>3, <2>2
    <2>5. L[i + 1] = M[i + 1] /\ (i # 0 => f[i] = g[i])
      BY <1>4, <2>1, <2>2
    <2> QED
      BY <2>3, <2>4, <2>5
  <1> HIDE DEF Good
  <1>5. Nat \subseteq Good
    BY <1>1, <1>4, SetInduction
  <1> QED
    BY <1>5 DEF Good

LEMMA FlattenIsFlat ==
  ASSUME NEW s, Len(s) \in Nat, Len(s) > 0, NEW f, Flat(s, Len(s), f)
  PROVE  S!FlattenSeq(s) = f[Len(s)]
  <1> DEFINE h == CHOOSE h : h = [i \in 1..Len(s) |-> IF i = 1 THEN s[i] ELSE h[i - 1] \o s[i]]
  <1>1. Flat(s, Len(s), h)
    BY DEF Flat
  <1>2. h[Len(s)] = f[Len(s)]
    BY <1>1, FlatAgree
  <1>3. S!FlattenSeq(s) = h[Len(s)]
    BY DEF S!FlattenSeq
  <1> QED
    BY <1>2, <1>3

LEMMA FlattenStep ==
  ASSUME NEW s \in Seq(Seq(Nat)), NEW n \in Nat, n < Len(s)
  PROVE  S!FlattenSeq(SubSeq(s, 1, n + 1)) = S!FlattenSeq(SubSeq(s, 1, n)) \o s[n + 1]
  <1> DEFINE a == SubSeq(s, 1, n)
             b == SubSeq(s, 1, n + 1)
  <1>1. Len(a) = n /\ \A i \in 1..n : a[i] = s[i]
    OBVIOUS
  <1>2. Len(b) = n + 1 /\ \A i \in 1 .. n + 1 : b[i] = s[i]
    OBVIOUS
  <1>3. s[n + 1] \in Seq(Nat)
    OBVIOUS
  <1>4. n = 0 => a = <<>>
    OBVIOUS
  <1> HIDE DEF a, b
  <1>5. /\ n + 1 \in Nat /\ n + 1 > 0 /\ n <= n + 1 /\ n + 1 \in 1 .. n + 1
        /\ (n + 1) - 1 = n /\ (n # 0 => n > 0 /\ n + 1 # 1 /\ n \in 1..n)
        /\ \A i \in 1..n : i \in 1 .. n + 1
    OBVIOUS
  <1>6. PICK f : Flat(a, n, f)
    BY FlatExists
  <1>7. PICK g : Flat(b, n + 1, g)
    BY <1>5, FlatExists
  <1>8. S!FlattenSeq(b) = g[n + 1]
    BY <1>2, <1>5, <1>7, FlattenIsFlat
  <1>9. g[n + 1] = IF n + 1 = 1 THEN b[n + 1] ELSE g[n] \o b[n + 1]
    <2>1. \A i \in 1 .. n + 1 : g[i] = IF i = 1 THEN b[i] ELSE g[i - 1] \o b[i]
      BY ONLY <1>7 DEF Flat
    <2> QED
      BY ONLY <1>5, <2>1
  <1>10. b[n + 1] = s[n + 1]
    BY ONLY <1>2, <1>5
  <1>11. S!FlattenSeq(b) = S!FlattenSeq(a) \o s[n + 1]
    <2>1. CASE n = 0
      <3>1. S!FlattenSeq(a) = <<>>
        BY <1>1, <1>4, <2>1 DEF S!FlattenSeq
      <3>2. S!FlattenSeq(b) = s[n + 1]
        BY <1>8, <1>9, <1>10, <2>1
      <3> QED
        BY ONLY <1>3, <3>1, <3>2
    <2>2. CASE n # 0
      <3>1. S!FlattenSeq(a) = f[n]
        BY ONLY <1>1, <1>5, <1>6, <2>2, n \in Nat, FlattenIsFlat
      <3>2. \A i \in 1..n : a[i] = b[i]
        BY ONLY <1>1, <1>2, <1>5
      <3>3. f[n] = g[n]
        <4>1. \A i \in 1..n : f[i] = g[i]
          BY ONLY <1>5, <1>6, <1>7, <3>2, n \in Nat, FlatAgree
        <4> QED
          BY ONLY <1>5, <2>2, <4>1
      <3> QED
        BY ONLY <1>5, <1>8, <1>9, <1>10, <2>2, <3>1, <3>3
    <2> QED
      BY <2>1, <2>2
  <1> QED
    BY <1>11 DEF a, b

LEMMA FunctionIsSeq ==
  ASSUME NEW n \in Nat, NEW U, NEW f \in [1..n -> U]
  PROVE  f \in Seq(U) /\ Len(f) = n
  OBVIOUS

LEMMA EndOfSeq ==
  ASSUME NEW U, NEW s \in Seq(U), NEW x \in U
  PROVE  s \o <<>> = s /\ Append(s, x) = s \o <<x>>
  OBVIOUS

LEMMA LinesAreLines ==
  ASSUME S!IInv
  PROVE  /\ S!Lines \in Seq(Seq(Nat)) /\ Len(S!Lines) = Len(job.script)
         /\ \A k \in 1..Len(job.script) :
              S!Lines[k] = IF job.script[k] = "text" /\ ~S!Hidden(k) THEN <<k>> ELSE <<>>
  <1>1. Len(job.script) \in Nat
    BY JobType DEF S!IInv, S!TypeOK
  <1>2. \A k \in 1..Len(job.script) :
          S!Lines[k] = IF job.script[k] = "text" /\ ~S!Hidden(k) THEN <<k>> ELSE <<>>
    BY DEF S!Lines
  <1>3. \A k \in Nat : <<k>> \in Seq(Nat) /\ <<>> \in Seq(Nat)
    OBVIOUS
  <1>4. DOMAIN S!Lines = 1..Len(job.script)
    BY DEF S!Lines
  <1>5. S!Lines = [k \in 1..Len(job.script) |-> S!Lines[k]]
    BY DEF S!Lines
  <1>6. \A k \in 1..Len(job.script) : S!Lines[k] \in Seq(Nat)
    <2> SUFFICES ASSUME NEW k \in 1..Len(job.script) PROVE S!Lines[k] \in Seq(Nat)
      OBVIOUS
    <2>1. S!Lines[k] = <<k>> \/ S!Lines[k] = <<>>
      BY <1>2
    <2>2. k \in Nat
      BY <1>1
    <2> QED
      BY ONLY <1>3, <2>1, <2>2
  <1>7. S!Lines \in [1..Len(job.script) -> Seq(Nat)]
    BY ONLY <1>5, <1>6
  <1> QED
    BY <1>1, <1>2, <1>7, FunctionIsSeq

LEMMA ForwardReads ==
  ASSUME S!IInv, S!Forwarding, S!ReadLine, ~S!Gone', "torn" \notin S!ToSet(job.script)
  PROVE  S!Forwarding'
  <1> DEFINE r == S!Read
             kind == job.script[r + 1]
  <1>1. /\ at = "read" /\ out \in Seq(1..said) /\ out # <<>> /\ out' = Tail(out)
        /\ job' = job /\ said' = said /\ said \in 0..Len(job.script)
        /\ Len(job.script) \in Nat /\ eatnext \in BOOLEAN /\ said \in Nat
    BY JobType DEF S!ReadLine, S!IInv, S!TypeOK
  <1>2. /\ Len(out) \in Nat /\ Len(out) > 0 /\ Len(out') = Len(out) - 1
        /\ Head(out) = out[1] /\ \A i \in 1..Len(out') : out'[i] = out[i + 1]
        /\ DOMAIN out = 1..Len(out) /\ DOMAIN out' = 1..Len(out')
    BY ONLY <1>1
  <1>3. r = said - Len(out) /\ S!Read' = said' - Len(out') /\ r >= 0
        /\ \A i \in DOMAIN out : out[i] = r + i
    BY DEF S!Forwarding, S!Read
  <1> HIDE DEF r
  <1>4. r \in Nat /\ S!Read' = r + 1 /\ r + 1 <= said /\ r + 1 \in 1..Len(job.script)
    BY ONLY <1>1, <1>2, <1>3
  <1>5. Head(out) = r + 1
    BY ONLY <1>2, <1>3
  <1>6. \A i \in DOMAIN out' : out'[i] = (r + 1) + i
    <2> SUFFICES ASSUME NEW i \in DOMAIN out' PROVE out'[i] = (r + 1) + i
      OBVIOUS
    <2>1. i \in 1..Len(out') /\ i + 1 \in DOMAIN out /\ i \in Nat
      BY ONLY <1>2
    <2>2. out'[i] = r + (i + 1)
      BY ONLY <1>2, <1>3, <2>1
    <2> QED
      BY ONLY <1>4, <2>1, <2>2
  <1>7. kind # "torn"
    BY JobType, <1>4 DEF S!IInv, S!TypeOK, S!ToSet
  <1>8. eatnext <=> r > 0 /\ S!Asks(r)
    BY <1>1 DEF S!Forwarding, r
  <1>9. S!Hidden(r + 1) <=> eatnext
    <2>1. r + 1 > 1 <=> r > 0
      BY ONLY <1>4
    <2>2. (r + 1) - 1 = r
      BY ONLY <1>4
    <2> QED
      BY <1>8, <2>1, <2>2 DEF S!Hidden
  <1>10. S!Lines[r + 1] = IF kind = "text" /\ ~eatnext THEN <<r + 1>> ELSE <<>>
    BY <1>4, <1>9, LinesAreLines
  <1>11. shown \in Seq(1..said) /\ shown = S!FlattenSeq(SubSeq(S!Lines, 1, r))
    BY DEF S!IInv, S!TypeOK, S!Forwarding, r
  <1>12. S!FlattenSeq(SubSeq(S!Lines, 1, r + 1)) = shown \o S!Lines[r + 1]
    <2>1. S!Lines \in Seq(Seq(Nat)) /\ r < Len(S!Lines) /\ r \in Nat
      BY <1>1, <1>4, LinesAreLines
    <2>2. S!FlattenSeq(SubSeq(S!Lines, 1, r + 1)) = S!FlattenSeq(SubSeq(S!Lines, 1, r)) \o S!Lines[r + 1]
      BY ONLY <2>1, FlattenStep
    <2> QED
      BY ONLY <1>11, <2>2
  <1>13. /\ shown' = shown \o S!Lines[r + 1]
         /\ \/ (eatnext' <=> S!Asks(r + 1)) /\ (ssh' = ssh \/ (S!Asks(r + 1) /\ ssh' = "running"))
            \/ (S!Asks(r + 1) /\ ssh' = ssh)
         /\ ssh' \in {"zombie", "reaped"} => ssh' = ssh
         /\ ssh' = "none" => ssh' = ssh
         /\ at' = at
    <2>1. shown \o <<>> = shown /\ Append(shown, r + 1) = shown \o <<r + 1>>
      <3>1. shown \in Seq(1..said) /\ r + 1 \in 1..said
        BY ONLY <1>1, <1>4, <1>11
      <3> QED
        BY ONLY <3>1, EndOfSeq
    <2>2. CASE S!Eat
      <3>1. UNCHANGED <<shown, ssh, at>> /\ eatnext' = FALSE /\ (eatnext \/ kind = "noise")
        BY <1>5, <2>2 DEF S!Eat
      <3>2. S!Lines[r + 1] = <<>>
        BY <1>10, <3>1
      <3>3. shown' = shown \o S!Lines[r + 1]
        BY ONLY <2>1, <3>1, <3>2
      <3>4. ~eatnext'
        BY ONLY <3>1
      <3>6. ssh' = ssh /\ at' = at
        BY ONLY <3>1
      <3>5. (eatnext' <=> S!Asks(r + 1)) \/ S!Asks(r + 1)
        BY ONLY <3>4
      <3> QED
        BY Zenon, <3>3, <3>5, <3>6
    <2>3. CASE ~eatnext /\ S!Answer
      <3>1. UNCHANGED <<shown, at>> /\ eatnext' = TRUE /\ kind \in {"sure", "password"}
            /\ ssh' = (IF ssh = "asking" THEN "running" ELSE ssh)
        BY <1>5, <2>3 DEF S!Answer
      <3>2. S!Lines[r + 1] = <<>> /\ S!Asks(r + 1)
        BY <1>10, <3>1 DEF S!Asks
      <3> QED
        BY ONLY <2>1, <3>1, <3>2
    <2>4. CASE ~eatnext /\ S!Show
      <3>1. UNCHANGED <<eatnext, ssh, at>> /\ kind = "text" /\ shown' = Append(shown, r + 1)
        BY <1>5, <1>7, <2>4 DEF S!Show
      <3>2. S!Lines[r + 1] = <<r + 1>> /\ ~S!Asks(r + 1)
        BY <1>10, <2>4, <3>1 DEF S!Asks
      <3>3. shown' = shown \o S!Lines[r + 1] /\ ssh' = ssh /\ at' = at
        BY ONLY <2>1, <3>1, <3>2
      <3>4. eatnext' = eatnext
        BY ONLY <3>1
      <3>5. ~eatnext
        BY ONLY <2>4
      <3> QED
        BY Zenon, <3>2, <3>3, <3>4, <3>5
    <2>5. ~S!Abort
      BY DEF S!Abort, S!Returns, S!Gone
    <2> QED
      BY <2>2, <2>3, <2>4, <2>5 DEF S!ReadLine
  <1> HIDE DEF kind
  <1>14. /\ \A k \in r + 1..said : S!Asks(k) => k = said /\ ssh = "asking"
         /\ ssh \in {"zombie", "reaped"} => said = Len(job.script)
         /\ ssh # "none"
    BY <1>1 DEF S!Forwarding, r
  <1>15. S!Asks(r + 1) => said = r + 1 /\ ssh = "asking" /\ out' = <<>>
    BY <1>1, <1>2, <1>3, <1>4, <1>14
  <1>16. \A k : S!Asks(k)' <=> S!Asks(k)
    BY <1>1 DEF S!Asks
  <1>17. S!Lines' = S!Lines
    BY <1>1 DEF S!Lines, S!Hidden, S!Asks
  <1>18. shown' = S!FlattenSeq(SubSeq(S!Lines, 1, r + 1))
    BY ONLY <1>12, <1>13
  <1>19. \A k \in (r + 1) + 1..said : S!Asks(k) => k = said /\ ssh' = "asking"
    <2> SUFFICES ASSUME NEW k \in (r + 1) + 1..said, S!Asks(k) PROVE k = said /\ ssh' = "asking"
      OBVIOUS
    <2>1. k \in r + 1..said /\ said # r + 1
      BY ONLY <1>1, <1>4
    <2>2. ssh' = ssh
      BY ONLY <1>13, <1>15, <2>1
    <2> QED
      BY ONLY <1>14, <2>1, <2>2, S!Asks(k)
  <1>20. \/ eatnext' <=> r + 1 > 0 /\ S!Asks(r + 1)
         \/ ssh' = "asking" /\ out' = <<>>
    BY ONLY <1>4, <1>13, <1>15
  <1>21. S!Forwarding' =
           (/\ S!Read' >= 0 /\ \A i \in DOMAIN out' : out'[i] = S!Read' + i
            /\ \A k \in S!Read' + 1..said' : S!Asks(k)' => k = said' /\ ssh' = "asking"
            /\ \/ eatnext' <=> S!Read' > 0 /\ S!Asks(S!Read)'
               \/ ssh' = "asking" /\ out' = <<>>
            /\ shown' = S!FlattenSeq(SubSeq(S!Lines', 1, S!Read'))
            /\ ssh' \in {"zombie", "reaped"} => said' = Len(job'.script)
            /\ at' \notin {"pty", "fork", "ssh"} => ssh' # "none"
            /\ at' \in {"stop", "wait"} => out' = <<>>)
    BY DEF S!Forwarding
  <1>22. S!Asks(S!Read)' <=> S!Asks(r + 1)
    BY <1>1, <1>4 DEF S!Asks
  <1>23. r + 1 >= 0
    BY ONLY <1>4
  <1> HIDE DEF r
  <1> QED
    BY ONLY <1>1, <1>4, <1>6, <1>13, <1>14, <1>16, <1>17, <1>18, <1>19, <1>20, <1>21, <1>22, <1>23

LEMMA ForwardSays ==
  ASSUME S!IInv, S!Forwarding, S!SshSays, term = 0, "torn" \notin S!ToSet(job.script)
  PROVE  S!Forwarding'
  <1> DEFINE r == S!Read
  <1>1. /\ ssh = "running" /\ said \in Nat /\ said + 1 \in 1..Len(job.script) /\ said' = said + 1
        /\ out \in Seq(1..said) /\ UNCHANGED <<job, at, eatnext, shown>>
        /\ Len(job.script) \in Nat
    BY JobType DEF S!SshSays, S!readVars, S!IInv, S!TypeOK
  <1>2. job.script[said + 1] # "torn"
    BY JobType, <1>1 DEF S!IInv, S!TypeOK, S!ToSet
  <1>3. /\ out' = out \o <<said + 1>> /\ ssh' \in {"running", "asking"}
        /\ job.script[said + 1] \in {"sure", "password"} => ssh' = "asking"
    BY <1>1, <1>2 DEF S!SshSays
  <1>4. /\ Len(out) \in Nat /\ Len(out') = Len(out) + 1 /\ DOMAIN out = 1..Len(out)
        /\ DOMAIN out' = 1 .. Len(out) + 1
        /\ \A i \in 1..Len(out) : out'[i] = out[i]
        /\ out'[Len(out) + 1] = said + 1
    BY ONLY <1>1, <1>3
  <1>5. /\ r = said - Len(out) /\ S!Read' = said' - Len(out') /\ r >= 0
        /\ \A i \in DOMAIN out : out[i] = r + i
    BY DEF S!Forwarding, S!Read
  <1>6. (\A k \in r + 1..said : ~S!Asks(k)) /\ (eatnext <=> r > 0 /\ S!Asks(r))
        /\ shown = S!FlattenSeq(SubSeq(S!Lines, 1, r))
    BY <1>1 DEF S!Forwarding, r
  <1> HIDE DEF r
  <1>7. r \in Nat /\ S!Read' = r
    BY ONLY <1>1, <1>4, <1>5
  <1>8. \A i \in DOMAIN out' : out'[i] = r + i
    <2> SUFFICES ASSUME NEW i \in DOMAIN out' PROVE out'[i] = r + i
      OBVIOUS
    <2>1. CASE i = Len(out) + 1
      BY ONLY <1>1, <1>4, <1>5, <2>1
    <2>2. CASE i \in 1..Len(out)
      BY ONLY <1>4, <1>5, <2>2
    <2> QED
      BY ONLY <1>4, <2>1, <2>2
  <1>9. \A k : S!Asks(k)' <=> S!Asks(k)
    BY <1>1 DEF S!Asks
  <1>10. \A k \in r + 1 .. said + 1 : S!Asks(k) => k = said + 1 /\ ssh' = "asking"
    <2> SUFFICES ASSUME NEW k \in r + 1 .. said + 1, S!Asks(k) PROVE k = said + 1 /\ ssh' = "asking"
      OBVIOUS
    <2>1. k \notin r + 1..said
      BY ONLY <1>6, S!Asks(k)
    <2>2. k = said + 1
      BY ONLY <1>1, <1>7, <2>1
    <2> QED
      BY <1>3, <2>2 DEF S!Asks
  <1>11. S!Lines' = S!Lines
    BY <1>1 DEF S!Lines, S!Hidden, S!Asks
  <1>12. at \notin {"stop", "wait"}
    BY <1>1 DEF S!IInv, S!Alive
  <1>13. S!Asks(S!Read)' <=> S!Asks(r)
    BY <1>1, <1>7 DEF S!Asks
  <1>14. eatnext' <=> S!Read' > 0 /\ S!Asks(S!Read)'
    BY ONLY <1>1, <1>6, <1>7, <1>13
  <1>15. S!Read' >= 0
    BY ONLY <1>7
  <1>16. shown' = S!FlattenSeq(SubSeq(S!Lines', 1, S!Read'))
    BY ONLY <1>1, <1>6, <1>7, <1>11
  <1> QED
    BY <1>1, <1>3, <1>7, <1>8, <1>9, <1>10, <1>12, <1>14, <1>15, <1>16 DEF S!Forwarding

(* The steps that read and write nothing.                                    *)
LEMMA ForwardSame ==
  ASSUME S!Forwarding, UNCHANGED <<job, said, out, eatnext, shown>>,
         ssh' = ssh \/ (ssh # "asking" /\ ssh' # "asking"),
         ssh' \in {"zombie", "reaped"} => said = Len(job.script),
         at' \notin {"pty", "fork", "ssh"} => ssh' # "none",
         at' \in {"stop", "wait"} => out = <<>>
  PROVE  S!Forwarding'
  <1>1. S!Lines' = S!Lines
    BY DEF S!Lines, S!Hidden, S!Asks
  <1>2. S!Read' = S!Read
    BY DEF S!Read
  <1>3. \A k : S!Asks(k)' <=> S!Asks(k)
    BY DEF S!Asks
  <1>4. S!Asks(S!Read)' <=> S!Asks(S!Read)
    BY <1>2 DEF S!Asks
  <1> QED
    BY <1>1, <1>2, <1>3, <1>4 DEF S!Forwarding

LEMMA ForwardBegin == S!Init => S!ForwardInv
  <1> SUFFICES ASSUME S!Init PROVE S!Forwarding
    BY DEF S!ForwardInv
  <1>1. /\ said = 0 /\ out = <<>> /\ eatnext = FALSE /\ shown = <<>> /\ at = "pty" /\ ssh = "none"
    BY DEF S!Init
  <1>3. S!Read = 0
    <2>1. said = 0 /\ Len(out) = 0
      BY ONLY <1>1
    <2> QED
      BY <2>1 DEF S!Read
  <1>2. S!FlattenSeq(SubSeq(S!Lines, 1, 0)) = <<>>
    <2>1. SubSeq(S!Lines, 1, 0) = <<>>
      OBVIOUS
    <2> QED
      BY <2>1 DEF S!FlattenSeq
  <1> QED
    BY <1>1, <1>2, <1>3 DEF S!Forwarding

LEMMA ForwardNext ==
  ASSUME S!IInv, S!ForwardInv, S!Next \/ UNCHANGED syscmdVars
  PROVE  S!ForwardInv'
  <1> SUFFICES ASSUME ~S!Gone', term' = 0, "torn" \notin S!ToSet(job'.script)
               PROVE  S!Forwarding'
    BY DEF S!ForwardInv
  <1> USE DEF S!sshVars, S!readVars, S!timerVars, S!Returns
  <1>1. job' = job /\ ~S!Gone /\ term = 0
    BY DEF S!Next, S!Parent, S!OpenPty, S!ForkSsh, S!ForkFeeder, S!SetTimer, S!ReadLine,
           S!EndOfOutput, S!StopFeeder, S!WaitSsh, S!CatchAlarm, S!SshSays, S!SshEnds,
           S!FeederOpens, S!FeederBreaks, S!Gone, syscmdVars
  <1>2. S!Forwarding /\ "torn" \notin S!ToSet(job.script)
    BY <1>1 DEF S!ForwardInv
  <1>3. /\ ssh \in {"zombie", "reaped"} => said = Len(job.script)
        /\ at \notin {"pty", "fork", "ssh"} => ssh # "none"
        /\ at \in {"stop", "wait"} => out = <<>>
    BY <1>2 DEF S!Forwarding
  <1>4. CASE S!OpenPty
    BY <1>1, <1>2, <1>3, <1>4, ForwardSame DEF S!OpenPty, S!Gone
  <1>5. CASE S!ForkSsh
    BY <1>1, <1>2, <1>3, <1>5, ForwardSame DEF S!ForkSsh, S!Gone, S!IInv
  <1>6. CASE S!ForkFeeder \/ S!SetTimer
    BY <1>1, <1>2, <1>3, <1>6, ForwardSame DEF S!ForkFeeder, S!SetTimer, S!Gone
  <1>7. CASE S!ReadLine
    BY <1>2, <1>7, ForwardReads
  <1>8. CASE S!EndOfOutput \/ S!StopFeeder \/ S!WaitSsh
    BY <1>1, <1>2, <1>3, <1>8, ForwardSame DEF S!EndOfOutput, S!StopFeeder, S!WaitSsh, S!Gone
  <1>9. CASE S!CatchAlarm
    BY <1>9 DEF S!CatchAlarm
  <1>10. CASE S!SshSays
    BY <1>1, <1>2, <1>10, ForwardSays
  <1>11. CASE S!SshEnds
    BY <1>1, <1>2, <1>3, <1>11, ForwardSame DEF S!SshEnds
  <1>12. CASE S!FeederOpens \/ S!FeederBreaks \/ UNCHANGED syscmdVars
    BY <1>1, <1>2, <1>3, <1>12, ForwardSame DEF S!FeederOpens, S!FeederBreaks, syscmdVars
  <1> QED
    BY <1>4, <1>5, <1>6, <1>7, <1>8, <1>9, <1>10, <1>11, <1>12 DEF S!Next, S!Parent

LEMMA SyscmdKept ==
  ASSUME S!IInv, UNCHANGED syscmdVars
  PROVE  S!IInv'
  <1>1. S!TypeOK'
    BY DEF syscmdVars, S!IInv, S!TypeOK
  <1> QED
    BY <1>1 DEF syscmdVars, S!IInv, S!NothingLeftBehind, S!Gone, S!Alive

LEMMA SyscmdIdleStays ==
  ASSUME SyscmdIdle, S!Next \/ UNCHANGED syscmdVars
  PROVE  SyscmdIdle'
  BY DEF SyscmdIdle, syscmdVars, S!Next, S!Parent, S!OpenPty, S!ForkSsh, S!ForkFeeder, S!SetTimer,
         S!ReadLine, S!EndOfOutput, S!StopFeeder, S!WaitSsh, S!CatchAlarm, S!SshSays, S!SshEnds,
         S!FeederOpens, S!FeederBreaks

LEMMA SyscmdNext ==
  ASSUME SyscmdIdle \/ (S!IInv /\ S!ForwardInv), S!Next \/ UNCHANGED syscmdVars
  PROVE  (SyscmdIdle \/ (S!IInv /\ S!ForwardInv))'
  <1>1. ASSUME S!IInv PROVE S!IInv'
    BY <1>1, SyscmdStarts, SyscmdReads, SyscmdEnds, SyscmdAlarm, SyscmdOthers, SyscmdKept
       DEF S!Next, S!Parent
  <1> QED
    BY <1>1, ForwardNext, SyscmdIdleStays

-----------------------------------------------------------------------------
(* bgrun.                                                                    *)

LEMMA OrderType ==
  ASSUME NEW o \in Orders
  PROVE  Len(o.prints) \in Nat /\ o.log \in BOOLEAN
  BY InputsAssumption DEF B!OrdersAssumption

LEMMA BgrunInit == B!Init => B!IInv
  <1> SUFFICES ASSUME B!Init PROVE B!IInv
    OBVIOUS
  <1>1. Len(order.prints) \in Nat /\ logopen \in BOOLEAN
    BY OrderType DEF B!Init
  <1>2. B!TypeOK
    BY <1>1 DEF B!Init, B!TypeOK, B!NotReturned
  <1> QED
    BY <1>2 DEF B!Init, B!IInv

LEMMA BgrunLauncher ==
  ASSUME B!IInv, B!CheckProgram \/ B!OpenLog \/ B!ForkDaemon
  PROVE  B!IInv'
  <1> USE DEF B!GoesOn, B!Fails, B!NotReturned
  <1>0. order.log \in BOOLEAN
    BY OrderType DEF B!IInv, B!TypeOK
  <1>1. CASE B!CheckProgram
    <2>1. B!TypeOK'
      BY <1>1 DEF B!CheckProgram, B!IInv, B!TypeOK
    <2> QED
      BY <1>0, <1>1, <2>1 DEF B!CheckProgram, B!IInv, B!TypeOK
  <1>2. CASE B!OpenLog
    <2>1. logopen' \in BOOLEAN
      <3>1. logopen' = TRUE \/ logopen' = logopen
        BY <1>2 DEF B!OpenLog
      <3>2. logopen \in BOOLEAN
        BY DEF B!IInv, B!TypeOK
      <3> QED
        BY <3>1, <3>2
    <2>2. B!TypeOK'
      <3>1. /\ launcher = "log" /\ launcher' \in {"fork", "gone"} /\ returned' \in {returned, 1}
            /\ UNCHANGED <<order, daemon, program, logfile, mails, trouble>>
        BY <1>2 DEF B!OpenLog
      <3>2. daemon = "none"
        BY <3>1 DEF B!IInv
      <3> QED
        BY <2>1, <3>1, <3>2 DEF B!IInv, B!TypeOK
    <2>3. launcher = "log" /\ order' = order /\ daemon' = daemon /\ mails' = mails
          /\ \/ logopen' = TRUE /\ launcher' = "fork"
             \/ launcher' = "gone"
      BY <1>2 DEF B!OpenLog
    <2>4. order.log = TRUE
      BY <1>0, <2>3 DEF B!IInv
    <2> QED
      BY <2>2, <2>3, <2>4 DEF B!IInv
  <1>3. CASE B!ForkDaemon
    <2>1. B!TypeOK'
      BY <1>3 DEF B!ForkDaemon, B!IInv, B!TypeOK
    <2> QED
      BY <1>3, <2>1 DEF B!ForkDaemon, B!IInv
  <1> QED
    BY <1>1, <1>2, <1>3

LEMMA BgrunDaemon ==
  ASSUME B!IInv, B!ForkProgram \/ B!WaitForProgram \/ B!Compose
  PROVE  B!IInv'
  <1>1. CASE B!ForkProgram
    <2>1. B!TypeOK'
      BY <1>1 DEF B!ForkProgram, B!IInv, B!TypeOK
    <2> QED
      BY <1>1, <2>1 DEF B!ForkProgram, B!IInv
  <1>2. CASE B!WaitForProgram
    <2>1. B!TypeOK'
      BY <1>2 DEF B!WaitForProgram, B!IInv, B!TypeOK
    <2> QED
      BY <1>2, <2>1 DEF B!WaitForProgram, B!IInv
  <1>3. CASE B!Compose
    <2>1. /\ mails = <<>> /\ trouble' \in {"none", "log", "message"}
          /\ \/ mails' = Append(mails, B!Message(B!Body))
             \/ mails' = Append(mails, B!Message(<<>>))
             \/ mails' = mails
      BY <1>3 DEF B!Compose, B!IInv, B!TypeOK
    <2>2. Len(mails') <= 1
      <3>1. ASSUME NEW m, mails' = Append(<<>>, m) PROVE Len(mails') = 1
        BY ONLY <3>1
      <3>2. ASSUME mails' = <<>> PROVE Len(mails') = 0
        BY ONLY <3>2
      <3>3. mails' = <<>> \/ \E m : mails' = Append(<<>>, m)
        BY <2>1
      <3> QED
        BY <3>1, <3>2, <3>3
    <2>3. /\ daemon = "compose" /\ daemon' = "gone"
          /\ UNCHANGED <<order, launcher, returned, program, logfile, logopen>>
      BY <1>3 DEF B!Compose
    <2>4. B!TypeOK'
      BY <2>1, <2>2, <2>3 DEF B!IInv, B!TypeOK
    <2> QED
      BY <2>3, <2>4 DEF B!IInv
  <1> QED
    BY <1>1, <1>2, <1>3

LEMMA BgrunProgram ==
  ASSUME B!IInv, B!ProgramPrints \/ B!ProgramEnds
  PROVE  B!IInv'
  <1>1. CASE B!ProgramPrints
    <2>1. Len(order.prints) \in Nat /\ logfile \in Seq(1 .. Len(order.prints))
      BY OrderType DEF B!IInv, B!TypeOK
    <2>2. Len(logfile) < Len(order.prints) /\ logfile' = Append(logfile, Len(logfile) + 1)
      BY <1>1 DEF B!ProgramPrints
    <2>3. Len(logfile) + 1 \in 1 .. Len(order.prints)
      BY ONLY <2>1, <2>2
    <2>4. logfile' \in Seq(1 .. Len(order.prints))
      BY <2>1, <2>2, <2>3
    <2>5. UNCHANGED <<order, launcher, returned, daemon, program, logopen, mails, trouble>>
      BY <1>1 DEF B!ProgramPrints
    <2>6. B!TypeOK'
      BY <2>4, <2>5 DEF B!IInv, B!TypeOK
    <2> QED
      BY <2>5, <2>6 DEF B!IInv
  <1>2. CASE B!ProgramEnds
    <2>1. B!TypeOK'
      BY <1>2 DEF B!ProgramEnds, B!IInv, B!TypeOK
    <2> QED
      BY <1>2, <2>1 DEF B!ProgramEnds, B!IInv
  <1> QED
    BY <1>1, <1>2

(* The copying loop of bgrun is a fold: a function by recursion over the     *)
(* sets of positions.  There is one, and along the initial segments it does  *)
(* one line after the other.                                                 *)
IsIter(L, nm, N, it) ==
  it = [s \in SUBSET N |-> IF s = {} THEN B!NothingCopied
                           ELSE B!CopyLine(nm, it[s \ {B!Max(s)}], L[B!Max(s)])]

LEMMA CopyUnfolds ==
  ASSUME NEW L, NEW nm, NEW N, DOMAIN L = N
  PROVE  B!Copy(L, nm) = (CHOOSE it : IsIter(L, nm, N, it))[N]
  BY Zenon DEF B!Copy, B!FoldLeft, B!MapThenFoldSet, IsIter

LEMMA LastIsMax ==
  ASSUME NEW n \in Nat, NEW s \in SUBSET (1..n), n \in s
  PROVE  B!Max(s) = n
  <1>1. \A y \in s : n >= y /\ y \in Nat
    OBVIOUS
  <1>2. \A x \in s : (\A y \in s : x >= y) => x = n
    BY <1>1
  <1> QED
    BY <1>1, <1>2 DEF B!Max

LEMMA IterExists ==
  ASSUME NEW L, NEW nm, NEW N \in Nat
  PROVE  \E it : IsIter(L, nm, 1..N, it)
  <1> DEFINE Good == {n \in Nat : \E it : IsIter(L, nm, 1..n, it)}
             Step(s, it) == IF s = {} THEN B!NothingCopied
                            ELSE B!CopyLine(nm, it[s \ {B!Max(s)}], L[B!Max(s)])
  <1>1. 0 \in Good
    <2>1. IsIter(L, nm, 1..0, [s \in SUBSET (1..0) |-> B!NothingCopied])
      <3>1. \A s \in SUBSET (1..0) : s = {}
        OBVIOUS
      <3> QED
        BY <3>1 DEF IsIter
    <2> QED
      BY <2>1
  <1>2. ASSUME NEW n \in Nat, n \in Good PROVE n + 1 \in Good
    <2>1. PICK it : IsIter(L, nm, 1..n, it)
      BY <1>2
    <2>2. \A s \in SUBSET (1..n) : it[s] = Step(s, it)
      BY <2>1 DEF IsIter
    <2> DEFINE new == [s \in SUBSET (1 .. n + 1) |->
                         IF n + 1 \in s THEN B!CopyLine(nm, it[s \ {n + 1}], L[n + 1]) ELSE it[s]]
    <2>3. \A s \in SUBSET (1 .. n + 1) : s \ {n + 1} \in SUBSET (1..n) /\ s \ {n + 1} \in SUBSET (1 .. n + 1)
      OBVIOUS
    <2>4. \A s \in SUBSET (1..n) : new[s] = it[s] /\ s \in SUBSET (1 .. n + 1)
      OBVIOUS
    <2>5. \A s \in SUBSET (1 .. n + 1) :
            new[s] = IF n + 1 \in s THEN B!CopyLine(nm, it[s \ {n + 1}], L[n + 1]) ELSE it[s]
      OBVIOUS
    <2>6. new = [s \in SUBSET (1 .. n + 1) |-> new[s]]
      OBVIOUS
    <2>9. n + 1 \in Nat
      OBVIOUS
    <2> HIDE DEF new, Step
    <2>7. \A s \in SUBSET (1 .. n + 1) : new[s] = Step(s, new)
      <3> SUFFICES ASSUME NEW s \in SUBSET (1 .. n + 1) PROVE new[s] = Step(s, new)
        OBVIOUS
      <3>1. CASE n + 1 \in s
        <4>1. B!Max(s) = n + 1 /\ s # {}
          BY ONLY <2>9, <3>1, LastIsMax, s \in SUBSET (1 .. n + 1)
        <4>2. new[s \ {n + 1}] = it[s \ {n + 1}]
          BY ONLY <2>3, <2>4, s \in SUBSET (1 .. n + 1)
        <4>3. new[s] = B!CopyLine(nm, new[s \ {n + 1}], L[n + 1])
          BY Zenon, <2>5, <3>1, <4>2
        <4> QED
          BY Zenon, <4>1, <4>3 DEF Step
      <3>2. CASE n + 1 \notin s
        <4>1. s \in SUBSET (1..n)
          BY ONLY <2>3, <3>2, s \in SUBSET (1 .. n + 1), n \in Nat
        <4>2. new[s] = Step(s, it)
          BY Zenon, <2>2, <2>4, <4>1
        <4>3. s # {} => B!Max(s) \in s
          <5>1. ASSUME s # {} PROVE \E x \in s : \A y \in s : x >= y
            <6> DEFINE Mirror == {n - x : x \in s}
            <6>5. \A x \in s : n - x \in Nat
              BY <4>1
            <6>1. Mirror \in SUBSET Nat /\ Mirror # {}
              BY ONLY <5>1, <6>5
            <6>2. PICK m \in Mirror : \A k \in Mirror : m <= k
              BY <6>1, LeastElement
            <6>3. PICK x \in s : m = n - x
              BY <6>2
            <6>4. \A y \in s : x >= y
              <7> SUFFICES ASSUME NEW y \in s PROVE x >= y
                OBVIOUS
              <7>1. n - y \in Mirror /\ x \in Nat /\ y \in Nat
                BY <4>1
              <7> QED
                BY ONLY <6>2, <6>3, <7>1, n \in Nat
            <6> QED
              BY <6>4
          <5> QED
            BY <5>1 DEF B!Max
        <4>4. s # {} => new[s \ {B!Max(s)}] = it[s \ {B!Max(s)}]
          <5>1. s \ {B!Max(s)} \in SUBSET (1..n)
            BY ONLY <4>1
          <5> QED
            BY ONLY <2>4, <5>1
        <4> QED
          BY Zenon, <4>2, <4>4 DEF Step
      <3> QED
        BY <3>1, <3>2
    <2>8. IsIter(L, nm, 1 .. n + 1, new)
      BY ONLY <2>6, <2>7 DEF IsIter, Step
    <2> QED
      BY <2>8, <2>9
  <1> HIDE DEF Good
  <1>3. Nat \subseteq Good
    BY <1>1, <1>2, SetInduction
  <1> QED
    BY <1>3 DEF Good

(* What was copied after each line.                                          *)
CopyRun(c, L, nm, n) ==
  /\ c[0] = B!NothingCopied
  /\ \A k \in 0 .. n - 1 : c[k + 1] = B!CopyLine(nm, c[k], L[k + 1])

LEMMA CopyRuns ==
  ASSUME NEW L, NEW nm, NEW n \in Nat, DOMAIN L = 1..n
  PROVE  \E c : CopyRun(c, L, nm, n) /\ B!Copy(L, nm) = c[n]
  <1>1. PICK it : IsIter(L, nm, 1..n, it) /\ B!Copy(L, nm) = it[1..n]
    <2>1. IsIter(L, nm, 1..n, CHOOSE it : IsIter(L, nm, 1..n, it))
      BY IterExists
    <2> QED
      BY <2>1, CopyUnfolds
  <1>2. \A s \in SUBSET (1..n) : it[s] = IF s = {} THEN B!NothingCopied
                                         ELSE B!CopyLine(nm, it[s \ {B!Max(s)}], L[B!Max(s)])
    BY <1>1 DEF IsIter
  <1> DEFINE c == [k \in 0..n |-> it[1..k]]
  <1>3. \A k \in 0..n : c[k] = it[1..k]
    OBVIOUS
  <1> HIDE DEF c
  <1>4. c[0] = B!NothingCopied
    <2>1. 1..0 = {} /\ {} \in SUBSET (1..n) /\ 0 \in 0..n
      OBVIOUS
    <2> QED
      BY Zenon, <1>2, <1>3, <2>1
  <1>5. ASSUME NEW k \in 0 .. n - 1 PROVE c[k + 1] = B!CopyLine(nm, c[k], L[k + 1])
    <2>1. /\ k \in 0..n /\ k + 1 \in 0..n /\ k + 1 \in Nat /\ 1 .. k + 1 \in SUBSET (1..n)
          /\ k + 1 \in 1 .. k + 1 /\ (1 .. k + 1) \ {k + 1} = 1..k
      BY ONLY <1>5, n \in Nat
    <2>2. B!Max(1 .. k + 1) = k + 1
      BY ONLY <2>1, LastIsMax
    <2>3. it[1 .. k + 1] = B!CopyLine(nm, it[1..k], L[k + 1])
      <3>1. 1 .. k + 1 # {}
        BY ONLY <2>1
      <3>2. it[1 .. k + 1] = B!CopyLine(nm, it[(1 .. k + 1) \ {B!Max(1 .. k + 1)}], L[B!Max(1 .. k + 1)])
        BY ONLY Zenon, <1>2, <2>1, <3>1
      <3>3. it[1 .. k + 1] = B!CopyLine(nm, it[(1 .. k + 1) \ {k + 1}], L[k + 1])
        BY ONLY Zenon, <2>2, <3>2
      <3>4. (1 .. k + 1) \ {k + 1} = 1..k
        BY ONLY <2>1
      <3> QED
        BY ONLY Zenon, <3>3, <3>4
    <2>4. c[k] = it[1..k] /\ c[k + 1] = it[1 .. k + 1]
      BY ONLY <1>3, <2>1
    <2> QED
      BY ONLY Zenon, <2>3, <2>4
  <1>6. c[n] = it[1..n]
    BY <1>3
  <1> QED
    BY <1>1, <1>4, <1>5, <1>6 DEF CopyRun

Rec(c) == c = [body |-> c.body, have |-> c.have, done |-> c.done]

LEMMA CopyLineDoes ==
  ASSUME NEW nm \in BOOLEAN, NEW c, NEW d, NEW k, Rec(c), c.have \in BOOLEAN, c.done \in BOOLEAN,
         d = B!CopyLine(nm, c, k)
  PROVE  /\ Rec(d)
         /\ c.done => d = c
         /\ ~c.done /\ nm /\ ~c.have =>
              d.body = c.body /\ d.have = B!IsMark(k) /\ d.done = c.done
         /\ ~c.done /\ ~(nm /\ ~c.have) =>
              /\ d.have = c.have
              /\ B!IsEnd(k) => d.body = c.body /\ d.done = TRUE
              /\ ~B!IsEnd(k) => d.body = Append(c.body, k) /\ d.done = FALSE
  <1>1. \A b, h, e : LET r == [body |-> b, have |-> h, done |-> e]
                     IN  Rec(r) /\ r.body = b /\ r.have = h /\ r.done = e
    BY DEF Rec
  <1>2. \A h : [c EXCEPT !.have = h] = [body |-> c.body, have |-> h, done |-> c.done]
    BY DEF Rec
  <1>3. \A e : [c EXCEPT !.done = e] = [body |-> c.body, have |-> c.have, done |-> e]
    BY DEF Rec
  <1>4. [c EXCEPT !.body = Append(@, k)] = [body |-> Append(c.body, k), have |-> c.have, done |-> c.done]
    BY DEF Rec
  <1>5. CASE c.done
    BY <1>5 DEF B!CopyLine
  <1>6. CASE ~c.done /\ nm /\ ~c.have
    <2>1. d = [body |-> c.body, have |-> B!IsMark(k), done |-> c.done]
      BY <1>2, <1>6 DEF B!CopyLine
    <2> QED
      BY ONLY <1>1, <1>6, <2>1
  <1>7. CASE ~c.done /\ ~(nm /\ ~c.have) /\ B!IsEnd(k)
    <2>1. d = [body |-> c.body, have |-> c.have, done |-> TRUE]
      BY <1>3, <1>7 DEF B!CopyLine
    <2> QED
      BY ONLY <1>1, <1>7, <2>1
  <1>8. CASE ~c.done /\ ~(nm /\ ~c.have) /\ ~B!IsEnd(k)
    <2>1. d = [body |-> Append(c.body, k), have |-> c.have, done |-> c.done]
      BY <1>4, <1>8 DEF B!CopyLine
    <2>2. c.done = FALSE
      BY ONLY <1>8, c.done \in BOOLEAN
    <2> QED
      BY ONLY <1>1, <1>8, <2>1, <2>2
  <1> QED
    BY <1>5, <1>6, <1>7, <1>8

(* The lines from behind start to the next end, or to k.                     *)
FirstEnd(e, start, k) ==
  e \in start + 1..k /\ B!IsEnd(e) /\ \A m \in start + 1..k : B!IsEnd(m) => e <= m
Lines(start, m) == [i \in 1..m |-> start + i]
Copied(c, start, k) ==
  \/ c.done = FALSE /\ (\A m \in start + 1..k : ~B!IsEnd(m)) /\ c.body = Lines(start, k - start)
  \/ c.done = TRUE /\ \E e : FirstEnd(e, start, k) /\ c.body = Lines(start, e - start - 1)

LEMMA LinesGrow ==
  ASSUME NEW start \in Nat, NEW m \in Nat
  PROVE  Append(Lines(start, m), start + m + 1) = Lines(start, m + 1)
  <1>1. Lines(start, m) \in Seq(Nat) /\ Len(Lines(start, m)) = m
    <2>1. Lines(start, m) \in [1..m -> Nat]
      BY DEF Lines
    <2> QED
      BY ONLY <2>1, m \in Nat, FunctionIsSeq
  <1> DEFINE s == Lines(start, m)
             t == Append(s, start + m + 1)
  <1>2. \A i \in 1..m : s[i] = start + i
    BY DEF Lines
  <1> HIDE DEF s
  <1>3. t \in Seq(Nat) /\ Len(t) = m + 1 /\ \A i \in 1..m : t[i] = s[i]
    BY <1>1 DEF s
  <1>4. t[m + 1] = start + m + 1
    BY <1>1 DEF s
  <1>5. t = [i \in 1 .. m + 1 |-> t[i]]
    BY <1>3
  <1> HIDE DEF t
  <1>6. \A i \in 1 .. m + 1 : t[i] = start + i
    <2> SUFFICES ASSUME NEW i \in 1 .. m + 1 PROVE t[i] = start + i
      OBVIOUS
    <2>1. CASE i = m + 1
      BY <1>4, <2>1
    <2>2. CASE i \in 1..m
      BY <1>2, <1>3, <2>2
    <2> QED
      BY <2>1, <2>2
  <1>7. t = Lines(start, m + 1)
    BY ONLY <1>5, <1>6 DEF Lines
  <1> QED
    BY <1>7 DEF s, t

LEMMA CopiedStep ==
  ASSUME NEW c, NEW d, NEW start \in Nat, NEW k \in Nat, start <= k, Copied(c, start, k),
         c.done => d = c,
         ~c.done => /\ B!IsEnd(k + 1) => d.body = c.body /\ d.done = TRUE
                    /\ ~B!IsEnd(k + 1) => d.body = Append(c.body, k + 1) /\ d.done = FALSE
  PROVE  Copied(d, start, k + 1)
  <1>1. CASE c.done = TRUE
    <2>1. PICK e : FirstEnd(e, start, k) /\ c.body = Lines(start, e - start - 1)
      BY <1>1 DEF Copied
    <2>2. FirstEnd(e, start, k + 1)
      BY <2>1 DEF FirstEnd
    <2> QED
      BY <1>1, <2>1, <2>2 DEF Copied
  <1>2. CASE c.done = FALSE
    <2>1. (\A m \in start + 1..k : ~B!IsEnd(m)) /\ c.body = Lines(start, k - start)
      BY <1>2 DEF Copied
    <2>2. CASE B!IsEnd(k + 1)
      <3>1. FirstEnd(k + 1, start, k + 1)
        BY <2>1, <2>2 DEF FirstEnd
      <3>2. d.done = TRUE /\ d.body = Lines(start, (k + 1) - start - 1)
        <4>1. (k + 1) - start - 1 = k - start
          OBVIOUS
        <4> QED
          BY <1>2, <2>1, <2>2, <4>1
      <3> QED
        BY <3>1, <3>2 DEF Copied
    <2>3. CASE ~B!IsEnd(k + 1)
      <3>1. \A m \in start + 1 .. k + 1 : ~B!IsEnd(m)
        <4> SUFFICES ASSUME NEW m \in start + 1 .. k + 1, B!IsEnd(m) PROVE FALSE
          OBVIOUS
        <4>1. m # k + 1
          BY <2>3
        <4>2. m \in start + 1..k
          BY ONLY <4>1, start \in Nat, k \in Nat, m \in start + 1 .. k + 1
        <4> QED
          BY <2>1, <4>2
      <3>2. d.done = FALSE /\ d.body = Append(c.body, k + 1)
        BY <1>2, <2>3
      <3>3. k - start \in Nat /\ start + (k - start) + 1 = k + 1 /\ (k - start) + 1 = (k + 1) - start
        OBVIOUS
      <3>4. Append(Lines(start, k - start), k + 1) = Lines(start, (k + 1) - start)
        BY <3>3, LinesGrow
      <3> QED
        BY <2>1, <3>1, <3>2, <3>4 DEF Copied
    <2> QED
      BY <2>2, <2>3
  <1> QED
    BY <1>1, <1>2 DEF Copied

LEMMA CopyBegins ==
  /\ Rec(B!NothingCopied) /\ B!NothingCopied.have = FALSE /\ B!NothingCopied.done = FALSE
  /\ B!NothingCopied.body = <<>>
  BY DEF Rec, B!NothingCopied

LEMMA CopyLineBegins ==
  ASSUME NEW nm, nm = TRUE, NEW d, NEW k, d = B!CopyLine(nm, B!NothingCopied, k)
  PROVE  Rec(d) /\ d.body = <<>> /\ d.have = B!IsMark(k) /\ d.done = FALSE
  <1> DEFINE c == B!NothingCopied
  <1>1. Rec(c) /\ c.have \in BOOLEAN /\ c.done \in BOOLEAN /\ nm \in BOOLEAN /\ ~c.done /\ nm /\ ~c.have
        /\ c.body = <<>> /\ c.done = FALSE
    BY CopyBegins
  <1>2. d = B!CopyLine(nm, c, k)
    OBVIOUS
  <1> HIDE DEF c
  <1>3. Rec(d) /\ d.body = c.body /\ d.have = B!IsMark(k) /\ d.done = c.done
    BY ONLY <1>1, <1>2, CopyLineDoes
  <1> QED
    BY <1>1, <1>3

(* The copy starts behind the first mark, or at the first line.              *)
LEMMA CopyFrom ==
  ASSUME NEW c, NEW L, NEW nm \in BOOLEAN, NEW n \in Nat, CopyRun(c, L, nm, n),
         \A i \in 1..n : L[i] = i, NEW start \in 0..n,
         nm => start > 0 /\ B!IsMark(start) /\ \A j \in 1 .. start - 1 : ~B!IsMark(j),
         ~nm => start = 0
  PROVE  Copied(c[n], start, n) /\ (nm => c[n].have)
  <1> DEFINE Right(k) == /\ k < start => c[k] = B!NothingCopied
                         /\ k >= start => Rec(c[k]) /\ c[k].have = nm /\ Copied(c[k], start, k)
             Good == {k \in Nat : k \in 0..n => Right(k)}
  <1>1. Copied(B!NothingCopied, 0, 0)
    <2>1. Lines(0, 0 - 0) = <<>>
      BY DEF Lines
    <2> QED
      BY <2>1, CopyBegins DEF Copied
  <1>2. 0 \in Good
    <2>1. c[0] = B!NothingCopied
      BY DEF CopyRun
    <2>2. 0 >= start => start = 0 /\ nm = FALSE
      OBVIOUS
    <2> QED
      BY <1>1, <2>1, <2>2, CopyBegins
  <1>3. ASSUME NEW k \in Nat, k \in Good PROVE k + 1 \in Good
    <2> SUFFICES ASSUME k + 1 \in 0..n PROVE Right(k + 1)
      OBVIOUS
    <2> DEFINE d == c[k + 1]
               e == c[k]
    <2>1. k \in 0 .. n - 1 /\ k \in 0..n /\ L[k + 1] = k + 1
      OBVIOUS
    <2>2. d = B!CopyLine(nm, e, k + 1)
      BY <2>1 DEF CopyRun
    <2>3. Right(k)
      BY <1>3, <2>1
    <2> HIDE DEF d
    <2>4. CASE k + 1 < start
      <3>1. e = B!NothingCopied /\ nm /\ ~B!IsMark(k + 1)
        BY <2>3, <2>4, <2>1
      <3>2. Rec(d) /\ d.body = <<>> /\ d.have = B!IsMark(k + 1) /\ d.done = FALSE
        BY ONLY <2>2, <3>1, CopyLineBegins, nm \in BOOLEAN
      <3>3. B!IsMark(k + 1) = FALSE
        BY <3>1 DEF B!IsMark
      <3>4. d = B!NothingCopied
        BY ONLY <3>2, <3>3 DEF Rec, B!NothingCopied
      <3> QED
        BY <2>4, <3>4 DEF d
    <2>5. CASE k + 1 = start
      <3>1. e = B!NothingCopied /\ nm /\ B!IsMark(k + 1)
        BY <2>3, <2>5, <2>1
      <3>2. Rec(d) /\ d.body = <<>> /\ d.have = B!IsMark(k + 1) /\ d.done = FALSE
        BY ONLY <2>2, <3>1, CopyLineBegins, nm \in BOOLEAN
      <3>3. B!IsMark(k + 1) = TRUE
        BY <3>1 DEF B!IsMark
      <3>4. Copied(d, start, start)
        <4>1. Lines(start, start - start) = <<>>
          BY DEF Lines
        <4>2. \A m \in start + 1..start : ~B!IsEnd(m)
          OBVIOUS
        <4> QED
          BY <3>2, <4>1, <4>2 DEF Copied
      <3>5. d.have = nm
        BY ONLY <3>1, <3>2, <3>3, nm \in BOOLEAN
      <3> QED
        BY <2>5, <3>2, <3>4, <3>5 DEF d
    <2>6. CASE k + 1 > start
      <3>1. start <= k /\ start \in Nat
        BY <2>6
      <3>2. Rec(e) /\ e.have = nm /\ Copied(e, start, k)
        BY <2>3, <3>1
      <3>3. e.done \in BOOLEAN /\ e.have \in BOOLEAN
        BY <3>2 DEF Copied
      <3>4. /\ Rec(d) /\ (e.done => d = e)
            /\ ~e.done => /\ d.have = e.have
                          /\ B!IsEnd(k + 1) => d.body = e.body /\ d.done = TRUE
                          /\ ~B!IsEnd(k + 1) => d.body = Append(e.body, k + 1) /\ d.done = FALSE
        <4>1. ~(nm /\ ~e.have)
          BY ONLY <3>2, nm \in BOOLEAN
        <4> HIDE DEF e
        <4>3. PICK j : j = k + 1
          OBVIOUS
        <4>4. d = B!CopyLine(nm, e, j)
          BY ONLY <2>2, <4>3
        <4>5. /\ Rec(d)
              /\ e.done => d = e
              /\ ~e.done /\ ~(nm /\ ~e.have) =>
                   /\ d.have = e.have
                   /\ B!IsEnd(j) => d.body = e.body /\ d.done = TRUE
                   /\ ~B!IsEnd(j) => d.body = Append(e.body, j) /\ d.done = FALSE
          BY ONLY <4>4, <3>2, <3>3, CopyLineDoes, nm \in BOOLEAN
        <4>2. /\ Rec(d)
              /\ e.done => d = e
              /\ ~e.done /\ ~(nm /\ ~e.have) =>
                   /\ d.have = e.have
                   /\ B!IsEnd(k + 1) => d.body = e.body /\ d.done = TRUE
                   /\ ~B!IsEnd(k + 1) => d.body = Append(e.body, k + 1) /\ d.done = FALSE
          BY ONLY <4>3, <4>5
        <4> QED
          BY ONLY <4>1, <4>2
      <3>5. Copied(d, start, k + 1)
        <4> HIDE DEF e
        <4> QED
          BY ONLY <3>1, <3>2, <3>4, CopiedStep, k \in Nat
      <3>6. d.have = nm
        BY <3>2, <3>3, <3>4
      <3> QED
        BY <2>6, <3>4, <3>5, <3>6 DEF d
    <2> QED
      BY <2>4, <2>5, <2>6
  <1> HIDE DEF Good
  <1>4. Nat \subseteq Good
    BY <1>2, <1>3, SetInduction
  <1>5. Right(n)
    BY <1>4 DEF Good
  <1> QED
    BY <1>5

LEMMA CopyWithoutMark ==
  ASSUME NEW c, NEW L, NEW n \in Nat, CopyRun(c, L, TRUE, n), \A i \in 1..n : L[i] = i,
         \A j \in 1..n : ~B!IsMark(j)
  PROVE  c[n].have = FALSE
  <1> DEFINE Good == {k \in Nat : k \in 0..n => c[k] = B!NothingCopied}
  <1>1. 0 \in Good
    BY DEF CopyRun
  <1>2. ASSUME NEW k \in Nat, k \in Good PROVE k + 1 \in Good
    <2> SUFFICES ASSUME k + 1 \in 0..n PROVE c[k + 1] = B!NothingCopied
      OBVIOUS
    <2> DEFINE d == c[k + 1]
    <2>1. k \in 0 .. n - 1 /\ k \in 0..n /\ L[k + 1] = k + 1 /\ ~B!IsMark(k + 1)
      OBVIOUS
    <2>2. c[k] = B!NothingCopied
      BY <1>2, <2>1
    <2>3. d = B!CopyLine(TRUE, B!NothingCopied, k + 1)
      BY <2>1, <2>2 DEF CopyRun
    <2> HIDE DEF d
    <2>4. Rec(d) /\ d.body = <<>> /\ d.have = B!IsMark(k + 1) /\ d.done = FALSE
      BY ONLY <2>3, CopyLineBegins
    <2>5. B!IsMark(k + 1) = FALSE
      BY <2>1 DEF B!IsMark
    <2>6. d = B!NothingCopied
      BY ONLY <2>4, <2>5 DEF Rec, B!NothingCopied
    <2> QED
      BY <2>6 DEF d
  <1> HIDE DEF Good
  <1>3. Nat \subseteq Good
    BY <1>1, <1>2, SetInduction
  <1>4. c[n] = B!NothingCopied
    BY <1>3 DEF Good
  <1> QED
    BY <1>4, CopyBegins

(* The sections of the log: where they begin and end.                        *)
LEMMA LeastUnique ==
  ASSUME NEW M \in SUBSET Nat, NEW m \in M, \A k \in M : m <= k
  PROVE  (CHOOSE k \in M : \A j \in M : k <= j) = m
  <1>1. \A k \in M : (\A j \in M : k <= j) => k = m
    OBVIOUS
  <1> QED
    BY <1>1

Marks(n) == {k \in 1..n : B!IsMark(k)}
StartOf(n) == IF Marks(n) = {} THEN 0 ELSE CHOOSE k \in Marks(n) : \A m \in Marks(n) : k <= m
EndsOf(start, n) == {k \in start + 1..n : B!IsEnd(k)}
StopOf(start, n) == IF EndsOf(start, n) = {} THEN n + 1
                    ELSE CHOOSE k \in EndsOf(start, n) : \A m \in EndsOf(start, n) : k <= m

LEMMA SectionIsLines ==
  ASSUME NEW n
  PROVE  B!Section(n) = Lines(StartOf(n), StopOf(StartOf(n), n) - StartOf(n) - 1)
  BY Zenon DEF B!Section, Lines, StartOf, Marks, StopOf, EndsOf

LEMMA StartFacts ==
  ASSUME NEW n \in Nat
  PROVE  /\ StartOf(n) \in 0..n
         /\ Marks(n) = {} => StartOf(n) = 0 /\ \A j \in 1..n : ~B!IsMark(j)
         /\ Marks(n) # {} => /\ StartOf(n) > 0 /\ B!IsMark(StartOf(n))
                             /\ \A j \in 1 .. StartOf(n) - 1 : ~B!IsMark(j)
  <1>1. CASE Marks(n) = {}
    BY <1>1 DEF StartOf, Marks
  <1>2. CASE Marks(n) # {}
    <2>1. Marks(n) \in SUBSET Nat
      BY DEF Marks
    <2>2. PICK m \in Marks(n) : \A k \in Marks(n) : m <= k
      BY <1>2, <2>1, LeastElement
    <2>3. StartOf(n) = m
      BY <1>2, <2>1, <2>2, LeastUnique DEF StartOf
    <2>4. m \in 1..n /\ B!IsMark(m)
      BY <2>2 DEF Marks
    <2>5. ASSUME NEW j \in 1 .. m - 1 PROVE ~B!IsMark(j)
      <3>1. j \in 1..n /\ ~(m <= j)
        BY ONLY <2>4, <2>5, n \in Nat
      <3> QED
        BY <2>2, <3>1 DEF Marks
    <2> QED
      BY <1>2, <2>3, <2>4, <2>5
  <1> QED
    BY <1>1, <1>2

LEMMA StopFacts ==
  ASSUME NEW n \in Nat, NEW start \in 0..n, NEW c, Copied(c, start, n)
  PROVE  c.body = Lines(start, StopOf(start, n) - start - 1)
  <1>1. CASE c.done = FALSE
    <2>1. (\A m \in start + 1..n : ~B!IsEnd(m)) /\ c.body = Lines(start, n - start)
      BY <1>1 DEF Copied
    <2>2. StopOf(start, n) = n + 1
      BY <2>1 DEF StopOf, EndsOf
    <2>3. (n + 1) - start - 1 = n - start
      OBVIOUS
    <2> QED
      BY <2>1, <2>2, <2>3
  <1>2. CASE c.done = TRUE
    <2>1. PICK e : FirstEnd(e, start, n) /\ c.body = Lines(start, e - start - 1)
      BY <1>2 DEF Copied
    <2>2. e \in EndsOf(start, n) /\ (\A m \in EndsOf(start, n) : e <= m)
      BY <2>1 DEF FirstEnd, EndsOf
    <2>3. EndsOf(start, n) \in SUBSET Nat
      BY DEF EndsOf
    <2>4. StopOf(start, n) = e
      BY <2>2, <2>3, LeastUnique DEF StopOf
    <2> QED
      BY <2>1, <2>4
  <1> QED
    BY <1>1, <1>2 DEF Copied

LEMMA BodyIsSection ==
  ASSUME NEW n \in Nat, DOMAIN logfile = 1..n, \A i \in 1..n : logfile[i] = i,
         order.bmark \in BOOLEAN
  PROVE  B!Body = B!Section(n)
  <1> DEFINE start == StartOf(n)
  <1>1. start \in 0..n
    BY StartFacts
  <1>2. PICK c : CopyRun(c, logfile, order.bmark, n) /\ B!Copy(logfile, order.bmark) = c[n]
    BY CopyRuns
  <1>3. PICK u : CopyRun(u, logfile, FALSE, n) /\ B!Copy(logfile, FALSE) = u[n]
    <2>1. PICK off : off = FALSE
      OBVIOUS
    <2>2. PICK u : CopyRun(u, logfile, off, n) /\ B!Copy(logfile, off) = u[n]
      BY CopyRuns
    <2> QED
      BY Zenon, <2>1, <2>2
  <1>4. B!Body = IF order.bmark /\ ~c[n].have THEN u[n].body ELSE c[n].body
    BY <1>2, <1>3 DEF B!Body
  <1>5. B!Section(n) = Lines(start, StopOf(start, n) - start - 1)
    BY SectionIsLines
  <1>6. ~order.bmark => Marks(n) = {}
    BY DEF Marks, B!IsMark
  <1>7. CASE Marks(n) # {}
    <2>1. order.bmark = TRUE
      BY <1>6, <1>7
    <2>2. start > 0 /\ B!IsMark(start) /\ \A j \in 1 .. start - 1 : ~B!IsMark(j)
      BY <1>7, StartFacts
    <2> HIDE DEF start
    <2>3. Copied(c[n], start, n) /\ c[n].have
      BY <1>1, <1>2, <2>1, <2>2, CopyFrom
    <2>4. B!Body = c[n].body
      BY <1>4, <2>3
    <2> QED
      BY <1>1, <1>5, <2>3, <2>4, StopFacts
  <1>8. CASE Marks(n) = {}
    <2>1. start = 0 /\ \A j \in 1..n : ~B!IsMark(j)
      BY <1>8, StartFacts
    <2> HIDE DEF start
    <2>2. CASE order.bmark = TRUE
      <3>1. c[n].have = FALSE
        BY <1>2, <2>1, <2>2, CopyWithoutMark
      <3>2. B!Body = u[n].body
        BY <1>4, <2>2, <3>1
      <3>3. Copied(u[n], start, n)
        BY <1>1, <1>3, <2>1, CopyFrom
      <3> QED
        BY <1>1, <1>5, <3>2, <3>3, StopFacts
    <2>3. CASE order.bmark = FALSE
      <3>1. B!Body = c[n].body
        BY <1>4, <2>3
      <3>2. Copied(c[n], start, n)
        BY <1>1, <1>2, <2>1, <2>3, CopyFrom
      <3> QED
        BY <1>1, <1>5, <3>1, <3>2, StopFacts
    <2> QED
      BY <2>2, <2>3
  <1> QED
    BY <1>7, <1>8

LEMMA MailBegins == B!Init => B!MailInv
  BY DEF B!Init, B!MailInv, B!MailIsTrue

(* The one step that writes a mail.                                          *)
LEMMA MailComposed ==
  ASSUME B!IInv, B!MailInv, B!Compose
  PROVE  B!MailIsTrue'
  <1> DEFINE n == Len(order.prints)
  <1>1. /\ order \in Orders /\ n \in Nat /\ logfile \in Seq(1..n) /\ mails = <<>>
        /\ program = "reaped" /\ Len(logfile) = n /\ trouble = "none"
        /\ \A i \in DOMAIN logfile : logfile[i] = i
    BY OrderType DEF B!IInv, B!TypeOK, B!MailInv, B!Compose
  <1>2. UNCHANGED <<order, program, logfile>>
    BY DEF B!Compose
  <1>3. /\ order.bmark \in BOOLEAN /\ order.ends \in {"exit", "signal"} /\ order.code \in 0..3
    BY <1>1, InputsAssumption DEF B!OrdersAssumption
  <1>4. B!Body = B!Section(n)
    <2>1. DOMAIN logfile = 1..n
      BY ONLY <1>1
    <2> QED
      BY <1>1, <1>3, <2>1, BodyIsSection
  <1>5. (order.sub /\ order.status /\ ~order.nosub /\ ~order.nohead) =>
          (B!Outcome = "SUCCESS" <=> order.ends = "exit" /\ order.code = 0)
    BY <1>3 DEF B!Outcome, B!Status
  <1>6. \A body : B!Message(body).body = body /\ B!Message(body).outcome = B!Outcome
    BY DEF B!Message
  <1>7. B!Section(n)' = B!Section(n)
    BY <1>2 DEF B!Section, B!IsMark, B!IsEnd, B!Strip
  <1>8. B!MailIsTrue' =
          (\A k \in DOMAIN mails' :
             /\ program' = "reaped" /\ Len(logfile') = Len(order'.prints)
             /\ mails'[k].body = (IF trouble' = "log" THEN <<>> ELSE B!Section(n)')
             /\ (order'.sub /\ order'.status /\ ~order'.nosub /\ ~order'.nohead) =>
                  (mails'[k].outcome = "SUCCESS" <=> order'.ends = "exit" /\ order'.code = 0))
    BY DEF B!MailIsTrue
  <1>9. \A m : DOMAIN Append(<<>>, m) = {1} /\ Append(<<>>, m)[1] = m
    OBVIOUS
  <1>13. program' = "reaped" /\ Len(logfile') = Len(order'.prints)
    BY <1>1, <1>2
  <1> HIDE DEF n
  <1>10. CASE mails' = Append(mails, B!Message(B!Body)) /\ UNCHANGED trouble
    <2>1. DOMAIN mails' = {1} /\ mails'[1] = B!Message(B!Body) /\ trouble' # "log"
      BY ONLY <1>1, <1>9, <1>10
    <2>2. mails'[1].body = B!Section(n)' /\ mails'[1].outcome = B!Outcome
      BY ONLY <1>4, <1>6, <1>7, <2>1
    <2> QED
      BY ONLY <1>1, <1>2, <1>5, <1>8, <1>13, <2>1, <2>2
  <1>11. CASE mails' = Append(mails, B!Message(<<>>)) /\ trouble' = "log"
    <2>1. DOMAIN mails' = {1} /\ mails'[1] = B!Message(<<>>)
      BY ONLY <1>1, <1>9, <1>11
    <2>2. mails'[1].body = <<>> /\ mails'[1].outcome = B!Outcome
      BY ONLY <1>6, <2>1
    <2> QED
      BY ONLY <1>1, <1>2, <1>5, <1>8, <1>11, <1>13, <2>1, <2>2
  <1>12. CASE UNCHANGED mails
    <2>1. DOMAIN mails' = {}
      BY ONLY <1>1, <1>12
    <2> QED
      BY <1>8, <2>1
  <1> QED
    BY <1>10, <1>11, <1>12 DEF B!Compose

LEMMA MailNext ==
  ASSUME B!IInv, B!MailInv, B!Next \/ UNCHANGED bgrunVars
  PROVE  B!MailInv'
  <1>1. order' = order
    BY DEF B!Next, B!CheckProgram, B!OpenLog, B!ForkDaemon, B!ForkProgram, B!WaitForProgram,
           B!Compose, B!ProgramPrints, B!ProgramEnds, bgrunVars
  <1>2. CASE B!Compose
    BY <1>2, MailComposed DEF B!Compose, B!MailInv
  <1>3. DOMAIN mails = {} /\ mails' = mails => B!MailIsTrue'
    BY DEF B!MailIsTrue
  <1>8. mails = <<>> \/ program # "reaped" => DOMAIN mails = {}
    <2>1. \A k \in DOMAIN mails : program = "reaped"
      BY DEF B!MailInv, B!MailIsTrue
    <2>2. mails = <<>> => DOMAIN mails = {}
      OBVIOUS
    <2> QED
      BY ONLY <2>1, <2>2
  <1>4. CASE B!CheckProgram \/ B!OpenLog \/ B!ForkDaemon \/ B!ForkProgram \/ B!WaitForProgram
    BY <1>3, <1>4, <1>8 DEF B!MailInv, B!IInv, B!TypeOK, B!CheckProgram, B!OpenLog, B!ForkDaemon,
       B!ForkProgram, B!WaitForProgram, B!GoesOn, B!Fails
  <1>5. CASE B!ProgramPrints
    <2>1. /\ program = "running" /\ logfile' = Append(logfile, Len(logfile) + 1)
          /\ logfile \in Seq(1..Len(order.prints))
          /\ UNCHANGED <<daemon, program, mails, trouble>>
      BY <1>5 DEF B!ProgramPrints, B!IInv, B!TypeOK
    <2>2. \A i \in DOMAIN logfile' : logfile'[i] = i
      <3>1. \A i \in DOMAIN logfile : logfile[i] = i
        BY DEF B!MailInv
      <3> QED
        BY ONLY <2>1, <3>1
    <2>3. B!MailIsTrue'
      BY <1>3, <1>8, <2>1
    <2> QED
      BY <2>1, <2>2, <2>3 DEF B!MailInv
  <1>6. CASE B!ProgramEnds
    <2>1. /\ program = "running" /\ program' = "zombie" /\ UNCHANGED <<daemon, logfile, mails, trouble>>
          /\ order.log => Len(logfile) = Len(order.prints)
      BY <1>6 DEF B!ProgramEnds
    <2>2. B!MailIsTrue'
      BY <1>3, <1>8, <2>1
    <2> QED
      BY <1>1, <2>1, <2>2 DEF B!MailInv
  <1>7. CASE UNCHANGED bgrunVars
    <2>1. UNCHANGED <<order, daemon, program, logfile, mails, trouble>>
      BY <1>7 DEF bgrunVars
    <2>2. B!MailIsTrue'
      <3>1. B!Section(Len(order.prints))' = B!Section(Len(order.prints))
        BY <2>1 DEF B!Section, B!IsMark, B!IsEnd, B!Strip
      <3> QED
        BY <2>1, <3>1 DEF B!MailInv, B!MailIsTrue
    <2> QED
      BY <2>1, <2>2 DEF B!MailInv
  <1> QED
    BY <1>2, <1>4, <1>5, <1>6, <1>7 DEF B!Next

LEMMA BgrunKept ==
  ASSUME B!IInv, UNCHANGED bgrunVars
  PROVE  B!IInv'
  BY DEF bgrunVars, B!IInv, B!TypeOK

LEMMA BgrunIdleStays ==
  ASSUME BgrunIdle, B!Next \/ UNCHANGED bgrunVars
  PROVE  BgrunIdle'
  BY DEF BgrunIdle, bgrunVars, B!Next, B!CheckProgram, B!OpenLog, B!ForkDaemon, B!ForkProgram,
         B!WaitForProgram, B!Compose, B!ProgramPrints, B!ProgramEnds

LEMMA BgrunNext ==
  ASSUME BgrunIdle \/ (B!IInv /\ B!MailInv), B!Next \/ UNCHANGED bgrunVars
  PROVE  (BgrunIdle \/ (B!IInv /\ B!MailInv))'
  <1>1. ASSUME B!IInv PROVE B!IInv'
    BY <1>1, BgrunLauncher, BgrunDaemon, BgrunProgram, BgrunKept DEF B!Next
  <1> QED
    BY <1>1, MailNext, BgrunIdleStays

-----------------------------------------------------------------------------
(* The three together.                                                       *)

THEOREM Invariance == Spec => []IInv
  <1>1. Init => IInv
    BY TimeoutInit, SyscmdInit, ForwardBegin, BgrunInit, MailBegins DEF Init, IInv
  <1>2. IInv /\ [Next]_vars => IInv'
    <2> SUFFICES ASSUME IInv, [Next]_vars PROVE IInv'
      OBVIOUS
    <2>1. T!Next \/ UNCHANGED timeoutVars
      BY DEF Next, vars
    <2>2. S!Next \/ UNCHANGED syscmdVars
      BY DEF Next, vars
    <2>3. B!Next \/ UNCHANGED bgrunVars
      BY DEF Next, vars
    <2> QED
      BY <2>1, <2>2, <2>3, TimeoutNext, SyscmdNext, BgrunNext DEF IInv
  <1> QED
    BY <1>1, <1>2, PTL DEF Spec

(* Every variable of timeout, syscmd and bgrun keeps its type.               *)
THEOREM TypeCorrect == Spec => []TypeOK
  <1>1. IInv => TypeOK
    BY DEF IInv, TypeOK, TimeoutIdle, SyscmdIdle, BgrunIdle, T!IInv, S!IInv, B!IInv
  <1> QED
    BY <1>1, Invariance, PTL

(* timeout never returns while its child runs and leaves no zombie; syscmd   *)
(* interrupts the feeder on every way out and outlives ssh, but for a failed *)
(* second fork and the uninitialised kpid.                                   *)
THEOREM NoneLeftBehind == Spec => []NothingLeftBehind
  <1>1. IInv => NothingLeftBehind
    BY DEF IInv, NothingLeftBehind, TimeoutIdle, SyscmdIdle, T!IInv, S!IInv,
           T!ChildIsReaped, S!NothingLeftBehind, T!Gone, S!Gone
  <1> QED
    BY <1>1, Invariance, PTL

(* timeout returns 1 for every program that its time limit ended, however    *)
(* the alarm falls between the parent's steps: kill() takes effect before    *)
(* killed is set, and the parent does not run in between.                    *)
THEOREM LimitIsReported == Spec => []TimeoutIsReported
  <1>1. IInv => TimeoutIsReported
    BY DEF IInv, TimeoutIsReported, T!TimeoutIsReported, TimeoutIdle, T!IInv, T!TypeOK, T!Gone,
           T!ChildIsReaped
  <1> QED
    BY <1>1, Invariance, PTL

(* A zero from timeout or syscmd means that the child came to a good end.    *)
THEOREM ZeroIsSuccess == Spec => []SuccessIsReal
  <1>1. TimeoutIdle \/ T!IInv => T!SuccessIsReal
    BY DEF T!SuccessIsReal, TimeoutIdle, T!IInv, T!TypeOK, T!Gone, T!ChildIsReaped, T!ExitStatus
  <1>2. SyscmdIdle \/ S!IInv => S!SuccessIsSsh
    BY DEF S!SuccessIsSsh, SyscmdIdle, S!IInv, S!Gone
  <1>3. IInv => SuccessIsReal
    BY <1>1, <1>2 DEF IInv, SuccessIsReal
  <1> QED
    BY <1>3, Invariance, PTL

(* When ssh has come to its own end and no prompt came torn, syscmd has      *)
(* shown every line of the command in order, and neither the noise nor the   *)
(* prompts nor the line after an answer: in any order of the two processes,  *)
(* and for every conversation.                                               *)
THEOREM OutputForwarded == Spec => []OutputIsForwarded
  <1>1. S!IInv /\ S!ForwardInv => S!OutputIsForwarded
    <2> SUFFICES ASSUME S!IInv, S!ForwardInv, at = "wait", term = 0,
                        "torn" \notin S!ToSet(job.script)
                 PROVE  shown = S!Expected
      BY DEF S!OutputIsForwarded
    <2>1. S!Forwarding
      BY DEF S!ForwardInv, S!Gone
    <2>2. ssh \in {"zombie", "reaped"}
      BY <2>1 DEF S!Forwarding, S!IInv, S!TypeOK, S!Alive
    <2>3. out = <<>> /\ said = Len(job.script)
      BY <2>1, <2>2 DEF S!Forwarding
    <2>4. S!Lines \in Seq(Seq(Nat)) /\ Len(S!Lines) = Len(job.script) /\ said \in Nat
      BY LinesAreLines, JobType, <2>3 DEF S!IInv, S!TypeOK
    <2>5. S!Read = Len(S!Lines)
      BY <2>3, <2>4 DEF S!Read
    <2>6. SubSeq(S!Lines, 1, Len(S!Lines)) = S!Lines
      BY ONLY <2>4
    <2> QED
      BY <2>1, <2>5, <2>6 DEF S!Forwarding, S!Expected
  <1>2. SyscmdIdle => S!OutputIsForwarded
    BY DEF SyscmdIdle, S!OutputIsForwarded
  <1>3. IInv => OutputIsForwarded
    BY <1>1, <1>2 DEF IInv, OutputIsForwarded
  <1> QED
    BY <1>3, Invariance, PTL

(* For every log and every mark: the mail of bgrun comes after the program,  *)
(* its body is the part of the whole log that the options ask for, and it    *)
(* says SUCCESS if and only if the program exited with zero.                 *)
THEOREM MailTellsTheTruth == Spec => []MailIsTrue
  <1>1. BgrunIdle => B!MailIsTrue
    BY DEF BgrunIdle, B!MailIsTrue
  <1>2. IInv => MailIsTrue
    BY <1>1 DEF IInv, MailIsTrue, B!MailInv
  <1> QED
    BY <1>2, Invariance, PTL
=============================================================================
