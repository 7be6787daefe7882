------------------------------- MODULE Syscmd -------------------------------
(* src/admssh/new/syscmd.c: run ssh on a pseudo-terminal, answer what it     *)
(* asks and pass on what it prints.  Up to three processes: the parent with  *)
(* its SIGALRM handler, ssh, and for admssh and admscp the feeder that       *)
(* writes the decoded key into a fifo.                                       *)
EXTENDS Naturals, Sequences, SequencesExt

CONSTANT Jobs     \* how syscmd is called, and on what kind of ssh

(* What a line of ssh makes runargs do; a torn prompt comes in two reads, so *)
(* that neither half is recognised.                                          *)
Kind == {"noise", "sure", "password", "expired", "text", "torn"}

JobsAssumption ==
  Jobs \subseteq [name : {"admssh", "admscp", "syscmd"}, user : BOOLEAN,
                  pass : BOOLEAN, cmd : BOOLEAN, timeout : BOOLEAN,
                  sigint : BOOLEAN,            \* SIGINT was not ignored by whoever called
                  script : Seq(Kind),          \* what ssh will say
                  ends : BOOLEAN, code : 0..2, \* whether it then ends, and how
                  TERM : {"dies", "ignores"}]

VARIABLES job,
          at,         \* where runargs is
          ssh,        \* the ssh process
          feeder,     \* the key feeder
          said,       \* how many lines of the script ssh has written
          out,        \* positions of the lines in the pty and in fd_buf, oldest first
          eatnext,    \* the flag: the next line is not shown
          timer,      \* the alarm
          term,       \* the flag of the handler: TERM was sent
          status,     \* how ssh ended
          outcome,    \* what runargs returns; -1 is 255
          shown,      \* history: positions of the lines printed
          unwaited    \* history: the alarm interrupted waitpid

vars == <<job, at, ssh, feeder, said, out, eatnext, timer, term, status, outcome,
          shown, unwaited>>

sshVars == <<ssh, said, out, status>>
readVars == <<eatnext, shown>>
timerVars == <<timer, term, unwaited>>

NoStatus == 3      \* not ended
BySignalled == 4   \* ended by a signal
Failed == 255
GroupKilled == 130

-----------------------------------------------------------------------------
(* Modes (main 489-497, 592-599).                                            *)

Adm(j) == j.name \in {"admssh", "admscp"} \/ (j.name = "syscmd" /\ ~j.user)
Act(j) == ~j.cmd /\ j.name # "admscp"

Init ==
  /\ job \in Jobs
  /\ at = "pty" /\ ssh = "none" /\ feeder = "none"
  /\ said = 0 /\ out = <<>> /\ eatnext = FALSE
  /\ timer = "off" /\ term = 0 /\ status = NoStatus /\ outcome = 0
  /\ shown = <<>> /\ unwaited = FALSE

Alive == ssh \in {"running", "asking"}
Returns(r) == at' = "gone" /\ outcome' = r

-----------------------------------------------------------------------------
(* The parent.                                                               *)

(* Get the pseudo-terminal; without a command, become ssh.                   *)
OpenPty ==
  /\ at = "pty"
  /\ \/ Returns(Failed)
     \/ at' = (IF Act(job) THEN "ssh" ELSE "fork") /\ UNCHANGED outcome
  /\ UNCHANGED <<job, feeder, sshVars, readVars, timerVars>>

ForkSsh ==
  /\ at = "fork"
  /\ \/ Returns(Failed) /\ UNCHANGED ssh
     \/ /\ ssh' = "running" /\ at' = (IF Adm(job) THEN "feed" ELSE "alarm")
        /\ UNCHANGED outcome
  /\ UNCHANGED <<job, feeder, said, out, status, readVars, timerVars>>

(* When this fork fails the ssh already started is left alone.               *)
ForkFeeder ==
  /\ at = "feed"
  /\ \/ Returns(Failed) /\ UNCHANGED feeder
     \/ feeder' = "opening" /\ at' = "alarm" /\ UNCHANGED outcome
  /\ UNCHANGED <<job, sshVars, readVars, timerVars>>

SetTimer ==
  /\ at = "alarm"
  /\ timer' = (IF job.timeout THEN "set" ELSE "off") /\ at' = "read"
  /\ UNCHANGED <<job, feeder, sshVars, readVars, term, unwaited, outcome>>

Interrupted(f) == IF job.sigint /\ f # "none" THEN "dead" ELSE f
SshDies == /\ ssh' = (IF Alive THEN "zombie" ELSE ssh)
           /\ status' = (IF Alive THEN BySignalled ELSE status)

(* Seeded fault: the flag stays set once a prompt was answered.              *)
EatsTooMuch == /\ (eatnext \/ job.script[Head(out)] = "noise")
               /\ UNCHANGED <<eatnext, shown, ssh, status, feeder, at, outcome>>

(* A line of the list ignore, or the one after an answer.                    *)
Eat ==
  /\ eatnext \/ job.script[Head(out)] = "noise"
  /\ eatnext' = FALSE
  /\ UNCHANGED <<shown, ssh, status, feeder, at, outcome>>

(* Seeded fault: a question is shown and not answered.                       *)
AnswerPassword ==
  /\ job.script[Head(out)] = "password" /\ job.pass
  /\ eatnext' = TRUE
  /\ ssh' = (IF ssh = "asking" THEN "running" ELSE ssh)
  /\ UNCHANGED <<shown, status, feeder, at, outcome>>

(* "yes" to a question about the host key, the password to a request for it. *)
Answer ==
  /\ job.script[Head(out)] = "sure" \/ (job.script[Head(out)] = "password" /\ job.pass)
  /\ eatnext' = TRUE
  /\ ssh' = (IF ssh = "asking" THEN "running" ELSE ssh)
  /\ UNCHANGED <<shown, status, feeder, at, outcome>>

(* Seeded fault: only ssh is killed.                                         *)
AbortSsh ==
  /\ job.script[Head(out)] = "expired" \/ (job.script[Head(out)] = "password" /\ ~job.pass)
  /\ SshDies /\ Returns(Failed)
  /\ UNCHANGED <<shown, eatnext, feeder>>

(* No password to give, or an expired account: both processes are killed.    *)
(* kpid is not initialised when there is no feeder.                          *)
Abort ==
  /\ job.script[Head(out)] = "expired" \/ (job.script[Head(out)] = "password" /\ ~job.pass)
  /\ \/ SshDies /\ Returns(Failed)
     \/ ~Adm(job) /\ job.sigint /\ Returns(GroupKilled) /\ UNCHANGED <<ssh, status>>
  /\ feeder' = Interrupted(feeder)
  /\ UNCHANGED <<shown, eatnext>>

Show ==
  /\ job.script[Head(out)] \in {"text", "torn"}
  /\ shown' = Append(shown, Head(out))
  /\ UNCHANGED <<eatnext, ssh, status, feeder, at, outcome>>

(* fd_telgets has a line, or a piece of one.                                 *)
ReadLine ==
  /\ at = "read" /\ out # <<>>
  /\ Eat \/ (~eatnext /\ (Answer \/ Abort \/ Show))
  /\ out' = Tail(out)
  /\ UNCHANGED <<job, said, timerVars>>

(* The pty has no slave any more.                                            *)
EndOfOutput ==
  /\ at = "read" /\ out = <<>> /\ ~Alive
  /\ at' = "stop"
  /\ UNCHANGED <<job, feeder, sshVars, readVars, timerVars, outcome>>

(* kill(kpid,SIGINT).  Without a feeder kpid is whatever was on the stack:   *)
(* no process, or zero, which is the parent's own group.                     *)
StopFeeder ==
  /\ at = "stop"
  /\ feeder' = Interrupted(feeder)
  /\ \/ at' = "wait" /\ UNCHANGED outcome
     \/ ~Adm(job) /\ job.sigint /\ Returns(GroupKilled)
  /\ UNCHANGED <<job, sshVars, readVars, timerVars>>

(* Seeded fault: a status that is none of an exit counts as zero.            *)
LaxStatus == IF status = BySignalled THEN 0 ELSE status

ExitStatus == IF status = BySignalled THEN 1 ELSE status

WaitSsh ==
  /\ at = "wait" /\ ssh = "zombie"
  /\ ssh' = "reaped" /\ Returns(ExitStatus)
  /\ UNCHANGED <<job, feeder, said, out, status, readVars, timerVars>>

-----------------------------------------------------------------------------
(* catch_alarm.  sigaction was called without SA_RESTART: a read of the pty  *)
(* that the signal interrupts ends the loop, a waitpid it interrupts leaves  *)
(* status as it was on the stack.  The signal may also come just before the  *)
(* parent blocks, and interrupt nothing.                                     *)

Interrupts ==
  \/ UNCHANGED <<at, outcome, unwaited>>
  \/ /\ at = "read" /\ out = <<>> /\ Alive
     /\ at' = "stop" /\ UNCHANGED <<outcome, unwaited>>
  \/ /\ at = "wait" /\ Alive
     /\ unwaited' = TRUE /\ \E r \in 0..2 : Returns(r)

(* Seeded fault: the handler never sends more than TERM.                     *)
CatchAlarmOnce ==
  /\ timer = "set" /\ at \in {"read", "stop", "wait"} /\ term = 0
  /\ term' = 1 /\ timer' = "off"
  /\ (IF job.TERM = "dies" THEN SshDies ELSE UNCHANGED <<ssh, status>>)
  /\ Interrupts
  /\ UNCHANGED <<job, feeder, said, out, readVars>>

(* TERM and, three seconds later, KILL.                                      *)
CatchAlarm ==
  /\ timer = "set" /\ at \in {"read", "stop", "wait"}
  /\ term' = 1 /\ timer' = (IF term = 0 THEN "set" ELSE "off")
  /\ (IF term = 1 \/ job.TERM = "dies" THEN SshDies ELSE UNCHANGED <<ssh, status>>)
  /\ Interrupts
  /\ UNCHANGED <<job, feeder, said, out, readVars>>

-----------------------------------------------------------------------------
(* ssh and the feeder.                                                       *)

SshSays ==
  /\ ssh = "running" /\ said < Len(job.script)
  /\ said' = said + 1
  /\ LET kind == job.script[said + 1] IN
     /\ out' = out \o (IF kind = "torn" THEN <<said + 1, said + 1>> ELSE <<said + 1>>)
     /\ ssh' = (IF kind \in {"sure", "password", "torn"} THEN "asking" ELSE ssh)
  /\ UNCHANGED <<job, at, feeder, status, readVars, timerVars, outcome>>

SshEnds ==
  /\ ssh = "running" /\ said = Len(job.script) /\ job.ends
  /\ ssh' = "zombie" /\ status' = job.code
  /\ UNCHANGED <<job, at, feeder, said, out, readVars, timerVars, outcome>>

(* The fifo can be opened for writing once ssh reads it; a write without a   *)
(* reader is the end of the feeder, which otherwise writes the key for ever. *)
FeederOpens ==
  /\ feeder = "opening" /\ Alive
  /\ feeder' = "sending"
  /\ UNCHANGED <<job, at, sshVars, readVars, timerVars, outcome>>

FeederBreaks ==
  /\ feeder = "sending" /\ ~Alive
  /\ feeder' = "dead"
  /\ UNCHANGED <<job, at, sshVars, readVars, timerVars, outcome>>

Parent == \/ OpenPty \/ ForkSsh \/ ForkFeeder \/ SetTimer \/ ReadLine
          \/ EndOfOutput \/ StopFeeder \/ WaitSsh

Next == Parent \/ CatchAlarm \/ SshSays \/ SshEnds \/ FeederOpens \/ FeederBreaks

(* The kernel runs the parent, and a timer that is set expires.  Nothing is  *)
(* assumed of ssh, which may hang.                                           *)
Fairness == WF_vars(Parent) /\ WF_vars(CatchAlarm)

Spec == Init /\ [][Next]_vars /\ Fairness

-----------------------------------------------------------------------------
Gone == at = "gone"
Prompt == {"sure", "password", "torn"}

TypeOK ==
  /\ job \in Jobs
  /\ at \in {"pty", "fork", "feed", "alarm", "read", "stop", "wait", "ssh", "gone"}
  /\ ssh \in {"none", "running", "asking", "zombie", "reaped"}
  /\ feeder \in {"none", "opening", "sending", "dead"}
  /\ said \in 0..Len(job.script) /\ out \in Seq(1..said)
  /\ eatnext \in BOOLEAN /\ timer \in {"off", "set"} /\ term \in 0..1
  /\ status \in 0..BySignalled /\ outcome \in (0..2) \cup {Failed, GroupKilled}
  /\ shown \in Seq(1..said) /\ unwaited \in BOOLEAN

(* runargs leaves no process behind: the feeder, which never ends by itself, *)
(* is interrupted on every way out (unless SIGINT is ignored, as under a     *)
(* shell's &), and ssh has ended, unless the second fork failed or the       *)
(* uninitialised kpid took the parent with it.                               *)
NothingLeftBehind ==
  Gone => /\ feeder \in {"opening", "sending"} => ~job.sigint
          /\ Alive => \/ Adm(job) /\ feeder = "none"
                      \/ ~Adm(job) /\ outcome = GroupKilled

(* Zero means that ssh exited with zero, except when the second alarm        *)
(* interrupted waitpid: then ssh was killed and the result is made up.       *)
SuccessIsSsh == Gone /\ outcome = 0 => status = 0 \/ unwaited

(* When ssh came to its own end, every line it printed was shown, in order,  *)
(* but for the noise, the prompts and the line after an answer.              *)
Asks(k) == job.script[k] \in {"sure", "password"}
Hidden(k) == k > 1 /\ Asks(k - 1)
Lines == [k \in 1..Len(job.script) |->
            IF job.script[k] = "text" /\ ~Hidden(k) THEN <<k>> ELSE <<>>]
Expected == FlattenSeq(Lines)
OutputIsForwarded ==
  at = "wait" /\ term = 0 /\ "torn" \notin ToSet(job.script) => shown = Expected

(* ssh does not wait for ever at a prompt that came in one piece and not     *)
(* right behind another one: it is answered, or ssh is killed.               *)
PromptIsHandled ==
  (/\ ssh = "asking" /\ job.script[said] # "torn"
   /\ (said > 1 => job.script[said - 1] \notin Prompt)) ~> (ssh # "asking" \/ Gone)

(* With -t, syscmd comes to an end whatever ssh does.                        *)
TimeoutEnds == (timer = "set") ~> Gone
-----------------------------------------------------------------------------
(* The inductive invariant: which processes there can be where the parent    *)
(* is.  ssh outlives the end of the reading only when it ignored TERM.       *)
IInv ==
  /\ TypeOK
  /\ at \in {"pty", "fork", "ssh"} => ssh = "none" /\ feeder = "none"
  /\ at = "feed" => feeder = "none" /\ Adm(job)
  /\ feeder # "none" => Adm(job)
  /\ at \in {"stop", "wait"} /\ Alive => term = 1
  /\ at = "wait" /\ feeder \in {"opening", "sending"} => ~job.sigint
  /\ NothingLeftBehind
  /\ ssh \in {"zombie", "reaped"} => status # NoStatus
  /\ Gone /\ outcome = 0 => unwaited \/ (ssh = "reaped" /\ status = 0)

(* While nothing went wrong, what is on its way are the lines behind those   *)
(* read, and these were shown as they should.  ssh says nothing behind a     *)
(* question before it is answered; one that comes right behind another is    *)
(* swallowed, and then ssh waits.                                            *)
Read == said - Len(out)
Forwarding ==
  /\ Read >= 0 /\ \A i \in DOMAIN out : out[i] = Read + i
  /\ \A k \in Read + 1..said : Asks(k) => k = said /\ ssh = "asking"
  /\ \/ eatnext <=> Read > 0 /\ Asks(Read)
     \/ ssh = "asking" /\ out = <<>>
  /\ shown = FlattenSeq(SubSeq(Lines, 1, Read))
  /\ ssh \in {"zombie", "reaped"} => said = Len(job.script)
  /\ at \notin {"pty", "fork", "ssh"} => ssh # "none"
  /\ at \in {"stop", "wait"} => out = <<>>

ForwardInv == ~Gone /\ term = 0 /\ "torn" \notin ToSet(job.script) => Forwarding
=============================================================================
