------------------------------ MODULE Timeout ------------------------------
(* src/timeout/timeout.c: run a program and send it signals when it takes    *)
(* too long.  The parent, the SIGALRM handler that interrupts it and the     *)
(* program are interleaved; the handler runs on the parent's stack, so the   *)
(* parent stands still meanwhile.  With glibc's signal() the waitpid that    *)
(* the handler interrupts is restarted.                                      *)
EXTENDS Naturals

CONSTANT Programs     \* the programs timeout may be asked to run

(* What a program is like: does execvp find it, how may it end by itself,    *)
(* and what do TERM and INT do to it.                                        *)
Reaction == {"dies", "exits", "ignores"}
Ending == [how : {"exit"}, code : 0..2] \cup [how : {"signal"}, code : {0}]

ProgramsAssumption ==
  Programs \subseteq [found : BOOLEAN, endings : SUBSET Ending,
                      TERM : Reaction, INT : Reaction, code : 0..2]

VARIABLES prog,       \* the program
          reaper,     \* whether SIGCHLD has its default disposition, so that waitpid reaps
          pc,         \* where main is
          handler,    \* where _do_exit is
          alarm,      \* the timer
          killed,     \* the flag of the handler
          child,      \* the child process
          asked,      \* the program caught a signal and is on its way out
          cause,      \* history: why the child ended: "itself" or "timeout"
          stat,       \* how it ended; what waitpid stores
          result      \* what timeout returns

vars == <<prog, reaper, pc, handler, alarm, killed, child, asked, cause, stat, result>>

NoEnding == [how |-> "none", code |-> 0]

Init ==
  /\ prog \in Programs /\ reaper \in BOOLEAN
  /\ pc = "fork" /\ handler = "off" /\ alarm = "off" /\ killed = 0
  /\ child = "none" /\ asked = FALSE /\ cause = "none" /\ stat = NoEnding
  /\ result = 0

MainRuns == handler = "off"

-----------------------------------------------------------------------------
(* The parent.                                                               *)

Fork ==
  /\ pc = "fork"
  /\ \/ child' = "starting" /\ pc' = "signal" /\ UNCHANGED result
     \/ pc' = "gone" /\ result' = 1 /\ UNCHANGED child
  /\ UNCHANGED <<prog, reaper, handler, alarm, killed, asked, cause, stat>>

SetHandler ==
  /\ pc = "signal"
  /\ pc' = "alarm"
  /\ UNCHANGED <<prog, reaper, handler, alarm, killed, child, asked, cause, stat, result>>

SetAlarm ==
  /\ pc = "alarm"
  /\ alarm' = "set" /\ pc' = "wait"
  /\ UNCHANGED <<prog, reaper, handler, killed, child, asked, cause, stat, result>>

(* waitpid returns when the child has ended.  If SIGCHLD was ignored by      *)
(* whoever started timeout, the child is gone, waitpid fails and stat is     *)
(* whatever was on the stack.                                                *)
Wait ==
  /\ pc = "wait" /\ MainRuns /\ child = "zombie"
  /\ child' = "reaped" /\ pc' = "return"
  /\ IF reaper THEN UNCHANGED stat ELSE stat' \in Ending
  /\ UNCHANGED <<prog, reaper, handler, alarm, killed, asked, cause, result>>

(* WEXITSTATUS of a child that a signal ended is zero.                       *)
ExitStatus == IF stat.how = "exit" THEN stat.code ELSE 0

Return ==
  /\ pc = "return" /\ MainRuns
  /\ result' = (IF killed = 1 THEN 1 ELSE ExitStatus)
  /\ pc' = "gone"
  /\ UNCHANGED <<prog, reaper, handler, alarm, killed, child, asked, cause, stat>>

-----------------------------------------------------------------------------
(* _do_exit, from the timer to its return.                                   *)

(* Seeded fault: the timer may expire after main has returned.               *)
AlarmFiresLate ==
  /\ alarm = "set"
  /\ alarm' = "off" /\ handler' = "TERM"
  /\ UNCHANGED <<prog, reaper, pc, killed, child, asked, cause, stat, result>>

AlarmFires ==
  /\ alarm = "set" /\ pc \in {"wait", "return"}
  /\ alarm' = "off" /\ handler' = "TERM"
  /\ UNCHANGED <<prog, reaper, pc, killed, child, asked, cause, stat, result>>

Ends(ending, why) == child' = "zombie" /\ stat' = ending /\ cause' = why

BySignal == [how |-> "signal", code |-> 0]

(* A signal to a child that has ended is lost; before execvp the child has   *)
(* the default dispositions and dies.                                        *)
Signal(sig) ==
  IF child = "starting" \/ (child = "running" /\ prog[sig] = "dies")
  THEN Ends(BySignal, "timeout") /\ UNCHANGED asked
  ELSE /\ asked' = (asked \/ (child = "running" /\ prog[sig] = "exits"))
       /\ UNCHANGED <<child, stat, cause>>

SendTerm ==
  /\ handler = "TERM"
  /\ Signal("TERM")
  /\ handler' = "INT"
  /\ UNCHANGED <<prog, reaper, pc, alarm, killed, result>>

SendInt ==
  /\ handler = "INT"
  /\ Signal("INT")
  /\ handler' = "mark"
  /\ UNCHANGED <<prog, reaper, pc, alarm, killed, result>>

(* Seeded fault: the flag is not set.                                        *)
MarkNothing == handler = "mark" /\ handler' = "off"
               /\ UNCHANGED <<prog, reaper, pc, alarm, killed, child, asked, cause, stat, result>>

MarkKilled ==
  /\ handler = "mark"
  /\ killed' = 1 /\ handler' = "off"
  /\ UNCHANGED <<prog, reaper, pc, alarm, child, asked, cause, stat, result>>

-----------------------------------------------------------------------------
(* The child.                                                                *)

Exec ==
  /\ child = "starting"
  /\ IF prog.found THEN child' = "running" /\ UNCHANGED <<stat, cause>>
                   ELSE Ends([how |-> "exit", code |-> 1], "itself")
  /\ UNCHANGED <<prog, reaper, pc, handler, alarm, killed, asked, result>>

EndsByItself ==
  /\ child = "running"
  /\ \E ending \in prog.endings : Ends(ending, "itself")
  /\ UNCHANGED <<prog, reaper, pc, handler, alarm, killed, asked, result>>

EndsAsAsked ==
  /\ child = "running" /\ asked
  /\ Ends([how |-> "exit", code |-> prog.code], "timeout")
  /\ UNCHANGED <<prog, reaper, pc, handler, alarm, killed, asked, result>>

Main == Fork \/ SetHandler \/ SetAlarm \/ Wait \/ Return
Handler == AlarmFires \/ SendTerm \/ SendInt \/ MarkKilled

Next == Main \/ Handler \/ Exec \/ EndsByItself \/ EndsAsAsked

(* The kernel runs the parent and the handler, and the timer expires; a      *)
(* program that caught a signal to exit does exit.  Nothing is assumed of    *)
(* the end that a program comes to by itself.                                *)
Fairness == WF_vars(Main) /\ WF_vars(Handler) /\ WF_vars(Exec) /\ WF_vars(EndsAsAsked)

Spec == Init /\ [][Next]_vars /\ Fairness

-----------------------------------------------------------------------------
Gone == pc = "gone"

(* The variables have their types, and the phases of parent, handler and     *)
(* child fit: no handler before there is a child to signal.                  *)
TypeOK ==
  /\ prog \in Programs /\ reaper \in BOOLEAN
  /\ pc \in {"fork", "signal", "alarm", "wait", "return", "gone"}
  /\ handler \in {"off", "TERM", "INT", "mark"}
  /\ alarm \in {"off", "set"} /\ killed \in {0, 1}
  /\ child \in {"none", "starting", "running", "zombie", "reaped"}
  /\ asked \in BOOLEAN /\ cause \in {"none", "itself", "timeout"}
  /\ stat \in Ending \cup {NoEnding} /\ result \in 0..2
  /\ handler # "off" => child # "none" /\ pc \in {"wait", "return"}
  /\ child \in {"zombie", "reaped"} => stat # NoEnding

(* timeout never returns while its child runs, and leaves no zombie: `Do the *)
(* alarm in THIS process context' (timeout.c:72) keeps the parent waiting.   *)
ChildIsReaped == Gone => child \in {"none", "reaped"}

(* A program that ended because of the time limit is never reported as a     *)
(* success, whatever it makes of the signals: kill() takes effect before     *)
(* killed is set, and the parent must not look in between.                   *)
TimeoutIsReported == Gone /\ cause = "timeout" => result = 1

(* When timeout returns zero, the program exited with zero or was ended by a *)
(* signal of someone else, unless waitpid could not tell.                    *)
SuccessIsReal ==
  Gone /\ result = 0 /\ reaper =>
     cause = "itself" /\ (stat.how = "exit" => stat.code = 0)

(* timeout returns for every program that TERM or INT stops (both are sent), *)
(* even for one that never ends by itself.                                   *)
StopsObedient == \A sig \in {"TERM", "INT"} : (prog[sig] # "ignores") ~> Gone
-----------------------------------------------------------------------------
(* The inductive invariant: where the parent is tells what became of the     *)
(* child, and what the signals did is known to the handler or in killed; the *)
(* handler is not interrupted by another alarm.                              *)
IInv ==
  /\ TypeOK
  /\ pc = "fork" => child = "none"
  /\ pc \in {"signal", "alarm", "wait"} => child \in {"starting", "running", "zombie"}
  /\ pc = "return" => child = "reaped"
  /\ ChildIsReaped
  /\ cause = "none" <=> child \in {"none", "starting", "running"}
  /\ alarm = "set" => handler = "off"
  /\ asked \/ cause = "timeout" => killed = 1 \/ handler \in {"INT", "mark"}
  /\ Gone => result = IF child = "none" \/ killed = 1 THEN 1 ELSE ExitStatus
=============================================================================
