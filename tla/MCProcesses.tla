---------------------------- MODULE MCProcesses ----------------------------
(* The three programs that start a process and answer for it: timeout,       *)
(* syscmd and bgrun.  A behaviour is one of Timeout, of Syscmd or of Bgrun;  *)
(* the variables of the other two stand still.                               *)
EXTENDS Naturals, Sequences

CONSTANTS Programs, Jobs, Orders

VARIABLES prog, reaper, pc, handler, alarm, killed, child, asked, cause, stat, result
VARIABLES job, at, ssh, feeder, said, out, eatnext, timer, term, status, outcome,
          shown, unwaited
VARIABLES order, launcher, returned, daemon, program, logfile, logopen, mails, trouble

T == INSTANCE Timeout
S == INSTANCE Syscmd
B == INSTANCE Bgrun

ASSUME InputsAssumption == T!ProgramsAssumption /\ S!JobsAssumption /\ B!OrdersAssumption

NoProgram == [found |-> FALSE, endings |-> {}, TERM |-> "ignores", INT |-> "ignores"]
NoJob == [name |-> "none", user |-> FALSE, script |-> <<>>]
NoOrder == [log |-> FALSE, email |-> FALSE, onerr |-> FALSE, ends |-> "exit",
            code |-> 0, prints |-> <<>>]

TimeoutIdle ==
  /\ prog = NoProgram /\ reaper = TRUE /\ pc = "idle" /\ handler = "off" /\ alarm = "off"
  /\ killed = 0 /\ child = "none" /\ asked = FALSE /\ cause = "none"
  /\ stat = T!NoEnding /\ result = 0

SyscmdIdle ==
  /\ job = NoJob /\ at = "idle" /\ ssh = "none" /\ feeder = "none" /\ said = 0
  /\ out = <<>> /\ eatnext = FALSE /\ timer = "off" /\ term = 0
  /\ status = S!NoStatus /\ outcome = 0 /\ shown = <<>> /\ unwaited = FALSE

BgrunIdle ==
  /\ order = NoOrder /\ launcher = "idle" /\ returned = 0 /\ daemon = "none"
  /\ program = "none" /\ logfile = <<>> /\ logopen = FALSE /\ mails = <<>>
  /\ trouble = "none"

Init == \/ T!Init /\ SyscmdIdle /\ BgrunIdle
        \/ TimeoutIdle /\ S!Init /\ BgrunIdle
        \/ TimeoutIdle /\ SyscmdIdle /\ B!Init

timeoutVars == <<prog, reaper, pc, handler, alarm, killed, child, asked, cause, stat, result>>
syscmdVars == <<job, at, ssh, feeder, said, out, eatnext, timer, term, status, outcome,
                shown, unwaited>>
bgrunVars == <<order, launcher, returned, daemon, program, logfile, logopen, mails, trouble>>
vars == <<timeoutVars, syscmdVars, bgrunVars>>

Next == \/ T!Next /\ UNCHANGED <<syscmdVars, bgrunVars>>
        \/ S!Next /\ UNCHANGED <<timeoutVars, bgrunVars>>
        \/ B!Next /\ UNCHANGED <<timeoutVars, syscmdVars>>

Spec == Init /\ [][Next]_vars /\ T!Fairness /\ S!Fairness /\ B!Fairness

-----------------------------------------------------------------------------
(* The properties of the three, under the names the configuration needs.     *)

(* Every variable of the program that runs keeps its type.                   *)
TypeOK == /\ pc # "idle" => T!TypeOK
          /\ at # "idle" => S!TypeOK
          /\ launcher # "idle" => B!TypeOK

(* timeout and syscmd leave no process behind, however often the alarm comes *)
(* in between, but for the cases that Syscmd names.                          *)
NothingLeftBehind == T!ChildIsReaped /\ S!NothingLeftBehind

(* A program that ended because of the limit of timeout is not a success,    *)
(* though kill() takes effect before `killed' is set.                        *)
TimeoutIsReported == T!TimeoutIsReported

(* Zero means that the child of timeout, or of syscmd, came to a good end.   *)
SuccessIsReal == T!SuccessIsReal /\ S!SuccessIsSsh

(* syscmd shows every line of the command, in order, and no other.           *)
OutputIsForwarded == S!OutputIsForwarded

(* ssh does not wait for ever at a prompt that came in one piece.            *)
PromptIsHandled == S!PromptIsHandled

(* A mail of bgrun comes after the program and has the section of the log    *)
(* and the outcome that the options ask for.                                 *)
MailIsTrue == B!MailIsTrue

(* What the options ask for happens in the end: a program that obeys is      *)
(* stopped at its limit (timeout), syscmd -t ends, and bgrun mails once.     *)
PromisesAreKept == T!StopsObedient /\ S!TimeoutEnds /\ B!MailIsSent

-----------------------------------------------------------------------------
(* The inductive invariant: that of the program that runs.                   *)
IInv == /\ TimeoutIdle \/ T!IInv
        /\ SyscmdIdle \/ (S!IInv /\ S!ForwardInv)
        /\ BgrunIdle \/ (B!IInv /\ B!MailInv)

-----------------------------------------------------------------------------
(* Every program that differs in a way Timeout can tell.                     *)
Reaction == {"dies", "exits", "ignores"}
AnyProgram == [found : BOOLEAN,
               endings : {{}, {[how |-> "exit", code |-> 0]},
                          {[how |-> "exit", code |-> 2], [how |-> "signal", code |-> 0]}},
               TERM : Reaction, INT : Reaction, code : {0, 2}]

(* Scripts: every pair of lines, and longer ones with an answer in between.  *)
Kind == {"noise", "sure", "password", "expired", "text", "torn"}
Scripts == UNION {[1..n -> Kind] : n \in 0..2}
           \cup {<<"noise", "sure", "noise", "text">>,
                 <<"text", "password", "text", "password", "text">>}

(* Calls: a key, a password or nothing to log in with; with and without a    *)
(* command and a time limit.                                                 *)
AnyJob ==
  {j \in [name : {"admscp", "syscmd"}, user : BOOLEAN, pass : BOOLEAN, cmd : BOOLEAN,
          timeout : BOOLEAN, sigint : BOOLEAN, script : Scripts, ends : BOOLEAN,
          code : {0, 2}, TERM : {"dies", "ignores"}] :
     /\ j.name = "admscp" => ~j.user /\ ~j.pass /\ j.cmd
     /\ ~j.cmd => j.script = <<>>
     /\ (~j.ends => j.code = 0) /\ (~j.timeout => j.TERM = "dies")
     /\ (~j.sigint => j.code = 0)}

Prints == UNION {[1..n -> {"bmark", "emark", "text"}] : n \in 1..3}
          \cup {<<"CRmark", "text">>, <<"text", "bmark", "emark", "bmark", "text">>}

(* Orders that get no mail, orders for a mail with every section of every    *)
(* log, and orders for every outcome.                                        *)
NoMail == [version : {"new"}, log : BOOLEAN, email : {FALSE}, bmark : {FALSE},
           emark : {FALSE}, sub : {FALSE}, nosub : {FALSE}, nohead : {FALSE},
           status : {FALSE}, onerr : BOOLEAN, prints : {<<>>},
           ends : {"exit", "signal"}, code : {0, 2}]
Sections == [version : {"new", "old"}, log : {TRUE}, email : {TRUE}, bmark : BOOLEAN,
             emark : BOOLEAN, sub : {TRUE}, nosub : {FALSE}, nohead : {FALSE},
             status : {TRUE}, onerr : {FALSE}, prints : Prints,
             ends : {"exit"}, code : {0}]
Outcomes == [version : {"new"}, log : {TRUE}, email : {TRUE}, bmark : {FALSE},
             emark : {FALSE}, sub : BOOLEAN, nosub : BOOLEAN, nohead : BOOLEAN,
             status : BOOLEAN, onerr : BOOLEAN, prints : {<<"text">>},
             ends : {"exit", "signal"}, code : {0, 2, 3}]
AnyOrder == {o \in NoMail \cup Sections \cup Outcomes : o.ends = "signal" => o.code = 0}
=============================================================================
