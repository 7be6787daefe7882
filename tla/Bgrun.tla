------------------------------- MODULE Bgrun -------------------------------
(* src/bgrun/bgrun.c (and bgrun/old): run a program in the background with   *)
(* its output in a log, then mail the marked part of the log.  The launcher  *)
(* forks a daemon and exits; the daemon forks the program, waits for it and  *)
(* composes the message.                                                     *)
EXTENDS Naturals, Sequences, SequencesExt

CONSTANT Orders    \* the command lines, each with what its program will do

(* What a log line is to bgrun; "CRmark" is the first mark with a carriage   *)
(* return before the newline.                                                *)
LineKind == {"bmark", "emark", "CRmark", "text"}

OrdersAssumption ==
  Orders \subseteq [version : {"new", "old"},
                    log : BOOLEAN, email : BOOLEAN, bmark : BOOLEAN, emark : BOOLEAN,
                    sub : BOOLEAN, nosub : BOOLEAN, nohead : BOOLEAN,
                    status : BOOLEAN, onerr : BOOLEAN,
                    prints : Seq(LineKind), ends : {"exit", "signal"}, code : 0..3]

VARIABLES order,
          launcher,   \* the process the user started
          returned,   \* what it returned
          daemon,     \* the process it leaves behind
          program,    \* the program
          logfile,    \* the lines in the log; positions in order.prints
          logopen,    \* whether open made the log
          mails,      \* the messages given to sendmail
          trouble     \* history: the file that Compose could not open

vars == <<order, launcher, returned, daemon, program, logfile, logopen, mails, trouble>>

NotReturned == 2

Init ==
  /\ order \in Orders
  /\ launcher = "check" /\ returned = NotReturned /\ daemon = "none"
  /\ program = "none" /\ logfile = <<>> /\ logopen = FALSE /\ mails = <<>>
  /\ trouble = "none"

-----------------------------------------------------------------------------
(* The launcher.                                                             *)

GoesOn(where) == launcher' = where /\ UNCHANGED returned
Fails == launcher' = "gone" /\ returned' = 1

CheckProgram ==
  /\ launcher = "check"
  /\ GoesOn(IF order.log THEN "log" ELSE "fork") \/ Fails
  /\ UNCHANGED <<order, daemon, program, logfile, logopen, mails, trouble>>

OpenLog ==
  /\ launcher = "log"
  /\ \/ logopen' = TRUE /\ GoesOn("fork")
     \/ UNCHANGED logopen /\ Fails
  /\ UNCHANGED <<order, daemon, program, logfile, mails, trouble>>

(* The parent of the first fork returns zero at once.                        *)
ForkDaemon ==
  /\ launcher = "fork"
  /\ \/ launcher' = "gone" /\ returned' = 0 /\ daemon' = "fork"
     \/ Fails /\ UNCHANGED daemon
  /\ UNCHANGED <<order, program, logfile, logopen, mails, trouble>>

-----------------------------------------------------------------------------
(* The daemon.                                                               *)

ForkProgram ==
  /\ daemon = "fork"
  /\ \/ daemon' = "wait" /\ program' = "running"
     \/ daemon' = "gone" /\ UNCHANGED program
  /\ UNCHANGED <<order, launcher, returned, logfile, logopen, mails, trouble>>

Status == IF order.ends = "exit" THEN order.code ELSE 1

(* A mail needs a log and an address, and with -x a failure.                 *)
WaitForProgram ==
  /\ daemon = "wait" /\ program = "zombie"
  /\ program' = "reaped"
  /\ daemon' = (IF order.log /\ order.email /\ ~(Status = 0 /\ order.onerr)
                THEN "compose" ELSE "gone")
  /\ UNCHANGED <<order, launcher, returned, logfile, logopen, mails, trouble>>

(* What striplf leaves of a line; the old version cuts the newline only.     *)
OldStrip(kind) == kind
Strip(kind) == IF order.version = "old" THEN OldStrip(kind)
               ELSE IF kind = "CRmark" THEN "bmark" ELSE kind

IsMark(k) == order.bmark /\ Strip(order.prints[k]) = "bmark"
IsEnd(k) == order.emark /\ Strip(order.prints[k]) = "emark"

(* The copying loop, as a fold over the lines: what was copied, whether the  *)
(* first mark was seen and whether the last one was.                         *)
CopyLine(needmark, c, k) ==
  IF c.done THEN c
  ELSE IF needmark /\ ~c.have THEN [c EXCEPT !.have = IsMark(k)]
  ELSE IF IsEnd(k) THEN [c EXCEPT !.done = TRUE]
  ELSE [c EXCEPT !.body = Append(@, k)]
NothingCopied == [body |-> <<>>, have |-> FALSE, done |-> FALSE]
Copy(lines, needmark) ==
  FoldLeft(LAMBDA c, k : CopyLine(needmark, c, k), NothingCopied, lines)

(* Fault: the log is not copied when the first mark is missing.              *)
BodyMarkedOnly == Copy(logfile, order.bmark).body

(* Without the first mark the whole log is copied up to the last one.        *)
Body ==
  LET marked == Copy(logfile, order.bmark)
  IN  IF order.bmark /\ ~marked.have THEN Copy(logfile, FALSE).body ELSE marked.body

(* The word after the subject.                                               *)
Outcome == IF order.nohead \/ ~order.sub \/ order.nosub \/ ~order.status THEN "none"
           ELSE IF Status = 0 THEN "SUCCESS"
           ELSE IF Status = 2 THEN "WARNING" ELSE "FAILED"

(* The newline after the header ends the subject when that was made up, so   *)
(* that no empty line follows.                                               *)
BlankLine == ~order.nohead /\ (order.sub \/ order.nosub)

Message(body) == [outcome |-> Outcome, blank |-> BlankLine, body |-> body]

(* Without the log the message is a header; without its own file there is no *)
(* message, and fclose of the null stream may end the daemon before sendmail *)
(* is run on nothing.                                                        *)
Compose ==
  /\ daemon = "compose" /\ daemon' = "gone"
  /\ \/ mails' = Append(mails, Message(Body)) /\ UNCHANGED trouble
     \/ mails' = Append(mails, Message(<<>>)) /\ trouble' = "log"
     \/ UNCHANGED mails /\ trouble' = "message"
  /\ UNCHANGED <<order, launcher, returned, program, logfile, logopen>>

-----------------------------------------------------------------------------
(* The program, writing to the log if there is one.                          *)

ProgramPrints ==
  /\ program = "running" /\ order.log /\ Len(logfile) < Len(order.prints)
  /\ logfile' = Append(logfile, Len(logfile) + 1)
  /\ UNCHANGED <<order, launcher, returned, daemon, program, logopen, mails, trouble>>

ProgramEnds ==
  /\ program = "running" /\ (order.log => Len(logfile) = Len(order.prints))
  /\ program' = "zombie"
  /\ UNCHANGED <<order, launcher, returned, daemon, logfile, logopen, mails, trouble>>

Next == \/ CheckProgram \/ OpenLog \/ ForkDaemon \/ ForkProgram \/ WaitForProgram
        \/ Compose \/ ProgramPrints \/ ProgramEnds

Fairness == WF_vars(Next)

Spec == Init /\ [][Next]_vars /\ Fairness

-----------------------------------------------------------------------------
TypeOK ==
  /\ order \in Orders
  /\ launcher \in {"check", "log", "fork", "gone"} /\ returned \in 0..NotReturned
  /\ daemon \in {"none", "fork", "wait", "compose", "gone"}
  /\ program \in {"none", "running", "zombie", "reaped"}
  /\ logfile \in Seq(1..Len(order.prints)) /\ logopen \in BOOLEAN
  /\ Len(mails) <= 1 /\ trouble \in {"none", "log", "message"}
  /\ daemon # "none" => returned = 0 /\ logopen = order.log

(* The part of a log that the options ask for: what stands between the first *)
(* first mark and the next last mark, or, without the first mark, before the *)
(* first last mark.                                                          *)
Section(n) ==
  LET marks == {k \in 1..n : IsMark(k)}
      start == IF marks = {} THEN 0 ELSE CHOOSE k \in marks : \A m \in marks : k <= m
      ends == {k \in start + 1..n : IsEnd(k)}
      stop == IF ends = {} THEN n + 1 ELSE CHOOSE k \in ends : \A m \in ends : k <= m
  IN  [k \in 1..stop - start - 1 |-> start + k]

(* A mail is written only when the program has ended, shows the section of   *)
(* the whole log and, when asked to, tells how the program ended.            *)
MailIsTrue ==
  \A k \in DOMAIN mails :
    /\ program = "reaped" /\ Len(logfile) = Len(order.prints)
    /\ mails[k].body = (IF trouble = "log" THEN <<>> ELSE Section(Len(order.prints)))
    /\ (order.sub /\ order.status /\ ~order.nosub /\ ~order.nohead) =>
         (mails[k].outcome = "SUCCESS" <=> order.ends = "exit" /\ order.code = 0)

(* Once a program is started, its end leads to one mail if one was asked for *)
(* and to none otherwise, whatever has become of the launcher.               *)
MailIsSent ==
  (daemon = "wait") ~> /\ daemon = "gone" /\ program = "reaped"
                       /\ Len(mails) = IF /\ order.log /\ order.email
                                          /\ ~(order.onerr /\ Status = 0)
                                          /\ trouble # "message" THEN 1 ELSE 0
-----------------------------------------------------------------------------
(* The inductive invariant: the launcher is gone when there is a daemon, and *)
(* the daemon writes one message, as the last thing it does.                 *)
IInv ==
  /\ TypeOK
  /\ launcher = "log" => order.log
  /\ launcher \in {"check", "log"} => ~logopen
  /\ launcher = "fork" => logopen = order.log
  /\ launcher # "gone" => daemon = "none"
  /\ daemon # "gone" => mails = <<>>

(* The log holds the lines in order, all of them once the program has ended; *)
(* what a mail says of the whole log stays true.                             *)
MailInv ==
  /\ \A i \in DOMAIN logfile : logfile[i] = i
  /\ program \in {"zombie", "reaped"} /\ order.log => Len(logfile) = Len(order.prints)
  /\ daemon = "compose" => program = "reaped" /\ order.log
  /\ daemon # "gone" => trouble = "none"
  /\ MailIsTrue
=============================================================================
