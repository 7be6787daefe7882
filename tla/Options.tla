------------------------------ MODULE Options ------------------------------
(* The command lines of the programs that read argv themselves (worker,      *)
(* worker/new, bgrun, syscmd), a state machine over the arguments: the       *)
(* options up to the first operand, the operands the program wants, and the  *)
(* command that it runs.  Arguments are sequences of characters.             *)
EXTENDS Naturals, Sequences, SequencesExt

Dash(word) == word # <<>> /\ word[1] = "-"

(* What there is to know of a program: the options that take a value, the    *)
(* flags, the options that print something and return 0, the operands in     *)
(* front of the command, and whether "-" is an operand.                      *)
Word(letter) == <<"-", letter>>

Worker == [values |-> {Word(c) : c \in {"t", "i", "e"}}, flags |-> {Word("d")},
           prints |-> {Word("V"), Word("h")}, operands |-> <<"input", "count">>, dash |-> TRUE]
WorkerNew == [values |-> {Word(c) : c \in {"t", "e"}}, flags |-> {},
              prints |-> {Word("V"), Word("h")}, operands |-> <<"input", "count">>, dash |-> TRUE]
Bgrun == [values |-> {Word(c) : c \in {"l", "m", "t", "e", "c", "b", "f", "s"}},
          flags |-> {Word(c) : c \in {"r", "u", "n", "x", "o"}},
          prints |-> {Word("h")}, operands |-> <<>>, dash |-> FALSE]
OldBgrun == [Bgrun EXCEPT !.flags = @ \ {Word("o")}]
Syscmd == [values |-> {Word(c) : c \in {"t", "u", "p", "F", "P"}}, flags |-> {Word("v")},
           prints |-> {Word("V"), Word("h")}, operands |-> <<"host">>, dash |-> FALSE]

NoWords == [opts |-> <<>>, given |-> <<>>, command |-> <<>>, value |-> <<>>, exit |-> "no"]

(* A word in the state that the words before it led to.                      *)
TakeValue(c, word) ==
  [c EXCEPT !.opts = Append(@, [opt |-> c.value[2], arg |-> word]), !.value = <<>>]

TakeOption(p, c, word) ==
  IF word \in p.values THEN [c EXCEPT !.value = word]
  ELSE IF word \in p.flags THEN [c EXCEPT !.opts = Append(@, [opt |-> word[2], arg |-> <<"none">>])]
  ELSE [c EXCEPT !.exit = IF word \in p.prints THEN "printed" ELSE "usage"]

TakeWord(p, c, word) ==
  LET started == c.given # <<>> \/ c.command # <<>>
  IN  IF c.exit # "no" THEN c
      ELSE IF c.value # <<>> THEN TakeValue(c, word)
      ELSE IF ~started /\ Dash(word) /\ ~(p.dash /\ word = <<"-">>) THEN TakeOption(p, c, word)
      ELSE IF Len(c.given) < Len(p.operands) THEN [c EXCEPT !.given = Append(@, word)]
      ELSE [c EXCEPT !.command = Append(@, word)]

Words(p, argv) ==
  FoldLeft(LAMBDA c, word : TakeWord(p, c, word), NoWords, argv)

(* The end of the loop: usage unless all operands and a command are there.   *)
(* syscmd does without the command (it then opens a session), but not with   *)
(* an empty host.                                                            *)
Finish(c, complete) == IF c.exit = "no" /\ ~complete THEN [c EXCEPT !.exit = "usage"] ELSE c

WorkerMain(argv) == LET c == Words(Worker, argv) IN Finish(c, c.command # <<>>)
WorkerNewMain(argv) == LET c == Words(WorkerNew, argv) IN Finish(c, c.command # <<>>)
BgrunMain(argv) == LET c == Words(Bgrun, argv) IN Finish(c, c.command # <<>>)
OldBgrunMain(argv) == LET c == Words(OldBgrun, argv) IN Finish(c, c.command # <<>>)
SyscmdMain(argv) == LET c == Words(Syscmd, argv) IN Finish(c, c.given # <<>> /\ c.given[1] # <<>>)
=============================================================================
