------------------------------- MODULE Getopt -------------------------------
(* src/util/getopt.c, the getopt of the systems without glibc: options may   *)
(* stand among the other arguments, which are moved behind them while argv   *)
(* is scanned.  An argument is a sequence of characters, argv[0] is left     *)
(* out, and spec gives the options: short[c] and the arg of a long one are   *)
(* 0, 1 or 2 for no, a required or an optional argument.                     *)
EXTENDS Integers, Sequences, SequencesExt

End == [opt |-> "end", arg |-> <<>>]        \* -1
Bad == [opt |-> "?", arg |-> <<>>]
NoArg == <<"none">>                         \* optarg is null

(* _getopt_initialize: next is what is left of the argument being scanned,   *)
(* first and last enclose the non-options skipped so far, argc the end.      *)
Start(argv) == [argv |-> argv, optind |-> 1, next |-> <<>>, first |-> 1, last |-> 1,
                argc |-> Len(argv) + 1]

NonOption(arg) == Len(arg) < 2 \/ arg[1] # "-"

-----------------------------------------------------------------------------
(* exchange: [bottom, middle) and [middle, top) change places, the shorter   *)
(* one going to its end first.                                               *)

SwapSegments(argv, i, j, len) ==
  [k \in DOMAIN argv |-> IF k \in i..i + len - 1 THEN argv[k - i + j]
                         ELSE IF k \in j..j + len - 1 THEN argv[k - j + i] ELSE argv[k]]

(* Seeded fault: the shorter segment stays where it was put first.           *)
RotateOnce(argv, bottom, middle, top) ==
  IF ~(top > middle /\ middle > bottom) THEN argv
  ELSE IF top - middle > middle - bottom
       THEN SwapSegments(argv, bottom, top - (middle - bottom), middle - bottom)
       ELSE SwapSegments(argv, bottom, middle, top - middle)

RECURSIVE Rotate(_, _, _, _)
Rotate(argv, bottom, middle, top) ==
  IF ~(top > middle /\ middle > bottom) THEN argv
  ELSE LET low == middle - bottom high == top - middle
       IN  IF high > low
           THEN Rotate(SwapSegments(argv, bottom, top - low, low), bottom, middle, top - low)
           ELSE Rotate(SwapSegments(argv, bottom, middle, high), bottom + high, middle, top)

Exchange(g) == [g EXCEPT !.argv = Rotate(@, g.first, g.last, g.optind),
                         !.first = @ + (g.optind - g.last), !.last = g.optind]

-----------------------------------------------------------------------------
(* _getopt_internal: on to the next argument.                                *)

(* What was scanned since the last non-options is moved in front of them.    *)
MoveOptions(g) ==
  IF g.first # g.last /\ g.last # g.optind THEN Exchange(g)
  ELSE IF g.last # g.optind THEN [g EXCEPT !.first = g.optind] ELSE g

NextOption(g) ==
  LET options == {k \in g.optind..g.argc - 1 : ~NonOption(g.argv[k])}
  IN  IF options = {} THEN g.argc ELSE CHOOSE k \in options : \A m \in options : k <= m

SkipTo(g, option) == [g EXCEPT !.optind = option, !.last = option]
SkipNonOptions(g) == SkipTo(g, NextOption(g))
Permute(g) == SkipNonOptions(MoveOptions(g))

(* "--" is passed like an option, and all behind it are non-options.         *)
MoveDashes(g) ==
  IF g.first # g.last /\ g.last # g.optind THEN Exchange(g)
  ELSE IF g.first = g.last THEN [g EXCEPT !.first = g.optind] ELSE g
PassDashes(g) == SkipTo(MoveDashes([g EXCEPT !.optind = @ + 1]), g.argc)

Stop(g) == IF g.optind # g.argc /\ g.argv[g.optind] = <<"-", "-">> THEN PassDashes(g) ELSE g
Advance(g, spec) == Stop(IF spec.ordering = "permute" THEN Permute(g) ELSE g)

-----------------------------------------------------------------------------
(* A long option: its exact name, or an abbreviation of only one.            *)

Result(g, opt, arg) == [g |-> g, ret |-> [opt |-> opt, arg |-> arg]]
Done(g) == [g EXCEPT !.next = <<>>, !.optind = @ + 1]

LongArg(g, hit, rest) ==
  IF rest # <<>>
  THEN IF hit.arg = 0 THEN [g |-> g, ret |-> Bad] ELSE Result(g, hit.name, Tail(rest))
  ELSE IF hit.arg # 1 THEN Result(g, hit.name, NoArg)
  ELSE IF g.optind < g.argc THEN Result([g EXCEPT !.optind = @ + 1], hit.name, g.argv[g.optind])
  ELSE [g |-> g, ret |-> Bad]

LongNamed(g, name, rest, options) ==
  LET hits == {o \in options : IsPrefix(name, o.name)}
      exact == {o \in hits : o.name = name}
      hit == IF exact # {} THEN exact ELSE hits
  IN  IF Cardinality(hit) # 1 THEN [g |-> g, ret |-> Bad]
      ELSE LongArg(g, CHOOSE o \in hit : TRUE, rest)

(* The position of the first "=" in the name, or behind it.                  *)
NameEnd(name) == CHOOSE k \in 1..Len(name) + 1 :
                   /\ k = Len(name) + 1 \/ name[k] = "="
                   /\ \A m \in 1..k - 1 : name[m] # "="

Long(g, spec) ==
  LET stop == NameEnd(g.next)
  IN  LongNamed(Done(g), SubSeq(g.next, 1, stop - 1), SubSeq(g.next, stop, Len(g.next)),
                ToSet(spec.long))

(* The argument of a short option: the rest of this argument or the next one.*)
ShortArg(g, c, rest, how) ==
  IF rest # <<>> THEN Result(Done(g), c, rest)
  ELSE IF how = 2 THEN Result(g, c, NoArg)
  ELSE IF g.optind = g.argc THEN [g |-> g, ret |-> Bad]
  ELSE Result(Done(g), c, g.argv[g.optind])

(* A short option.                                                           *)
ShortOption(g, c, rest, spec) ==
  IF c \notin DOMAIN spec.short THEN [g |-> g, ret |-> Bad]
  ELSE IF spec.short[c] = 0 THEN Result(g, c, NoArg)
  ELSE ShortArg(g, c, rest, spec.short[c])

Short(g, spec) ==
  LET rest == Tail(g.next)
  IN  ShortOption([g EXCEPT !.next = rest, !.optind = IF rest = <<>> THEN @ + 1 ELSE @],
                  Head(g.next), rest, spec)

(* One call: the next argument, unless the last one has letters left.        *)
IsLong(arg, spec) == spec.long # <<>> /\ arg[2] = "-"
Option(g, arg, spec) == IF IsLong(arg, spec) THEN Long(g, spec) ELSE Short(g, spec)

Argument(g, arg, spec) ==
  IF NonOption(arg)
  THEN IF spec.ordering = "require" THEN [g |-> g, ret |-> End]
       ELSE Result([g EXCEPT !.optind = @ + 1], "1", arg)
  ELSE Option([g EXCEPT !.next = SubSeq(arg, IF IsLong(arg, spec) THEN 3 ELSE 2, Len(arg))],
              arg, spec)

NextArgument(g, spec) ==
  IF g.optind = g.argc
  THEN [g |-> [g EXCEPT !.optind = IF g.first # g.last THEN g.first ELSE @], ret |-> End]
  ELSE Argument(g, g.argv[g.optind], spec)

Call(g, spec) ==
  IF g.next = <<>> THEN NextArgument(Advance(g, spec), spec)
  ELSE Option(g, g.argv[g.optind], spec)

First(ret, more) == [more EXCEPT !.opts = <<ret>> \o @]

RECURSIVE Calls(_, _)
Calls(g, spec) ==
  LET c == Call(g, spec)
  IN  IF c.ret = End THEN [opts |-> <<>>, g |-> c.g] ELSE First(c.ret, Calls(c.g, spec))

(* What a program sees of argv: its options and the arguments behind them.   *)
Seen(all, argc) == [opts |-> all.opts, argv |-> all.g.argv,
                    args |-> SubSeq(all.g.argv, all.g.optind, argc)]
Parse(argv, spec) == Seen(Calls(Start(argv), spec), Len(argv))

-----------------------------------------------------------------------------
(* The same read from left to right, without moving anything: an argument is *)
(* taken for itself, an option takes what it takes.                          *)
Rest(g, argv) ==
  IF g.next # <<>> THEN <<<<"-">> \o g.next>> \o Tail(argv) ELSE SubSeq(argv, g.optind, Len(argv))

RECURSIVE ReadLeft(_, _)
ReadLeft(argv, spec) ==
  IF argv = <<>> THEN [opts |-> <<>>, args |-> <<>>]
  ELSE IF Head(argv) = <<"-", "-">> THEN [opts |-> <<>>, args |-> Tail(argv)]
  ELSE IF ~NonOption(Head(argv))
  THEN LET one == Call(Start(argv), spec) IN First(one.ret, ReadLeft(Rest(one.g, argv), spec))
  ELSE CASE spec.ordering = "require" -> [opts |-> <<>>, args |-> argv]
         [] spec.ordering = "permute" ->
              [ReadLeft(Tail(argv), spec) EXCEPT !.args = <<Head(argv)>> \o @]
         [] OTHER -> First([opt |-> "1", arg |-> Head(argv)], ReadLeft(Tail(argv), spec))

(* getopt returns the options in their order and leaves the other arguments  *)
(* in theirs, however the two are mixed; nothing of argv is lost.            *)
Times(s, e) == Cardinality({k \in DOMAIN s : s[k] = e})
SameOrder(got, want, argv) ==
  /\ got.opts = want.opts /\ got.args = want.args
  /\ \A e \in ToSet(argv) : Times(got.argv, e) = Times(argv, e)
GetoptPermutes(argv, spec) == SameOrder(Parse(argv, spec), ReadLeft(argv, spec), argv)
=============================================================================
