------------------------------- MODULE MCText -------------------------------
(* The functions of util and of the programs' command lines, over the inputs *)
(* of Inputs.                                                                *)
EXTENDS Inputs

St == INSTANCE Strings
Go == INSTANCE Getopt
Op == INSTANCE Options

-----------------------------------------------------------------------------
(* strele finds the fields of a string, those in quotes too, stredit and     *)
(* trim lose blanks and comments only, and a dump has all the bytes          *)
(* (strele.c, stredit.c, trim.c, bindump.c and their copies in xplist and    *)
(* luninfo), except where UNCOMMENT finds no comment and leaves the string,  *)
(* and where a copy of bindump takes a "%" in the data for a format.         *)
StringsAreKept ==
  /\ St!StreleIsField(Spell(<<"a", ",", "tab", "'", "\"", "A">>))
  /\ St!QuotedFieldIsWhole(Spell(<<"a", ",", "tab", "'", "\"", "A">>))
  /\ St!EditsKeepText(Spell(<<"a", "A", " ", "tab", "!", "ctl">>))
  /\ St!TrimsAgree(Spell(<<"a", "A", " ", "tab", "!", "ctl">>))
  /\ LET s == Spell(<<0, 31, 32, 37, 127, 255>>)
     IN  Len(s) <= 3 => St!DumpIsWhole(St!FlattenSeq([k \in 1..17 |-> s]))

(* Arguments for getopt, which must return them in their order, in all three *)
(* orderings, with and without long options.                                 *)
Args == Spell(<<<<"-", "a">>, <<"-", "a", "b">>, <<"w">>, <<"-">>, <<"-", "-">>,
                <<"-", "-", "a", "=", "w">>>>)
Specs == [ordering : {"permute", "require", "return"},
          short : {[a |-> 0, b |-> 1], [a |-> 2, b |-> 0]},
          long : {<<>>, <<[name |-> <<"a", "b">>, arg |-> 1], [name |-> <<"b">>, arg |-> 0]>>}]

(* A command line for the loops over argv, and what getopt would be told.    *)
Line(flag) == Spell(<<Op!Word("t"), Op!Word("h"), <<"w">>, <<"-">>, <<>>, Op!Word(flag)>>)
OptionsOf(p) == [ordering |-> "require", long |-> <<>>,
                 short |-> [c \in {w[2] : w \in p.values \cup p.flags \cup p.prints} |->
                              IF Op!Word(c) \in p.values THEN 1 ELSE 0]]
Stopping(got, p) == {k \in DOMAIN got.opts : got.opts[k] = Go!Bad
                                              \/ Op!Word(got.opts[k].opt) \in p.prints}
Same(p, got, stops, c, needed) ==
  IF stops # {}
  THEN c.exit = IF got.opts[CHOOSE k \in stops : \A m \in stops : k <= m] = Go!Bad
                THEN "usage" ELSE "printed"
  ELSE /\ c.opts = got.opts
       /\ c.given \o c.command = got.args
       /\ c.exit = "no" <=> Len(got.args) >= needed /\ (p = Op!Syscmd => got.args[1] # <<>>)
SameAs(got, p, c, needed) == Same(p, got, Stopping(got, p), c, needed)

(* getopt keeps options and arguments apart and each in its order, and the   *)
(* loops over argv of worker, worker/new, bgrun and syscmd treat a command   *)
(* line as a getopt would that stops at the first operand: what stands in    *)
(* front of it are options with their values, and everything behind it       *)
(* reaches the command, whatever it looks like.                              *)
CommandsArePassed ==
  /\ \A spec \in Specs : Go!GetoptPermutes(Args, spec)
  /\ \A call \in {[p |-> Op!Worker, argv |-> Line("d"), c |-> Op!WorkerMain(Line("d")), needed |-> 3],
                  [p |-> Op!WorkerNew, argv |-> Line("e"), c |-> Op!WorkerNewMain(Line("e")),
                   needed |-> 3]}
             \cup IF <<"-">> \in St!ToSet(Line("r")) THEN {}
                  ELSE {[p |-> Op!Bgrun, argv |-> Line("r"), c |-> Op!BgrunMain(Line("r")), needed |-> 1],
                        [p |-> Op!OldBgrun, argv |-> Line("o"), c |-> Op!OldBgrunMain(Line("o")),
                         needed |-> 1],
                        [p |-> Op!Syscmd, argv |-> Line("v"), c |-> Op!SyscmdMain(Line("v")),
                         needed |-> 1]} :
       SameAs(Go!Parse(call.argv, OptionsOf(call.p)), call.p, call.c, call.needed)
=============================================================================
