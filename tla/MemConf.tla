------------------------------ MODULE MemConf -------------------------------
(* src/memconf: the machine and its memory modules out of what dmidecode     *)
(* prints (memconf.c, old.memconf.c).  A line is its mark, the text the code *)
(* looks for in it, and its value; "Handle" is any other handle, and in      *)
(* old.memconf "Handle" is every handle and type the line behind it.         *)
EXTENDS Naturals, Sequences, SequencesExt

Unset == "none"
NewModule == [loc |-> "?", size |-> "?", type |-> "?"]
Machine == [mfg |-> Unset, prod |-> Unset, serial |-> Unset]
Start == [list |-> <<>>, new |-> NewModule, ff |-> Unset, mt |-> Unset, speed |-> Unset,
          sys |-> Machine, got_sys |-> FALSE, have_sys |-> FALSE, have_mem |-> FALSE]

SysLine(m, line) ==
  CASE line.mark = "Manufacturer" -> [m EXCEPT !.sys.mfg = line.value]
    [] line.mark = "Product Name" -> [m EXCEPT !.sys.prod = line.value]
    [] line.mark = "Serial Number" -> [m EXCEPT !.sys.serial = line.value]
    [] OTHER -> m
MemLine(m, line) ==
  CASE line.mark = "Size" -> [m EXCEPT !.new.size = line.value]
    [] line.mark = "Locator" -> [m EXCEPT !.new.loc = line.value]
    [] line.mark = "Type" ->
         [m EXCEPT !.mt = IF line.value = "<OUT OF SPEC>" THEN Unset ELSE line.value]
    [] line.mark = "Form Factor" -> [m EXCEPT !.ff = line.value]
    [] line.mark = "Speed" -> [m EXCEPT !.speed = line.value]
    [] OTHER -> m

Typed(m) == [m.new EXCEPT !.type = <<m.mt, m.speed, m.ff>>]
Fresh(m) == [m EXCEPT !.new = NewModule, !.ff = Unset, !.mt = Unset, !.speed = Unset]

EndsRecord(line) == line.mark \in {"blank", "Handle", "Handle 0x01", "Handle 0x11"}

(* memconf: a record ends with a blank line or with a handle, which may      *)
(* begin the next.                                                           *)
Inside(m, line) ==
  IF m.have_sys
  THEN IF EndsRecord(line) THEN [m EXCEPT !.have_sys = FALSE, !.got_sys = TRUE]
       ELSE SysLine(m, line)
  ELSE IF m.have_mem
  THEN IF EndsRecord(line) THEN [m EXCEPT !.have_mem = FALSE, !.list = Append(@, Typed(m))]
       ELSE MemLine(m, line)
  ELSE m
Read(m0, line) ==
  LET m == Inside(m0, line)
  IN  CASE line.mark = "Handle 0x01" -> [m EXCEPT !.have_sys = TRUE, !.sys = Machine]
        [] line.mark = "Handle 0x11" -> [Fresh(m) EXCEPT !.have_mem = TRUE]
        [] OTHER -> m
Memconf(lines) ==
  LET m == FoldLeft(Read, Start, lines)
  IN  IF m.got_sys THEN [exit |-> 0, sys |-> m.sys, list |-> m.list]
      ELSE [exit |-> 1, sys |-> Machine, list |-> <<>>]

(* old.memconf: a record ends with the next handle, and its kind is said by  *)
(* a line of its own; whether there was a system is not asked.               *)
OldRead(m0, line) ==
  LET m == IF line.mark = "Handle"
           THEN [m0 EXCEPT !.list = IF m0.have_mem THEN Append(@, Typed(m0)) ELSE @,
                           !.have_sys = FALSE, !.have_mem = FALSE]
           ELSE IF line.mark = "DMI type 1" THEN [m0 EXCEPT !.have_sys = TRUE, !.sys = Machine]
           ELSE IF line.mark = "DMI type 17" THEN [Fresh(m0) EXCEPT !.have_mem = TRUE]
           ELSE m0
  IN  IF m.have_sys THEN SysLine(m, line)
      ELSE IF m.have_mem THEN MemLine(m, line) ELSE m
OldMemconf(lines) ==
  LET m == FoldLeft(OldRead, Start, lines) IN [sys |-> m.sys, list |-> m.list]

-----------------------------------------------------------------------------
Handle == [mark |-> "Handle", value |-> ""]

(* Each memory device whose record ends is listed once, in order, with what  *)
(* its own record says and nothing of another one's; the machine is that of  *)
(* the last such record.  old.memconf finds the same where no blank line     *)
(* ends a record.                                                            *)
ModulesAreTheirOwn(lines) ==
  LET begins == {i \in DOMAIN lines : lines[i].mark = "Handle 0x11"}
      systems == {i \in DOMAIN lines : lines[i].mark = "Handle 0x01"}
      ends(i) == {j \in i + 1..Len(lines) : EndsRecord(lines[j])}
      end(i) == CHOOSE j \in ends(i) : \A k \in ends(i) : j <= k
      whole == SetToSortSeq({i \in begins : ends(i) # {}}, <)
      says(i, mark, none) ==
        LET at == {j \in i + 1..end(i) - 1 : lines[j].mark = mark}
        IN  IF at = {} THEN none ELSE lines[CHOOSE j \in at : \A k \in at : j >= k].value
      type(i) == IF says(i, "Type", Unset) = "<OUT OF SPEC>" THEN Unset ELSE says(i, "Type", Unset)
      module(i) == [loc |-> says(i, "Locator", "?"), size |-> says(i, "Size", "?"),
                    type |-> <<type(i), says(i, "Speed", Unset), says(i, "Form Factor", Unset)>>]
      answer == Memconf(lines)
      last == CHOOSE i \in systems : \A k \in systems : i >= k
      Old(line) == CASE line.mark = "Handle 0x01" -> <<Handle, [line EXCEPT !.mark = "DMI type 1"]>>
                     [] line.mark = "Handle 0x11" -> <<Handle, [line EXCEPT !.mark = "DMI type 17"]>>
                     [] OTHER -> <<line>>
  IN  /\ answer.exit = 1 <=> \A i \in systems : ends(i) = {}
      /\ answer.exit = 0 => answer.list = [k \in DOMAIN whole |-> module(whole[k])]
      /\ answer.exit = 0 /\ ends(last) # {} =>
           answer.sys.serial = says(last, "Serial Number", Unset)
      /\ answer.exit = 0 /\ (\A i \in DOMAIN lines : lines[i].mark # "blank") =>
           OldMemconf(FlattenSeq([i \in DOMAIN lines |-> Old(lines[i])])) =
             [sys |-> answer.sys, list |-> answer.list]
=============================================================================
