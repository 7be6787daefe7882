----------------------------- MODULE Multipath ------------------------------
(* The multipath maps of xplist and luninfo: get_mp reads what               *)
(* "multipath -l" prints (src/xplist/linux.c, src/luninfo/linux.c), is_mp    *)
(* and get_mp_devs look maps up (src/xplist/common.c, src/luninfo/utils.c).  *)
(* A line is its words, each a name (Devices), and whether it has both       *)
(* parentheses or a colon; links are the links of /dev/mpath, what they lead *)
(* to without its "../"; readable are the devices access grants.             *)
EXTENDS Naturals, Sequences, SequencesExt

Word(line, n) == IF n \in DOMAIN line.words THEN line.words[n] ELSE <<>>
Blank(line) == line.words = <<>>
Dev(name) == <<"/dev/">> \o name

NewDev == [name |-> <<>>, alt_name |-> <<>>, devs |-> <<>>]
Reading == [mpdevs |-> <<>>, newdev |-> NewDev, start |-> FALSE]

(* The first line of a map names it by its third word, or by the link of its *)
(* first; without either it has no name.                                     *)
Named(newdev, line, links) ==
  LET third == Word(line, 3)
  IN  IF third # <<>> /\ third[1] = "dm-"
      THEN [newdev EXCEPT !.name = Dev(third), !.alt_name = <<"/dev/mapper/">> \o Word(line, 1)]
      ELSE IF Word(line, 1) \in DOMAIN links
      THEN [newdev EXCEPT !.name = Dev(links[Word(line, 1)])]
      ELSE newdev

IsPath(line, readable) == line.colon /\ Word(line, 3) # <<>> /\ Dev(Word(line, 3)) \in readable

(* Seeded fault: the list of the map that ends goes on as the next one's.    *)
EndKeepingPaths(r) ==
  [mpdevs |-> IF r.start THEN Append(r.mpdevs, r.newdev) ELSE r.mpdevs,
   newdev |-> [r.newdev EXCEPT !.name = <<>>, !.alt_name = <<>>], start |-> FALSE]

End(r) == [mpdevs |-> IF r.start THEN Append(r.mpdevs, r.newdev) ELSE r.mpdevs,
           newdev |-> IF r.start THEN NewDev ELSE r.newdev, start |-> FALSE]

MpLine(r, line, links, readable) ==
  LET ended == IF Blank(line) \/ line.paren THEN End(r) ELSE r
  IN  IF Blank(line) THEN ended
      ELSE IF ~ended.start
      THEN [ended EXCEPT !.newdev = Named(@, line, links), !.start = TRUE]
      ELSE IF IsPath(line, readable)
      THEN [ended EXCEPT !.newdev.devs = Append(@, Dev(Word(line, 3)))]
      ELSE ended

(* At the end of the output a map is kept if it has a name.                  *)
GetMp(lines, links, readable) ==
  LET r == FoldLeft(LAMBDA s, line : MpLine(s, line, links, readable), Reading, lines)
  IN  IF r.newdev.name # <<>> THEN Append(r.mpdevs, r.newdev) ELSE r.mpdevs
LunGetMp(lines, links, readable) == GetMp(lines, links, readable)

(* is_mp and get_mp_devs: the paths of the last map of that name.            *)
Matches(mpdevs, mp_name) ==
  {k \in DOMAIN mpdevs : mp_name \in {mpdevs[k].name, mpdevs[k].alt_name}}
IsMp(mpdevs, mp_name) == Matches(mpdevs, mp_name) # {}
LunIsMp(mpdevs, mp_name) == IsMp(mpdevs, mp_name)
GetMpDevs(mpdevs, mp_name) ==
  LET found == Matches(mpdevs, mp_name)
  IN  IF found = {} THEN <<>>
      ELSE mpdevs[CHOOSE k \in found : \A m \in found : k >= m].devs
GetMpDevsFromName(mpdevs, mp_name) == GetMpDevs(mpdevs, mp_name)

-----------------------------------------------------------------------------
(* Each path is in the map it is printed under: a map begins with a line     *)
(* with parentheses, or with the first line or the first behind a blank one, *)
(* and goes on to the next such line or blank.  The last one, which nothing  *)
(* ends, counts too, unless it has no name.                                  *)
PathsAreInTheirMap(lines, links, readable) ==
  LET Begins(i) == ~Blank(lines[i]) /\ (lines[i].paren \/ i = 1 \/ Blank(lines[i - 1]))
      heads == {i \in DOMAIN lines : Begins(i)}
      Under(h, j) == \A k \in h + 1..j : ~Blank(lines[k]) /\ ~Begins(k)
      body(h) == {j \in h + 1..Len(lines) : Under(h, j) /\ IsPath(lines[j], readable)}
      map(h) == LET order == SetToSortSeq(body(h), <)
                IN  [Named(NewDev, lines[h], links) EXCEPT
                       !.devs = [k \in DOMAIN order |-> Dev(Word(lines[order[k]], 3))]]
      Lost(h) == Under(h, Len(lines)) /\ map(h).name = <<>>
      order == SetToSortSeq({h \in heads : ~Lost(h)}, <)
  IN  GetMp(lines, links, readable) = [k \in DOMAIN order |-> map(order[k])]
=============================================================================
