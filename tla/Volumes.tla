------------------------------ MODULE Volumes -------------------------------
(* Where the column "Volume" comes from: get_vginfo and get_vgnames (vg.c),  *)
(* get_dgnames (dg.c) and get_esxvols (esx.c) of src/xplist and src/luninfo. *)
(* rows are the entries of the list of disks, of which these functions read  *)
(* dev and set vol; NoVol is the empty string.                               *)
EXTENDS Multipath, Devices

NoVol == "none"

FirstOf(S) == CHOOSE k \in S : \A m \in S : k <= m
LastOf(S) == CHOOSE k \in S : \A m \in S : k >= m

-----------------------------------------------------------------------------
(* vgdisplay -v.  A line is its mark (what it begins with), the name or the  *)
(* numbers n and m that the code picks from its words, and the unit of n.    *)

(* v2b: megabytes; a unit it does not know counts bytes.                     *)
V2b(n, unit) ==
  CASE unit = "TB" -> n * 1048576 [] unit = "GB" -> n * 1024 [] unit = "MB" -> n
    [] unit = "KB" -> n \div 1024 [] OTHER -> n \div 1048576
Getsize(line) == V2b(line.n, line.unit)
HpuxGetsize(line) == V2b(line.n, "MB")

NewPe == [size |-> 0, total |-> 0, alloc |-> 0, free |-> 0]
NewVg == [name |-> NoVol, size |-> 0, pe |-> NewPe, pv |-> <<>>, lv |-> <<>>]
NewPv == [name |-> <<"?">>, total |-> 0, free |-> 0, size |-> 0]
NewLv == [name |-> <<"?">>, size |-> 0]
Parsing == [vgs |-> <<>>, vg |-> NewVg, pv |-> NewPv, lv |-> NewLv, state |-> "NONE",
            have_vg |-> FALSE]

Finish(p) ==
  IF p.have_vg THEN Append(p.vgs, [p.vg EXCEPT !.size = p.vg.pe.total * p.vg.pe.size]) ELSE p.vgs

VgLine(p, line, os) ==
  LET pe == p.vg.pe
      size == IF os = "hpux" THEN HpuxGetsize(line) ELSE Getsize(line)
  IN  CASE line.mark = "VG Name" -> [p EXCEPT !.vg.name = line.name]
        [] line.mark = "PE Size" -> [p EXCEPT !.vg.pe = [pe EXCEPT !.size = size]]
        [] line.mark = "Total PE" -> [p EXCEPT !.vg.pe = [pe EXCEPT !.total = line.n]]
        [] line.mark = "Alloc PE" -> [p EXCEPT !.vg.pe = [pe EXCEPT !.alloc = line.n]]
        [] line.mark = "Free PE" -> [p EXCEPT !.vg.pe = [pe EXCEPT !.free = line.n]]
        [] OTHER -> p

LvLine(p, line, os) ==
  LET size == IF os = "hpux" THEN HpuxGetsize(line) ELSE Getsize(line)
  IN  CASE line.mark = "LV Name" -> [p EXCEPT !.lv = [NewLv EXCEPT !.name = line.name]]
        [] line.mark = "LV Size" ->
             LET lv == [p.lv EXCEPT !.size = size]
             IN  [p EXCEPT !.lv = lv, !.vg.lv = Append(@, lv)]
        [] OTHER -> p

(* Seeded fault: a partition's last digit stays.                             *)
PartitionItself(name) == name

(* Not a map: the disk is the partition without its last digit, if it ends   *)
(* in one and has no "-".                                                    *)
DiskOfPartition(name) ==
  IF EndsInDigit(name) /\ ~Has(name, "-") THEN SubSeq(name, 1, Len(name) - 1) ELSE name

(* A physical volume counts once for each path if it is a map.               *)
AddPv(p, mpdevs, pv) ==
  LET names == IF IsMp(mpdevs, pv.name) THEN GetMpDevs(mpdevs, pv.name)
               ELSE <<DiskOfPartition(pv.name)>>
  IN  [p EXCEPT !.pv = [pv EXCEPT !.name = IF names = <<>> THEN @ ELSE names[Len(names)]],
                !.vg.pv = @ \o [k \in DOMAIN names |-> [pv EXCEPT !.name = names[k]]]]

PvLine(p, line, os, mpdevs) ==
  LET pv == p.pv
  IN  CASE line.mark = "PV Name" -> [p EXCEPT !.pv = [NewPv EXCEPT !.name = line.name]]
        [] line.mark = "Total PE" /\ os = "linux" ->
             AddPv(p, mpdevs, [pv EXCEPT !.total = line.n, !.free = line.m,
                                         !.size = line.n * p.vg.pe.size])
        [] line.mark = "Total PE" /\ os = "hpux" -> [p EXCEPT !.pv = [pv EXCEPT !.total = line.n]]
        [] line.mark = "Free PE" /\ os = "hpux" ->
             LET full == [pv EXCEPT !.free = line.n, !.size = pv.total * p.vg.pe.size]
             IN  [p EXCEPT !.pv = full, !.vg.pv = Append(@, full)]
        [] OTHER -> p

(* A mark of a logical or physical volume counts inside of a volume group.   *)
NextState(p, line) ==
  CASE line.mark = "VGSTART" -> "IN_VG"
    [] line.mark = "LVSTART" /\ p.have_vg -> "IN_LV"
    [] line.mark = "PVSTART" /\ p.have_vg -> "IN_PV"
    [] OTHER -> p.state

VgInfoLine(p, line, os, mpdevs) ==
  LET begun == IF line.mark = "VGSTART"
               THEN [p EXCEPT !.vgs = Finish(p), !.vg = NewVg, !.have_vg = TRUE] ELSE p
      q == [begun EXCEPT !.state = NextState(p, line)]
  IN  CASE q.state = "IN_VG" -> VgLine(q, line, os)
        [] q.state = "IN_LV" -> LvLine(q, line, os)
        [] q.state = "IN_PV" -> PvLine(q, line, os, mpdevs)
        [] OTHER -> q

GetVginfo(lines, os, mpdevs) ==
  Finish(FoldLeft(LAMBDA p, line : VgInfoLine(p, line, os, mpdevs), Parsing, lines))
LunGetVginfo(lines, os, mpdevs) == GetVginfo(lines, os, mpdevs)

(* get_vgnames: the first group that has the disk.                           *)
GetVgnames(rows, vgs) ==
  LET having(dev) == {g \in DOMAIN vgs : \E k \in DOMAIN vgs[g].pv : vgs[g].pv[k].name = dev}
  IN  [k \in DOMAIN rows |-> IF having(rows[k].dev) = {} THEN rows[k]
                             ELSE [rows[k] EXCEPT !.vol = vgs[FirstOf(having(rows[k].dev))].name]]
LunGetVgnames(rows, vgs) == GetVgnames(rows, vgs)

-----------------------------------------------------------------------------
(* vxdisk list, its heading included: the disk (rdsk/ of HP-UX is part of    *)
(* the directory) and its group; "-" is no group, and takes away what        *)
(* get_vgnames found.                                                        *)
GetDgnames(rows, lines) ==
  LET having(dev) == {g \in DOMAIN lines : Dev(lines[g].disk) = dev}
      Group(line) == IF line.group = "-" THEN NoVol ELSE line.group
  IN  [k \in DOMAIN rows |-> IF having(rows[k].dev) = {} THEN rows[k]
                             ELSE [rows[k] EXCEPT !.vol = Group(lines[FirstOf(having(rows[k].dev))])]]
LunGetDgnames(rows, lines) == GetDgnames(rows, lines)

-----------------------------------------------------------------------------
(* ESX: the links of /vmfs/volumes give each volume's uid, the lines of      *)
(* esxcfg-vmhbadevs -m the device of a uid.                                  *)

(* xplist: a partition of a naa disk loses ":" and digit, any other device   *)
(* everything from its first digit on; luninfo: ":" and what follows it.     *)
VmDisk(dev) == IF Is(dev, "/vmfs/devices/disks/") THEN <<"/dev/disks/">> \o Tail(dev) ELSE dev
WithoutPart(dev) ==
  IF Len(dev) > 2 /\ dev[Len(dev) - 1] = ":" THEN SubSeq(dev, 1, Len(dev) - 2) ELSE dev
XpEsxDisk(name) ==
  LET dev == VmDisk(name)
      digits == {i \in DOMAIN dev : dev[i] \in Digit}
  IN  IF Has(dev, "naa") THEN IF EndsInDigit(dev) THEN WithoutPart(dev) ELSE dev
      ELSE IF digits = {} THEN dev ELSE SubSeq(dev, 1, FirstOf(digits) - 1)
LunEsxDisk(name) == WithoutPart(VmDisk(name))

(* Each line names the first row of its disk after the first volume of its   *)
(* uid.                                                                      *)
NameRow(Disk(_), rows, vols, line) ==
  LET of == {v \in DOMAIN vols : vols[v].uid = line.uid}
      at == {k \in DOMAIN rows : rows[k].dev = Disk(line.dev)}
  IN  IF of = {} \/ at = {} THEN rows
      ELSE [rows EXCEPT ![FirstOf(at)] = [@ EXCEPT !.vol = vols[FirstOf(of)].vol]]
GetEsxvols(rows, vols, lines) ==
  FoldLeft(LAMBDA r, line : NameRow(XpEsxDisk, r, vols, line), rows, lines)
LunGetEsxvols(rows, vols, lines) ==
  FoldLeft(LAMBDA r, line : NameRow(LunEsxDisk, r, vols, line), rows, lines)
LunGetWin32vols(rows) == rows

-----------------------------------------------------------------------------
(* Where a line stands in what vgdisplay prints: in the group that the last  *)
(* VGSTART begins, in the section that the last mark of a section begins.    *)
GroupStarts(lines, i) == {k \in 1..i : lines[k].mark = "VGSTART"}
Heads == {"VGSTART", "LVSTART", "PVSTART"}
SectionStarts(lines, i) ==
  {k \in 1..i : lines[k].mark \in Heads /\ GroupStarts(lines, k) # {}}
InSection(lines, i, mark) ==
  SectionStarts(lines, i) # {} /\ lines[LastOf(SectionStarts(lines, i))].mark = mark

(* The lines up to i that name its group, and those that name a volume.      *)
Titles(lines, i) ==
  {k \in LastOf(GroupStarts(lines, i))..i : InSection(lines, k, "VGSTART") /\ lines[k].mark = "VG Name"}
GroupName(lines, i) ==
  IF Titles(lines, i) = {} THEN NoVol ELSE lines[LastOf(Titles(lines, i))].name
PvNames(lines, i) == {k \in 1..i : InSection(lines, k, "PVSTART") /\ lines[k].mark = "PV Name"}

(* The lines that complete a physical volume: on Linux with its extents in   *)
(* total, on HP-UX with the free ones.                                       *)
Completes(line, os) == line.mark = IF os = "linux" THEN "Total PE" ELSE "Free PE"
Completions(lines, os) == {i \in DOMAIN lines : InSection(lines, i, "PVSTART") /\ Completes(lines[i], os)}

(* The disks of a physical volume: itself, on Linux the disk of a partition  *)
(* and the paths of a map.                                                   *)
DisksOf(name, os, mpdevs) ==
  IF os = "hpux" THEN {name}
  ELSE IF IsMp(mpdevs, name) THEN Range(GetMpDevs(mpdevs, name))
  ELSE {IF EndsInDigit(name) /\ ~Has(name, "-") THEN Front(name) ELSE name}
DisksAt(lines, i, os, mpdevs) == DisksOf(lines[LastOf(PvNames(lines, i))].name, os, mpdevs)

(* Every path shows its volume group: a disk's volume is the group of the    *)
(* first physical volume that vgdisplay completes and that is on the disk,   *)
(* whatever else it prints, if it names each before it completes it and      *)
(* completes none twice.                                                     *)
PathsShowVolumes(lines, os, mpdevs, rows) ==
  LET done == Completions(lines, os)
      Named1(i) == LastOf(PvNames(lines, i))
      Once1(i) == Cardinality({d \in done : Named1(d) = Named1(i)}) <= 1
      of(dev) == {i \in done : dev \in DisksAt(lines, i, os, mpdevs)}
      named == GetVgnames(rows, GetVginfo(lines, os, mpdevs))
  IN  (\A i \in done : PvNames(lines, i) # {} /\ Once1(i)) =>
        \A k \in DOMAIN rows :
          named[k] = IF of(rows[k].dev) = {} THEN rows[k]
                     ELSE [rows[k] EXCEPT !.vol = GroupName(lines, FirstOf(of(rows[k].dev)))]
=============================================================================
