------------------------------- MODULE XpList -------------------------------
(* src/xplist: the list of the disks of some arrays, from the devices to the *)
(* table.  A host is a record of what the program meets there:               *)
(*   os, sysname, version, vmfs, disks, found, partitions, ioscan, names     *)
(*           what get_devs looks at (Devices)                                *)
(*   device  for each name the device (Scsi), with there (open succeeds),    *)
(*           vendor, product, serial, cu, ldev and port                      *)
(*   fds     how many devices can be open at once                            *)
(*   tools   the commands there are; multipath, links, readable, vgdisplay,  *)
(*           vxdisk, volumes, hbadevs: what they print (Multipath, Volumes)  *)
(*   strcmp  whether strcmp returns a "sign" or a "difference".              *)
EXTENDS Scsi, Volumes

CONSTANTS Ldevs,        \* what an unsigned char counts to: 256
          Order         \* the pieces of names, as strcmp orders them

-----------------------------------------------------------------------------
(* xp.c: what is supported; a product is a sequence of pieces, and any says  *)
(* that its first piece is enough ("OPEN-*").                                *)

Supported ==
  {[vendor |-> "HP", product |-> <<"OPEN-">>, any |-> TRUE],
   [vendor |-> "HP", product |-> <<"HSV">>, any |-> TRUE],
   [vendor |-> "HP", product |-> <<"P2000">>, any |-> TRUE],
   [vendor |-> "COMPAQ", product |-> <<"HSV">>, any |-> TRUE],
   [vendor |-> "COMPAQ", product |-> <<"MSA">>, any |-> TRUE],
   [vendor |-> "3PARdata", product |-> <<"VV">>, any |-> FALSE],
   [vendor |-> "NETAPP", product |-> <<"LUN C-Mode">>, any |-> FALSE]}
SupportedVendor(vendor) == \E sup \in Supported : sup.vendor = vendor
SupportedProduct(vendor, product) ==
  \E sup \in Supported : /\ sup.vendor = vendor
                         /\ product = sup.product \/ (sup.any /\ Is(product, sup.product[1]))

(* xplist_entry; size -1 is a capacity that could not be read.               *)
Entry(dev, name, inq, num) ==
  LET open == Is(dev.product, "OPEN-")
      c == XpCapacity(dev)
  IN  [dev |-> name, vol |-> NoVol, size |-> IF c.err THEN -1 ELSE c.size,
       lunid |-> XpLunid(dev), type |-> dev.product,
       serial |-> IF open THEN Field(dev, inq, dev.serial, 43, "") ELSE "",
       cu |-> IF open THEN Field(dev, inq, dev.cu, 45, 0) ELSE 0,
       ldev |-> IF open THEN Field(dev, inq, dev.ldev, 47, 0) ELSE num % Ldevs,
       port |-> IF open THEN Field(dev, inq, dev.port, 50, "CL") ELSE ""]

(* One round of get_xplist: a device that does not answer stays open.        *)
Probe(p, name, host) ==
  LET dev == host.device[name]
      inq == XpInquiry(dev)
  IN  IF ~dev.there \/ p.open >= host.fds THEN p
      ELSE IF inq.err THEN [p EXCEPT !.open = @ + 1]
      ELSE IF ~SupportedVendor(dev.vendor) \/ ~SupportedProduct(dev.vendor, dev.product) THEN p
      ELSE [p EXCEPT !.rows = Append(@, Entry(dev, name, inq, p.num)),
                     !.num = IF Is(dev.product, "OPEN-") THEN @ ELSE @ + 1]

GetDevs(host) ==
  CASE host.os = "linux" -> XpGetDevs(host)
    [] host.os = "hpux" -> XpHpuxDevs(host.ioscan)
    [] host.os = "win32" -> XpWin32Devs(host.names)
GetXplist(host) ==
  FoldLeft(LAMBDA p, name : Probe(p, name, host), [rows |-> <<>>, open |-> 0, num |-> 0],
           GetDevs(host)).rows

-----------------------------------------------------------------------------
(* list_sort with a comparison: an item that compares as 1 with a later one  *)
(* goes behind the first such item; nothing but 1 counts.                    *)
RECURSIVE SortFrom(_, _, _)
SortFrom(s, i, compare) ==
  LET later == {j \in i + 1..Len(s) : compare[s[i], s[j]] = 1}
  IN  IF i > Len(s) THEN s
      ELSE IF later = {} THEN SortFrom(s, i + 1, compare)
      ELSE LET j == FirstOf(later)
           IN  SortFrom(SubSeq(s, 1, i - 1) \o <<s[j]>> \o SubSeq(s, i, j - 1)
                          \o SubSeq(s, j + 1, Len(s)), i, compare)
ListSort(s, Compare(_, _)) ==
  LET order == SortFrom([i \in DOMAIN s |-> i], 1,
                        [i, j \in DOMAIN s |-> Compare(s[i], s[j])])
  IN  [k \in DOMAIN order |-> s[order[k]]]

Rank(name, i) ==
  IF i > Len(name) THEN 0 ELSE CHOOSE k \in DOMAIN Order : Order[k] = name[i]
Difference(a, b) ==
  LET differ == {i \in 1..Larger(Len(a), Len(b)) : Rank(a, i) # Rank(b, i)}
  IN  IF differ = {} THEN 0 ELSE Rank(a, FirstOf(differ)) - Rank(b, FirstOf(differ))
Signum(n) == IF n < 0 THEN -1 ELSE IF n > 0 THEN 1 ELSE 0
Strcmp(host, a, b) ==
  IF host.strcmp = "sign" THEN Signum(Difference(a, b)) ELSE Difference(a, b)

Compid(a, b) == Signum((a.cu * Ldevs + a.ldev) - (b.cu * Ldevs + b.ldev))
(* The result of strcmp as it is.                                            *)
Compdev(host, a, b) == Strcmp(host, a.dev, b.dev)

-----------------------------------------------------------------------------
(* remove_dups, as long as it does not follow the entry it deleted           *)
(* (RemoveDups has the list itself); wild says when it would.                *)

Without(rows, d) ==
  [rows |-> FoldLeft(LAMBDA left, i : IF i \in d.gone THEN left ELSE Append(left, rows[i]),
                     <<>>, [i \in DOMAIN rows |-> i]),
   wild |-> d.wild]

SameUnit(a, b) == a.cu = b.cu /\ a.ldev = b.ldev /\ a.serial = b.serial

RemoveDups(rows) ==
  LET Left(gone) == DOMAIN rows \ gone
      Step(d, i) ==
        LET twins == {j \in Left(d.gone) \ {i} : SameUnit(rows[i], rows[j])}
            victim == IF rows[i].vol # NoVol THEN FirstOf(twins) ELSE i
            after == {j \in Left(d.gone) : j > i}
        IN  IF i \in d.gone \/ twins = {} THEN d
            ELSE [gone |-> d.gone \cup {victim},
                  wild |-> d.wild \/ (after # {} /\ victim = FirstOf(after))]
  IN  Without(rows, FoldLeft(Step, [gone |-> {}, wild |-> FALSE], [i \in DOMAIN rows |-> i]))

-----------------------------------------------------------------------------
(* main: opts is the set of the options given.                               *)

(* get_path: 0 when one of the paths can be run.                             *)
GetPath(paths, host) == IF \E k \in DOMAIN paths : paths[k] \in host.tools THEN 0 ELSE 1
VgdisplayPaths == <<"/sbin/vgdisplay", "/usr/sbin/vgdisplay">>
VxdiskPaths == <<"/sbin/vxdisk", "/usr/sbin/vxdisk">>
EsxdevPaths == <<"/usr/sbin/esxcfg-vmhbadevs", "/usr/sbin/esxcfg-scsidevs">>

(* Volume names: of ESX, of the volume groups, of the disk groups.           *)
MapsOf(host) ==
  IF host.os = "linux" /\ "/sbin/multipath" \in host.tools
  THEN GetMp(host.multipath, host.links, host.readable) ELSE <<>>
NameEsx(rows, host) ==
  IF GetPath(EsxdevPaths, host) = 0 /\ host.vmfs
  THEN GetEsxvols(rows, host.volumes, host.hbadevs) ELSE rows
NameVgs(rows, host) ==
  IF GetPath(VgdisplayPaths, host) = 0
  THEN GetVgnames(rows, GetVginfo(host.vgdisplay, host.os, MapsOf(host))) ELSE rows
NameDgs(rows, host) ==
  IF GetPath(VxdiskPaths, host) = 0 THEN GetDgnames(rows, host.vxdisk) ELSE rows
NameVolumes(rows, host) ==
  NameDgs(IF host.os = "win32" THEN rows ELSE NameVgs(NameEsx(rows, host), host), host)

(* dump shows no volumes; the table numbers the naa disks of ESX.            *)
Columns(opts) ==
  <<"dev">> \o (IF "V" \in opts THEN <<"vol">> ELSE <<>>) \o <<"size">>
    \o (IF "l" \in opts THEN <<"lunid">> ELSE <<>>) \o <<"port", "cu", "ldev", "type", "serial">>
DumpColumns == <<"dev", "port", "cu", "ldev", "type", "size", "serial", "vol">>
Line(row, columns) == [k \in DOMAIN columns |-> row[columns[k]]]
Relabeled(rows) ==
  LET naa(k) == rows[k].dev # <<>> /\ Len(rows[k].dev) > 1 /\ rows[k].dev[1] = "/dev/disks/"
                  /\ rows[k].dev[2] = "naa"
  IN  [k \in DOMAIN rows |->
         IF naa(k)
         THEN [rows[k] EXCEPT !.dev = <<"Disk", Cardinality({m \in 1..k : naa(m)})>>]
         ELSE rows[k]]

NamedRows(rows, host, opts) ==
  IF "V" \in opts /\ "d" \notin opts THEN NameVolumes(rows, host) ELSE rows
KeptRows(rows, opts) == IF "a" \in opts THEN [rows |-> rows, wild |-> FALSE] ELSE RemoveDups(rows)
SortedRows(rows, host, opts) ==
  ListSort(rows, LAMBDA a, b : IF "n" \in opts THEN Compdev(host, a, b) ELSE Compid(a, b))

(* Seeded fault: duplicates are removed before the volumes are known.        *)
RowsNamedLate(host, opts) ==
  [KeptRows(GetXplist(host), opts) EXCEPT !.rows = SortedRows(NamedRows(@, host, opts), host, opts)]

Rows(host, opts) ==
  [KeptRows(NamedRows(GetXplist(host), host, opts), opts) EXCEPT !.rows = SortedRows(@, host, opts)]

Table(rows, opts) ==
  IF "d" \in opts THEN [k \in DOMAIN rows |-> Line(rows[k], DumpColumns)]
  ELSE LET table == Relabeled(rows) IN [k \in DOMAIN rows |-> Line(table[k], Columns(opts))]
XpMain(host, opts) ==
  IF "h" \in opts THEN [exit |-> 1, lines |-> <<>>]
  ELSE IF "v" \in opts THEN [exit |-> 0, lines |-> <<>>]
  ELSE [exit |-> 0, lines |-> Table(Rows(host, opts).rows, opts)]

-----------------------------------------------------------------------------
(* The units xplist can tell apart: those whose inquiry data have their      *)
(* numbers and, each by itself, those that have none.                        *)
Unit(host, name) ==
  LET dev == host.device[name]
  IN  IF Is(dev.product, "OPEN-") THEN <<dev.serial, dev.cu, dev.ldev>> ELSE name
Answers(host, name) == LET dev == host.device[name]
                       IN  /\ dev.there /\ ~XpInquiry(dev).err
                           /\ SupportedVendor(dev.vendor)
                           /\ SupportedProduct(dev.vendor, dev.product)
Numbered(host, name) == LET dev == host.device[name]
                        IN  Is(dev.product, "OPEN-") =>
                              Field(dev, XpInquiry(dev), TRUE, 47, FALSE)
Mute(host) == {name \in Range(GetDevs(host)) :
                 host.device[name].there /\ XpInquiry(host.device[name]).err}

(* The names that are opened: those before which fewer stay open than can.   *)
Reached(devs, stay, fds) ==
  {devs[k] : k \in {k \in DOMAIN devs : Cardinality({j \in 1..k - 1 : devs[j] \in stay}) < fds}}
SupportedDisks(host) ==
  {name \in Reached(GetDevs(host), Mute(host), host.fds) : Answers(host, name)}

DiskLines(host, rows, name) ==
  {k \in DOMAIN rows : Unit(host, rows[k].dev) = Unit(host, name)}
DisksAreListed(host, opts, names, rows, named) ==
  /\ {rows[k].dev : k \in DOMAIN rows} \subseteq names
  /\ \A name \in names :
       Cardinality(DiskLines(host, rows, name)) =
         IF "a" \in opts THEN Cardinality({m \in names : Unit(host, m) = Unit(host, name)}) ELSE 1
  /\ \A m \in DOMAIN named :
       named[m].vol # NoVol => \E k \in DiskLines(host, rows, named[m].dev) : rows[k].vol # NoVol
CanListDisks(host, names) ==
  /\ Cardinality({name \in names : ~Is(host.device[name].product, "OPEN-")}) <= Ldevs
  /\ \A name \in names : Numbered(host, name)

(* Every supported disk that answers is listed, each unit once unless -a is  *)
(* given, and if one of its paths has a volume so does its line; the mute    *)
(* devices stay open, and what comes when no descriptor is left is not       *)
(* listed.  This takes that the disks without a number are no more than an   *)
(* ldev tells apart, that the others' inquiry data have theirs, and that     *)
(* remove_dups does not follow an entry it deleted.                          *)
EveryDiskIsListed(host, opts) ==
  CanListDisks(host, SupportedDisks(host)) /\ ~Rows(host, opts).wild =>
    /\ DisksAreListed(host, opts, SupportedDisks(host), Rows(host, opts).rows,
                      NamedRows(GetXplist(host), host, opts))
    /\ Len(XpMain(host, opts).lines) = Len(Rows(host, opts).rows)

(* No line stands before one that it compares as 1 with: by cu:ldev that is  *)
(* in their order.  With -n (main.c:124 "sort devs by name") it is the order  *)
(* of the names where strcmp returns a sign; where it returns a difference   *)
(* (main.c:42 passes it on) only names a difference of 1 apart are in order. *)
InOrder(rows, host, opts) ==
  \A k \in DOMAIN rows : \A j \in 1..k - 1 :
    IF "n" \in opts THEN Compdev(host, rows[j], rows[k]) # 1
    ELSE Compid(rows[j], rows[k]) <= 0
LinesAreSorted(host, opts) == InOrder(Rows(host, opts).rows, host, opts)
=============================================================================
