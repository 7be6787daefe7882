------------------------------- MODULE LunInfo ------------------------------
(* src/luninfo: the successor of xplist, which knows any disk by its world   *)
(* wide name.  A host is as in XpList, with                                  *)
(*   entries what /dev/rdsk holds on Solaris, openmax the descriptors there  *)
(*   stack   what the local array of get_wwn holds when it is called: what   *)
(*           the call before "kept", or "other" bytes.                       *)
EXTENDS XpList

(* vfuncs and get_spec: of two products with functions of their own the one  *)
(* of 3PAR (vv.c:7) does nothing, its body is compiled out.                  *)
GetSpec(dev, inq) ==
  CASE dev.vendor = "HP" /\ dev.product = <<"OPEN-", "V">> ->
         [serial |-> Field(dev, inq, dev.serial, 43, ""), cu |-> Field(dev, inq, dev.cu, 45, 0),
          ldev |-> Field(dev, inq, dev.ldev, 47, 0), port |-> Field(dev, inq, dev.port, 50, "CL")]
    [] OTHER -> [serial |-> "", cu |-> 0, ldev |-> 0, port |-> ""]

(* A disk of ESX without a name is called like its file.                     *)
NameOf(name, wwn) ==
  IF wwn = <<>> /\ name[1] \in {"/dev/disks/", "/vmfs/devices/disks/"} THEN Tail(name) ELSE wwn

InfoOf(dev, name, inq, wwn) ==
  [dev |-> name, vol |-> NoVol, size |-> LunCapacity(dev).size, lunid |-> LunLunid(dev),
   vendor |-> dev.vendor, product |-> dev.product, wwn |-> NameOf(name, wwn),
   spec |-> GetSpec(dev, inq)]

(* One round of get_info: without inquiry data, without a capacity or with   *)
(* less than a megabyte the device is passed over, and stays open.           *)
LunProbe(p, name, host, wwn_type) ==
  LET dev == host.device[name]
      inq == LunInquiry(dev)
      c == LunCapacity(dev)
      wwn == GetWwn(dev, wwn_type, p.stack)
  IN  IF ~dev.there \/ p.open >= host.fds THEN p
      ELSE IF inq.err \/ c.err \/ c.size = 0 THEN [p EXCEPT !.open = @ + 1]
      ELSE [p EXCEPT !.rows = Append(@, InfoOf(dev, name, inq, wwn.name)),
                     !.stack = IF host.stack = "kept" THEN wwn.buf ELSE @]

LunDevs(host) ==
  CASE host.os = "linux" -> LunGetDevs(host)
    [] host.os = "hpux" -> LunHpuxDevs(host.ioscan)
    [] host.os = "solaris" -> SolarisDevs(host.entries, host.found)
    [] host.os = "win32" -> LunWin32Devs(host.names)

LunCompdev(a, b) == Signum(Difference(a.dev, b.dev))
LunCompvol(a, b) == Signum(Difference(<<a.vol>>, <<b.vol>>))

(* remove_dups of luninfo: every later twin is compared with the entry, be   *)
(* it deleted or not; of two that both or neither have a volume the first    *)
(* goes (RemoveDups has the list itself).                                    *)
GoneAfter(rows, i, gone) ==
  LET Victim(j) == IF rows[i].vol # NoVol /\ rows[j].vol = NoVol THEN j ELSE i
      Inner(g, j) == IF j = i \/ j \in g \/ rows[j].wwn = <<>> \/ rows[j].wwn # rows[i].wwn THEN g
                     ELSE g \cup {Victim(j)}
  IN  FoldLeft(Inner, gone, [j \in DOMAIN rows |-> j])
LunRemoveDups(rows) ==
  LET Outer(d, i) ==
        LET gone == GoneAfter(rows, i, d.gone)
            after == {j \in DOMAIN rows \ d.gone : j > i}
        IN  IF i \in d.gone \/ rows[i].wwn = <<>> THEN d
            ELSE [gone |-> gone,
                  wild |-> d.wild \/ (after # {} /\ FirstOf(after) \in gone)]
  IN  Without(rows, FoldLeft(Outer, [gone |-> {}, wild |-> FALSE], [i \in DOMAIN rows |-> i]))

LunMapsOf(host) ==
  IF host.os = "linux" /\ "/sbin/multipath" \in host.tools
  THEN LunGetMp(host.multipath, host.links, host.readable) ELSE <<>>
LunNameEsx(rows, host) ==
  IF GetPath(EsxdevPaths, host) = 0 /\ host.vmfs
  THEN LunGetEsxvols(rows, host.volumes, host.hbadevs) ELSE rows
LunNameVgs(rows, host) ==
  IF host.os \in {"linux", "hpux"} /\ GetPath(VgdisplayPaths, host) = 0
  THEN LunGetVgnames(rows, LunGetVginfo(host.vgdisplay, host.os, LunMapsOf(host))) ELSE rows
LunVxdiskPaths(host) == IF host.os = "win32" THEN <<"vxdisk.exe">> ELSE VxdiskPaths
LunNameDgs(rows, host) ==
  IF GetPath(LunVxdiskPaths(host), host) = 0 THEN LunGetDgnames(rows, host.vxdisk) ELSE rows
LunNameVolumes(rows, host) ==
  LunNameDgs(IF host.os = "win32" THEN LunGetWin32vols(rows)
             ELSE LunNameVgs(LunNameEsx(rows, host), host), host)

(* get_info: sorted by volume when there are volumes and -N is not given.    *)
WithVolumes(opts) == "V" \in opts /\ "d" \notin opts
LunFoundRows(host, opts) ==
  FoldLeft(LAMBDA p, name : LunProbe(p, name, host, "t" \in opts),
           [rows |-> <<>>, open |-> 0, stack |-> Junk], LunDevs(host)).rows
LunNamedRows(rows, host, opts) == IF WithVolumes(opts) THEN LunNameVolumes(rows, host) ELSE rows
LunSortedRows(rows, opts) ==
  LET Compare(a, b) == IF WithVolumes(opts) /\ "N" \notin opts THEN LunCompvol(a, b)
                       ELSE LunCompdev(a, b)
  IN  ListSort(rows, Compare)
LunKeptRows(rows, opts) ==
  IF "a" \in opts THEN [rows |-> rows, wild |-> FALSE] ELSE LunRemoveDups(rows)
GetInfo(host, opts) ==
  LunKeptRows(LunSortedRows(LunNamedRows(LunFoundRows(host, opts), host, opts), opts), opts)

(* main: a label for each device that is not a disk of ESX, and the columns  *)
(* the options ask for.                                                      *)
Label(row) ==
  IF row.dev[1] \in {"/dev/disks/", "/vmfs/devices/disks/"} THEN <<>> ELSE row.dev
LunColumns(rows, opts) ==
  LET If(c, column) == IF c THEN <<column>> ELSE <<>>
      labels == "o" \notin opts /\ \E k \in DOMAIN rows : Label(rows[k]) # <<>>
  IN  IF "d" \in opts
      THEN <<"dev", "size", "wwn", "port", "cu", "ldev", "product", "serial", "vol">>
      ELSE IF "c" \in opts
      THEN <<"label", "vol", "size", "lunid", "vendor", "product", "wwn", "spec">>
      ELSE If(labels, "label") \o If("V" \in opts, "vol") \o <<"size">> \o If("l" \in opts, "lunid")
             \o <<"vendor", "product", "wwn">> \o If("s" \in opts, "spec")
Cell(row, column) ==
  CASE column = "label" -> Label(row)
    [] column \in DOMAIN row.spec -> row.spec[column]
    [] OTHER -> row[column]
LunTable(rows, columns) ==
  [k \in DOMAIN rows |-> [c \in DOMAIN columns |-> Cell(rows[k], columns[c])]]
LunLines(rows, opts) == LunTable(rows, LunColumns(rows, opts))
LunMain(host, opts) ==
  IF "h" \in opts THEN [exit |-> 1, lines |-> <<>>]
  ELSE IF "v" \in opts THEN [exit |-> 0, lines |-> <<>>]
  ELSE [exit |-> 0, lines |-> LunLines(GetInfo(host, opts).rows, opts)]

-----------------------------------------------------------------------------
(* What tells units apart is the last descriptor of the unit.                *)
LastId(ids) == IF ids = <<>> THEN <<>> ELSE ids[Len(ids)]
UnitId(host, name) ==
  LastId(SelectSeq(host.device[name].ids, LAMBDA d : OfTheUnit(d) /\ d.id # <<>>))
Told(host, name, wwn_type) ==
  LET dev == host.device[name]
      id == UnitId(host, name)
  IN  /\ "vpd" \in dev.sg \/ dev.send
      /\ id # <<>> /\ id.code = 1 /\ ~Overruns(dev, wwn_type)
Sized(dev) ==
  dev.there /\ ~LunInquiry(dev).err /\ ~LunCapacity(dev).err /\ LunCapacity(dev).size > 0
PassedOver(host) ==
  {name \in Range(LunDevs(host)) : host.device[name].there /\ ~Sized(host.device[name])}
SizedUnits(host) ==
  {name \in Reached(LunDevs(host), PassedOver(host), host.fds) : Sized(host.device[name])}

UnitLines(host, rows, name) == {k \in DOMAIN rows : UnitId(host, rows[k].dev) = UnitId(host, name)}
UnitsAreListed(host, opts, names, rows, all) ==
  /\ {rows[k].dev : k \in DOMAIN rows} \subseteq names
  /\ \A name \in names :
       Cardinality(UnitLines(host, rows, name)) =
         IF "a" \in opts THEN Cardinality({m \in names : UnitId(host, m) = UnitId(host, name)})
         ELSE 1
  /\ \A m \in DOMAIN all :
       all[m].vol # NoVol => \E k \in UnitLines(host, rows, all[m].dev) : rows[k].vol # NoVol

(* Every disk that answers and has a size is listed, each unit once unless   *)
(* -a is given, and with a volume if one of its paths has one; what tells    *)
(* units apart is the last descriptor of the unit, which has to be there, to *)
(* be binary and to have room in the array of get_wwn, and remove_dups may   *)
(* not follow an entry it deleted.  The devices passed over stay open: what  *)
(* comes when no descriptor is left is not listed.                           *)
EveryUnitIsListed(host, opts) ==
  /\ \A name \in SizedUnits(host) : Told(host, name, "t" \in opts)
  /\ ~GetInfo(host, opts).wild
  => /\ UnitsAreListed(host, opts, SizedUnits(host), GetInfo(host, opts).rows,
                       LunNamedRows(LunFoundRows(host, opts), host, opts))
     /\ Len(LunMain(host, opts).lines) = Len(GetInfo(host, opts).rows)

(* Lines are in the order of the volumes when they are shown and -N is not   *)
(* given, in that of the devices otherwise.                                  *)
LunInOrder(rows, opts) ==
  \A k \in 1..Len(rows) - 1 :
    IF WithVolumes(opts) /\ "N" \notin opts THEN LunCompvol(rows[k], rows[k + 1]) <= 0
    ELSE LunCompdev(rows[k], rows[k + 1]) <= 0
UnitsAreSorted(host, opts) == LunInOrder(GetInfo(host, opts).rows, opts)
=============================================================================
