------------------------------- MODULE VvInfo -------------------------------
(* src/vvinfo/vvinfo.c: what the 3PAR volumes of a host say of themselves on *)
(* the vendor's inquiry page.  A host and its devices are as in XpList; page *)
(* is what page 0xC0 of a device holds, its 64 bit numbers as two halves.    *)
EXTENDS XpList, Bitwise

CONSTANTS Summary,      \* the argument "-s"
          Half          \* what half of a 64 bit number counts to: 2^32

(* set_devdir and disp_all: the names that are tried.                        *)
IsVmware(host) == host.vmfs
Tried(host) ==
  IF IsVmware(host)
  THEN In("/vmfs/devices/disks/", SelectSeq(host.disks, LAMBDA p : Is(p, "naa") /\ ~Has(p, ":")))
  ELSE In("/dev/", SelectSeq(host.partitions, LAMBDA p : Is(p, "sd")))

(* _getquad: both halves end up in the same 32 bits, an int, and the sign of *)
(* that int in the other 32, which are printed without a sign.               *)
Quadout(q) ==
  LET int == q.hi | q.lo
  IN  IF int < Half \div 2 THEN int ELSE Half * Half - Half + int

(* What disp prints of a volume, the identity only if the page says it is    *)
(* valid (in a summary without asking).                                      *)
Report(name, dev, summary) ==
  [device |-> name, capacity |-> VvCapacity(dev).bytes, volume |-> dev.page.volume,
   id |-> IF summary \/ dev.page.valid THEN Quadout(dev.page.id) ELSE 0]

(* disp: only a whole report closes the device.                              *)
Disp(p, name, host, summary) ==
  LET dev == host.device[name]
  IN  IF ~dev.there \/ p.open >= host.fds THEN p
      ELSE IF VvInquiry(dev).err \/ dev.vendor # "3PARdata" \/ dev.product # <<"VV">>
              \/ VvCapacity(dev).err \/ GetInqPage(dev, "c0", 255).err
           THEN [p EXCEPT !.open = @ + 1]
      ELSE [open |-> IF summary THEN p.open + 1 ELSE p.open,
            shown |-> Append(p.shown, Report(name, dev, summary))]

DispAll(host, summary) ==
  FoldLeft(LAMBDA p, name : Disp(p, name, host, summary), [open |-> 0, shown |-> <<>>],
           Tried(host)).shown

(* main: -s is taken from argc, but not from argv.                           *)
VvMain(host, args) ==
  LET summary == args # <<>> /\ args[1] = Summary
      argc == Len(args) - IF summary THEN 1 ELSE 0
  IN  IF argc = 0 THEN DispAll(host, summary)
      ELSE IF summary THEN <<>>
      ELSE Disp([open |-> 0, shown |-> <<>>], args[1], host, FALSE).shown

-----------------------------------------------------------------------------
(* Every 3PAR volume is shown, and no other device, up to where the devices  *)
(* that stay open leave no descriptor: the other disks, and with -s the      *)
(* volumes too.  The identity, where it is shown, is the page's if it fits   *)
(* into 31 bits, and else only if all its bits are set.                      *)
EveryVolumeIsShown(host, summary) ==
  LET dev(name) == host.device[name]
      IsVolume(name) == /\ dev(name).there /\ ~VvInquiry(dev(name)).err
                        /\ dev(name).vendor = "3PARdata" /\ dev(name).product = <<"VV">>
                        /\ ~VvCapacity(dev(name)).err /\ ~GetInqPage(dev(name), "c0", 255).err
      stay == {name \in Range(Tried(host)) : dev(name).there /\ (~IsVolume(name) \/ summary)}
      Seen(name) == IsVolume(name) /\ name \in Reached(Tried(host), stay, host.fds)
      shown == VvMain(host, IF summary THEN <<Summary>> ELSE <<>>)
  IN  /\ [k \in DOMAIN shown |-> shown[k].device] = SelectSeq(Tried(host), Seen)
      /\ \A k \in DOMAIN shown :
           LET page == dev(shown[k].device).page
           IN  summary \/ page.valid =>
                 (shown[k].id = page.id.hi * Half + page.id.lo
                    <=> \/ page.id.hi = 0 /\ page.id.lo < Half \div 2
                        \/ page.id.hi = Half - 1 /\ page.id.lo = Half - 1)
=============================================================================
