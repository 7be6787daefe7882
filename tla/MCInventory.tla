----------------------------- MODULE MCInventory ----------------------------
(* xplist, luninfo, vvinfo and memconf on every host that MaxLen symbols     *)
(* describe: what their commands print, and which disks there are.  Each     *)
(* property reads the input of Inputs in its own alphabet.                   *)
EXTENDS MCText, SequencesExt

CONSTANTS MaxDisks,     \* disks of a host
          MB,           \* bytes of a megabyte
          Lunids,       \* entries of a REPORT LUNS answer
          WwnLen,       \* size of the buffer of get_wwn
          Ldevs,        \* numbers an ldev can have
          Half          \* what half of a 64 bit number counts to

Order == <<"none", "/dev/", "/dev/disks/", "Disk", "naa", "sd", "a", "b", "c", "d", "e", "dga", "vga",
           "vgb", "vola">>
Summary == <<"-s">>

Me == INSTANCE MemConf
Xp == INSTANCE XpList
Lu == INSTANCE LunInfo
Vv == INSTANCE VvInfo

-----------------------------------------------------------------------------
(* The lines and words of /proc/partitions, ioscan, multipath and dmidecode. *)
Words == <<<<"sd", "a">>, <<"sd", "a", "1">>, <<"psd", "1">>, <<"name">>, <<"nvme", "0">>, <<>>>>

Ioscan(rom, rdsk) == [blank |-> FALSE, rom |-> rom, rdsk |-> rdsk]
Files == <<<<Ioscan(FALSE, <<>>), Ioscan(FALSE, <<"/dev/rdsk/", "c0", "d", "0">>)>>,
           <<Ioscan(FALSE, <<>>), Ioscan(FALSE, <<"/dev/rdsk/", "c0", "s", "2">>)>>,
           <<Ioscan(TRUE, <<>>), Ioscan(FALSE, <<"/dev/rdsk/", "c1", "d", "0">>)>>,
           <<[blank |-> TRUE, rom |-> FALSE, rdsk |-> <<>>]>>, <<Ioscan(FALSE, <<>>)>>,
           <<Ioscan(FALSE, <<"/dev/rdsk/", "c2", "d", "0">>)>>>>

Mp(words, paren, colon) == [words |-> words, paren |-> paren, colon |-> colon]
MpLines == <<Mp(<<>>, FALSE, FALSE),
             Mp(<<<<"mpath", "a">>, <<"wwid">>, <<"dm-", "0">>>>, TRUE, FALSE),
             Mp(<<<<"mpath", "b">>, <<"wwid">>>>, TRUE, FALSE),
             Mp(<<<<"wwid2">>, <<"dm-", "1">>, <<"HP">>>>, FALSE, FALSE),
             Mp(<<<<"bs">>, <<"0:0:0">>, <<"sd", "a">>>>, FALSE, TRUE),
             Mp(<<<<"bs">>, <<"0:0:1">>, <<"sd", "z">>>>, FALSE, TRUE)>>
Links == [p \in {<<"mpath", "b">>} |-> <<"dm-", "2">>]

Dmi(mark, value) == [mark |-> mark, value |-> value]
DmiLines == <<Dmi("Handle 0x01", ""), Dmi("Handle 0x11", ""), Dmi("blank", ""),
              Dmi("Size", "1024"), Dmi("Speed", "667"), Dmi("Serial Number", "sn")>>

(* Whole disks, paths under their map, modules of their own: no record is    *)
(* lost, split or mixed with another.                                        *)
RecordsAreRead ==
  /\ Xp!DisksAreWhole(Spell(Words), Xp!FlattenSeq(Spell(Files)))
  /\ Xp!PathsAreInTheirMap(Spell(MpLines), Links, {<<"/dev/", "sd", "a">>})
  /\ Me!ModulesAreTheirOwn(Spell(DmiLines))

-----------------------------------------------------------------------------
(* What one disk answers.                                                    *)
Commands == {"inq", "vpd", "luns", "cap16", "cap10", "c0"}
Desc(assoc, type, code, id) == [assoc |-> assoc, type |-> type, code |-> code, id |-> id]
Descs == <<Desc(0, "3", 1, <<"a">>), Desc(0, "1", 2, <<"h", "p">>), Desc(1, "3", 1, <<"b">>),
           Desc(0, "4", 1, <<"c">>), Desc(0, "3", 1, <<"b", "a">>), Desc(0, "1", 2, <<" ", "x">>)>>
Disk(sg, send, lba) ==
  [sg |-> sg, send |-> send, add |-> 51, lba |-> lba, len |-> 2, luns |-> <<1>>, ids |-> Spell(Descs)]
SumOf(s) == Xp!FoldLeft(LAMBDA n, c : n + c, 0, s)

(* Sizes and names of disks are what the disks answer.                       *)
AnswersAreRead ==
  \A sg \in {Commands, {"cap10"}, {}}, send \in BOOLEAN :
    /\ Xp!SizeIsWithinOne(Disk(sg, send, SumOf(input)))
    /\ \A wwn_type \in BOOLEAN : Xp!WwnNamesTheUnit(Disk(sg, send, 0), wwn_type)

-----------------------------------------------------------------------------
(* Hosts with up to MaxDisks disks, of six kinds.                            *)
Device(vendor, product, ids) ==
  [there |-> TRUE, vendor |-> vendor, product |-> product, sg |-> Commands, send |-> FALSE,
   add |-> 51, lba |-> 9, len |-> 2, luns |-> <<0, 1, 2>>, ids |-> ids,
   serial |-> "7", cu |-> 0, ldev |-> 0, port |-> "CL1A",
   page |-> [volume |-> "v", valid |-> TRUE, id |-> [hi |-> 0, lo |-> 3]]]
Kinds ==
  <<Device("HP", <<"OPEN-", "V">>, <<Desc(0, "3", 1, <<"a">>), Desc(1, "3", 1, <<"p">>)>>),
    [Device("HP", <<"OPEN-", "V">>, <<Desc(0, "1", 2, <<"h">>), Desc(0, "3", 1, <<"b">>)>>)
       EXCEPT !.ldev = 1, !.sg = {"c0"}, !.send = TRUE],
    [Device("3PARdata", <<"VV">>, <<Desc(0, "3", 1, <<"c">>)>>)
       EXCEPT !.sg = Commands \ {"cap16"}],
    [Device("HP", <<"HSV">>, <<Desc(0, "3", 1, <<"d">>)>>) EXCEPT !.sg = {"vpd"}],
    Device("ATA", <<"disk">>, <<Desc(0, "1", 2, <<"t">>)>>),
    [Device("COMPAQ", <<"HSV", "2">>, <<Desc(0, "3", 1, <<"e">>)>>) EXCEPT !.sg = {"inq", "vpd"}]>>

Letters == <<"a", "b", "c", "d", "e">>
Disks == [k \in DOMAIN input |-> <<"sd", Letters[k]>>]
NaaDisks == [k \in DOMAIN input |-> <<"naa", Letters[k]>>]
Under(dir, names) == [k \in DOMAIN names |-> <<dir>> \o names[k]]
Ids == <<[hi |-> 0, lo |-> 3], [hi |-> 0, lo |-> 9], [hi |-> 1, lo |-> 2], [hi |-> 0, lo |-> 7]>>
Devices(dir, names) ==
  [name \in Xp!Range(Under(dir, names)) |->
     LET place == CHOOSE k \in DOMAIN names : name = <<dir>> \o names[k]
     IN  [Kinds[input[place]] EXCEPT !.page.id = Ids[(place % Len(Ids)) + 1]]]

Linux ==
  [os |-> "linux", sysname |-> "Linux", version |-> 2, vmfs |-> FALSE, disks |-> <<>>, found |-> {},
   partitions |-> Disks, device |-> Devices("/dev/", Disks), fds |-> 2, strcmp |-> "sign",
   stack |-> "kept", tools |-> {"/sbin/multipath", "/sbin/vgdisplay", "/usr/sbin/vxdisk"},
   multipath |-> <<MpLines[2], Mp(<<<<"bs">>, <<"0">>, <<"sd", "a">>>>, FALSE, TRUE),
                   Mp(<<<<"bs">>, <<"0">>, <<"sd", "c">>>>, FALSE, TRUE)>>,
   links |-> Links, readable |-> {<<"/dev/", "sd", "a">>, <<"/dev/", "sd", "c">>},
   vgdisplay |-> VgLines[1] \o VgLines[4] \o VgLines[5],
   vxdisk |-> <<[disk |-> <<"DEVICE">>, group |-> "GROUP"], [disk |-> <<"sd", "b">>, group |-> "dga"],
                [disk |-> <<"sd", "a">>, group |-> "-"]>>]
Esx ==
  [Linux EXCEPT !.sysname = "VMkernel", !.version = 4, !.vmfs = TRUE, !.disks = NaaDisks,
     !.found = Xp!Range(NaaDisks), !.device = Devices("/dev/disks/", NaaDisks),
     !.tools = {"/usr/sbin/esxcfg-scsidevs"}]
  @@ [volumes |-> <<[uid |-> "u1", vol |-> "vola"]>>,
      hbadevs |-> <<[uid |-> "u0", dev |-> <<"/vmfs/devices/disks/", "naa", "b", ":", "1">>],
                    [uid |-> "u1", dev |-> <<"/vmfs/devices/disks/", "naa", "a", ":", "1">>]>>]
VmfsDirs == [Esx EXCEPT !.device = Devices("/vmfs/devices/disks/", NaaDisks)]

(* Every disk of a host is listed as the options ask, by each program.       *)
InventoryIsComplete ==
  Len(input) <= MaxDisks =>
    /\ \A host \in {Linux, [Linux EXCEPT !.strcmp = "difference"], Esx},
          opts \in {{}, {"a", "V"}, {"V"}, {"V", "n"}, {"d", "n"}} :
         Xp!EveryDiskIsListed(host, opts) /\ Xp!LinesAreSorted(host, opts)
    /\ \A host \in {Linux, Esx}, opts \in {{}, {"a"}, {"V", "t"}, {"V", "N"}} :
         Lu!EveryUnitIsListed(host, opts) /\ Lu!UnitsAreSorted(host, opts)
    /\ \A host \in {Linux, VmfsDirs}, summary \in BOOLEAN :
         Vv!EveryVolumeIsShown(host, summary)
=============================================================================
