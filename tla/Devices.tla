------------------------------ MODULE Devices -------------------------------
(* The disks xplist and luninfo look at, get_devs of each operating system   *)
(* (src/xplist/{linux,hpux,win32}.c, src/luninfo/{linux,esx,hpux,solaris,    *)
(* win32}.c).  A name is a sequence of pieces, its first piece the part the  *)
(* code compares with strncmp; "/dev/" and its like are one piece.           *)
EXTENDS Naturals, Sequences, SequencesExt

Digit == {"0", "1", "2"}
Is(p, prefix) == p # <<>> /\ p[1] = prefix
EndsInDigit(p) == p # <<>> /\ p[Len(p)] \in Digit
In(dir, names) == [k \in DOMAIN names |-> <<dir>> \o names[k]]
Has(p, piece) == \E i \in DOMAIN p : p[i] = piece

-----------------------------------------------------------------------------
(* Linux: the fourth words of /proc/partitions, <<>> where there is none.    *)

XpIsDisk(p) == /\ p # <<>>
               /\ \/ Is(p, "psd") /\ EndsInDigit(p)
                  \/ Is(p, "sd") /\ ~EndsInDigit(p)
(* luninfo skips only what the last of its three tests is asked about, and   *)
(* the empty statement of the second one lets everything else pass.          *)
LunIsDisk(p) == /\ p # <<>>
                /\ \/ Is(p, "psd") /\ EndsInDigit(p)
                   \/ ~Is(p, "nvme") \/ EndsInDigit(p)
XpLinuxDevs(words) == In("/dev/", SelectSeq(words, XpIsDisk))
LunLinuxDevs(words) == In("/dev/", SelectSeq(words, LunIsDisk))

-----------------------------------------------------------------------------
(* ESX: the entries of /dev/disks, those of Found being there for stat; "."  *)
(* and ".." are not names.                                                   *)

GetVmwareDevs(entries, Found) ==
  In("/dev/disks/", SelectSeq(entries, LAMBDA p : Is(p, "naa") /\ ~Has(p, ":") /\ p \in Found))
GetEsxDevs(entries) ==
  In("/dev/disks/",
     SelectSeq(entries, LAMBDA p : /\ ~(Len(p) > 1 /\ p[Len(p) - 1] = ":")
                                   /\ ~Is(p, "vml")))

(* xplist asks uname whether this is ESX, luninfo looks for its directory.   *)
XpGetDevs(host) ==
  IF host.sysname = "VMkernel" /\ (host.version >= 5 \/ host.vmfs)
  THEN GetVmwareDevs(host.disks, host.found) ELSE XpLinuxDevs(host.partitions)
LunGetDevs(host) ==
  IF host.vmfs THEN GetEsxDevs(host.disks) ELSE LunLinuxDevs(host.partitions)

-----------------------------------------------------------------------------
(* HP-UX: ioscan writes a line about a device and one with its files; a      *)
(* line is its words' ROM mark and the name behind /dev/rdsk, if any.        *)

IsSection(p) == Len(p) > 1 /\ p[Len(p) - 1] = "s" /\ EndsInDigit(p)
IoscanLine(got, line) ==
  IF line.blank THEN got
  ELSE IF got.skipnext THEN [got EXCEPT !.skipnext = FALSE]
  ELSE [skipnext |-> line.rom,
        devs |-> IF line.rdsk = <<>> \/ IsSection(line.rdsk) THEN got.devs
                 ELSE Append(got.devs, line.rdsk)]
XpHpuxDevs(lines) == FoldLeft(IoscanLine, [skipnext |-> FALSE, devs |-> <<>>], lines).devs
LunHpuxDevs(lines) == XpHpuxDevs(lines)

(* Solaris: slice 0 of every disk of /dev/rdsk.                              *)
IsSlice(p) == Len(p) > 1 /\ p[Len(p) - 1] = "s" /\ p[Len(p)] # "0"
SolarisDevs(entries, Found) ==
  In("/dev/rdsk/",
     SelectSeq(entries, LAMBDA p : ~IsSlice(p) /\ ~Is(p, "disk_") /\ p \in Found))

(* Windows: the names of QueryDosDevice; none when it fails.                 *)
XpWin32Devs(names) == In("//./", SelectSeq(names, LAMBDA p : Is(p, "PhysicalDrive")))
LunWin32Devs(names) == XpWin32Devs(names)

-----------------------------------------------------------------------------
(* xplist opens whole disks only, and each once: of a Linux disk and its     *)
(* partitions the disk, of an HP-UX disk no section and nothing that the     *)
(* line before calls a ROM, of a Solaris disk no slice but 0.                *)
Once(devs) == \A i, j \in DOMAIN devs : devs[i] = devs[j] => i = j
DisksAreWhole(words, lines) ==
  LET devs == XpLinuxDevs(words)
      files == XpHpuxDevs(lines)
      Described(k) == k > 1 /\ lines[k - 1].rom
      usable == {k \in DOMAIN lines : lines[k].rdsk # <<>> /\ ~Described(k)
                                      /\ ~(lines[k].rdsk[Len(lines[k].rdsk) - 1] = "s")}
  IN  /\ \A p \in Range(devs) : ~EndsInDigit(p) \/ p[2] = "psd"
      /\ \A p \in Range(words) : Is(p, "sd") /\ ~EndsInDigit(p) => <<"/dev/">> \o p \in Range(devs)
      /\ Once(words) => Once(devs)
      /\ files = [i \in 1..Len(SetToSortSeq(usable, <)) |->
                    lines[SetToSortSeq(usable, <)[i]].rdsk]
=============================================================================
