-------------------------------- MODULE Scsi --------------------------------
(* The SCSI commands of xplist (common.c), luninfo (scsi.c) and vvinfo       *)
(* (vvinfo.c), and do_ioctl of each system below them.  A device is a record *)
(*   sg    the commands that SG_IO carries through with a good status        *)
(*   send  whether SCSI_IOCTL_SEND_COMMAND works                             *)
(*   add   the additional length byte 4 of its inquiry data announces        *)
(*   lba, len   its last block and the bytes of a block                      *)
(*   luns  what REPORT LUNS lists; ids  the descriptors of page 0x83.        *)
EXTENDS Integers, Sequences, SequencesExt

CONSTANTS MB,           \* bytes of a megabyte
          Lunids,       \* entries of a REPORT LUNS answer: 31, in 256 bytes
          WwnLen        \* size of the buffer wwn of get_wwn

Smaller(a, b) == IF a < b THEN a ELSE b
Larger(a, b) == IF a > b THEN a ELSE b

-----------------------------------------------------------------------------
(* A reply: whether it failed, and how many bytes of the buffer are the      *)
(* device's; the others are zero.                                            *)

Failed == [err |-> TRUE, upto |-> 0]
Replied(n) == [err |-> FALSE, upto |-> n]

(* Linux: SG_IO, else SEND_COMMAND with a 256 byte buffer, whose first eight *)
(* bytes are its header and never the device's.                              *)
LunDoIoctl(dev, cmd, len) ==
  IF cmd \in dev.sg THEN Replied(len)
  ELSE IF dev.send THEN Replied(Smaller(len, 256) - 8) ELSE Failed
XpDoIoctl(dev, cmd, len) == LunDoIoctl(dev, cmd, len)
VvDoIoctl(dev, cmd, len) == LunDoIoctl(dev, cmd, len)

(* The other systems have the one way only.                                  *)
OneIoctl(dev, cmd, len) == IF cmd \in dev.sg THEN Replied(len) ELSE Failed
SolarisDoIoctl(dev, cmd, len) == OneIoctl(dev, cmd, len)
XpWin32DoIoctl(dev, cmd, len) == OneIoctl(dev, cmd, len)
LunWin32DoIoctl(dev, cmd, len) == OneIoctl(dev, cmd, len)
VvHpuxDoIoctl(dev, cmd, len) == OneIoctl(dev, cmd, len)
VvWin32DoIoctl(dev, cmd, len) == OneIoctl(dev, cmd, len)

-----------------------------------------------------------------------------
(* The inquiry data: 36 bytes first, then as many as they announce.          *)

FullLength(dev) == Smaller(dev.add + 5, 255)
Inquiry(Ioctl(_, _, _), dev) ==
  LET first == Ioctl(dev, "inq", 36)
      len == FullLength(dev)
      full == Ioctl(dev, "inq", len)
  IN  IF first.err \/ len = 36 THEN first
      ELSE IF full.err THEN Failed
      ELSE Replied(IF first.upto > len THEN first.upto ELSE full.upto)

XpInquiry(dev) == Inquiry(XpDoIoctl, dev)
LunInquiry(dev) == Inquiry(LunDoIoctl, dev)
StdInquiry(dev) == Inquiry(LunDoIoctl, dev)
VvInquiry(dev) == Inquiry(VvDoIoctl, dev)
GetInqPage(dev, page, len) == VvDoIoctl(dev, page, len)

(* What the code finds at the bytes up to last, absent when they are zero.   *)
Field(dev, reply, value, last, absent) ==
  IF last < Smaller(reply.upto, FullLength(dev)) THEN value ELSE absent

-----------------------------------------------------------------------------
(* READ CAPACITY(16), else (10): the last block's number times the length of *)
(* a block, so one block less than there are.                                *)

Bytes(Ioctl(_, _, _), dev) ==
  IF Ioctl(dev, "cap16", 32).err /\ Ioctl(dev, "cap10", 32).err
  THEN [err |-> TRUE, bytes |-> 0]
  ELSE [err |-> FALSE, bytes |-> dev.lba * dev.len]
XpCapacity(dev) ==
  LET c == Bytes(XpDoIoctl, dev) IN [err |-> c.err, size |-> c.bytes \div MB]
LunCapacity(dev) ==
  LET c == Bytes(LunDoIoctl, dev) IN [err |-> c.bytes = 0, size |-> c.bytes \div MB]
VvCapacity(dev) == Bytes(VvDoIoctl, dev)

(* REPORT LUNS: luninfo keeps the last of the first Lunids; xplist reads     *)
(* them all and sets nothing.  0 is what the entry was cleared to.           *)
LunLunid(dev) ==
  IF LunDoIoctl(dev, "luns", 256).err \/ dev.luns = <<>> THEN 0
  ELSE dev.luns[Smaller(Len(dev.luns), Lunids)]
XpLunid(dev) == 0

-----------------------------------------------------------------------------
(* get_wwn: each T10 or NAA descriptor of the logical unit is written to the *)
(* start of one local array, which begins as the stack is, "?" for any byte: *)
(* a binary one as hexadecimal digits with their zero, another one without.  *)
(* None is measured: a name that is longer than the array is "wild".         *)

Junk == SubSeq([i \in 1..WwnLen |-> "?"], 1, WwnLen)
Write(buf, s) == SubSeq(s \o SubSeq(buf, Len(s) + 1, Len(buf)), 1, Len(buf))
CString(buf) ==
  LET ends == {i \in DOMAIN buf : buf[i] = "nul"}
  IN  IF ends = {} THEN buf
      ELSE SubSeq(buf, 1, (CHOOSE i \in ends : \A j \in ends : i <= j) - 1)
(* _pval: two digits for each byte.                                          *)
Pval(id) == FlattenSeq([i \in DOMAIN id |-> <<"hex", id[i]>>])
TrimBlanks(s) ==
  LET ink == {i \in DOMAIN s : s[i] # " "}
  IN  IF ink = {} THEN <<>>
      ELSE SubSeq(s, CHOOSE i \in ink : \A j \in ink : i <= j,
                     CHOOSE i \in ink : \A j \in ink : i >= j)

(* Seeded fault: the descriptors of the target and its ports count too.      *)
AnyDescriptor(desc) == desc.type \in {"1", "3"}

OfTheUnit(desc) == desc.assoc = 0 /\ desc.type \in {"1", "3"}
TypeMark(desc, wwn_type) == IF wwn_type THEN <<desc.type>> ELSE <<>>

AddDescriptor(buf, desc, wwn_type) ==
  LET mark == TypeMark(desc, wwn_type)
      marked == IF mark = <<>> THEN buf ELSE Write(buf, Append(mark, "nul"))
  IN  IF ~OfTheUnit(desc) THEN buf
      ELSE IF desc.code # 1
           THEN Write(buf, Append(TrimBlanks(CString(Write(marked, mark \o desc.id))), "nul"))
      ELSE IF desc.id = <<>> THEN marked
      ELSE Write(buf, mark \o Append(Pval(desc.id), "nul"))
(* What a descriptor takes of the array, and whether one takes too much.     *)
Written(desc, wwn_type) ==
  Len(TypeMark(desc, wwn_type))
    + IF desc.code = 1 THEN Len(Append(Pval(desc.id), "nul")) ELSE Len(desc.id)
Overruns(dev, wwn_type) ==
  \E k \in DOMAIN dev.ids : OfTheUnit(dev.ids[k]) /\ Written(dev.ids[k], wwn_type) > WwnLen

GetWwn(dev, wwn_type, stack) ==
  LET buf == FoldLeft(LAMBDA b, desc : AddDescriptor(b, desc, wwn_type), stack, dev.ids)
  IN  IF LunDoIoctl(dev, "vpd", 2048).err THEN [name |-> <<>>, buf |-> stack]
      ELSE IF Overruns(dev, wwn_type) THEN [name |-> <<"wild">>, buf |-> stack]
      ELSE [name |-> CString(buf), buf |-> buf]

-----------------------------------------------------------------------------
(* Sizes: the megabytes shown are those of the disk, or one less when the    *)
(* last block completes one.                                                 *)
SizeIsWithinOne(dev) ==
  LET real == ((dev.lba + 1) * dev.len) \div MB
      Near(c) == \/ c.err /\ dev.sg \cap {"cap16", "cap10"} = {} /\ ~dev.send
                 \/ ~c.err /\ c.size \in {real, real - 1}
  IN  /\ Near(XpCapacity(dev))
      /\ Near(LunCapacity(dev)) \/ dev.lba = 0

(* The name luninfo tells disks apart by (info.c:44) is the last descriptor  *)
(* of the logical unit, never one of a port or of the target: a binary one   *)
(* is the whole name, another one, which is stored without its zero, is its  *)
(* beginning; as long as each of them has room in the array of get_wwn.      *)
WwnNamesTheUnit(dev, wwn_type) ==
  LET named == SelectSeq(dev.ids, LAMBDA d : /\ d.assoc = 0 /\ d.type \in {"1", "3"}
                                             /\ wwn_type \/ d.id # <<>>)
      last == named[Len(named)]
      mark == TypeMark(last, wwn_type)
      wwn == GetWwn(dev, wwn_type, Junk).name
  IN  named # <<>> /\ ("vpd" \in dev.sg \/ dev.send) /\ ~Overruns(dev, wwn_type) =>
        IF last.code = 1 THEN wwn = mark \o Pval(last.id)
        ELSE " " \in Range(last.id) \/ IsPrefix(mark \o last.id, wwn)
=============================================================================
