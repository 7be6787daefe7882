------------------------------- MODULE Inputs -------------------------------
(* Inputs of up to MaxLen symbols: input grows by one symbol at a time, and  *)
(* each property reads it in its own alphabet.  The properties here are those*)
(* that are proved of every input.                                           *)
EXTENDS Codec, FdUtils, Volumes

CONSTANT MaxLen         \* length of the longest input

ASSUME SboxAssumption == SboxSize \in Nat \ {0}

VARIABLE input

Symbol == 1..6
Init == input = <<>>
Type(c) == Len(input) < MaxLen /\ input' = Append(input, c)
Next == \E c \in Symbol : Type(c)
Spec == Init /\ [][Next]_input

Spell(alphabet) == SubSeq([i \in DOMAIN input |-> alphabet[input[i]]], 1, Len(input))

-----------------------------------------------------------------------------
(* What encfile and mkkey write, decfile and the feeder of syscmd read, also *)
(* behind a newline, and what mkpass writes too, up to a byte more (encode.c,*)
(* encrypt.c); the table of the encryptor stays a permutation.               *)
Start == KeySchedule(<<83, 121, 115, 65, 100, 109>>)
CodecRoundTrips ==
  /\ ProgramsRoundTrip(Start, Spell(<<0, 1, 63, 64, 128, 255>>))
  /\ SboxIsPermutation(Start, Spell(<<0, 1, 63, 64, 128, 255>>))

-----------------------------------------------------------------------------
(* A stream in chunks: "cut" ends one; where none has begun it is a pause.   *)
CutAt(c) == [ended |-> Append(c.ended, c.chunk), chunk |-> <<>>]
Close(c) == IF c.chunk = <<>> THEN c ELSE CutAt(c)
Deliver(c, ch) == IF ch = "cut" THEN CutAt(c) ELSE [c EXCEPT !.chunk = Append(@, ch)]
Chunks(s) == Close(FoldLeft(Deliver, [ended |-> <<>>, chunk |-> <<>>], s)).ended
Took(n) == [kind |-> "took", n |-> n]
Takes == <<Took(1), Took(2), Took(0), [kind |-> "again", n |-> 0], [kind |-> "error", n |-> 0],
           Took(4)>>

(* fd_gets and fd_telgets return the same lines however the stream is cut,   *)
(* fd_telgets as long as it does not wait in vain, and stay within one cell  *)
(* more than the array they are told of; socket_printf and fd_printf say how *)
(* a line that is sent in pieces fared (fdutils.c, socket.c).                *)
StreamsAreWhole ==
  /\ LinesSurviveChunks(Chunks(Spell(<<"x", "nl", "cut", "y", "cr", "nul">>)))
  /\ TelnetSurvivesChunks(Chunks(Spell(<<"x", "nl", "cut", "iac", "do", "nul">>)))
  /\ WritesAreReported(Spell(Takes), 3)

-----------------------------------------------------------------------------
(* vgdisplay on a host with one map, mpath a, of two paths.                  *)
Lvm(mark, name, n, m) == [mark |-> mark, name |-> name, n |-> n, m |-> m, unit |-> "MB"]
Mpath == <<"/dev/mapper/", "mpath", "a">>
VgLines == <<<<Lvm("VGSTART", "", 0, 0), Lvm("VG Name", "vga", 0, 0), Lvm("PE Size", "", 4, 0)>>,
             <<Lvm("VGSTART", "", 0, 0), Lvm("VG Name", "vgb", 0, 0), Lvm("Total PE", "", 9, 0)>>,
             <<Lvm("LVSTART", "", 0, 0), Lvm("LV Name", "lv", 0, 0), Lvm("VG Name", "vgx", 0, 0),
               Lvm("LV Size", "", 8, 0)>>,
             <<Lvm("PVSTART", "", 0, 0), Lvm("PV Name", Mpath, 0, 0)>>,
             <<Lvm("Total PE", "", 5, 3), Lvm("Free PE", "", 3, 0)>>,
             <<Lvm("PVSTART", "", 0, 0), Lvm("PV Name", <<"/dev/", "sd", "c", "1">>, 0, 0),
               Lvm("Total PE", "", 5, 3)>>>>
Maps == <<[name |-> <<"/dev/", "dm-", "0">>, alt_name |-> Mpath,
           devs |-> <<<<"/dev/", "sd", "a">>, <<"/dev/", "sd", "b">>>>]>>
Row(dev) == [dev |-> dev, vol |-> "none"]
Rows == <<Row(<<"/dev/", "sd", "a">>), Row(<<"/dev/", "sd", "b">>), Row(<<"/dev/", "sd", "c">>),
          Row(<<"/dev/", "sd", "c", "1">>), Row(Mpath)>>

(* Each disk has the volume group that vgdisplay puts it in (get_vginfo and  *)
(* get_vgnames, src/xplist/vg.c and src/luninfo/vg.c).                       *)
VolumesReachEveryPath ==
  \A os \in {"linux", "hpux"} : PathsShowVolumes(FlattenSeq(Spell(VgLines)), os, Maps, Rows)
=============================================================================
