----------------------------- MODULE RemoveDups -----------------------------
(* remove_dups of src/xplist/main.c and of src/luninfo/info.c: two nested    *)
(* walks over one list with its one cursor, deleting entries on the way.     *)
(* The entry and its list node are one node here, as in LinkedList; freeing  *)
(* an entry leaves the fields remove_dups reads (free() writes at the start  *)
(* of the memory only, and nothing is allocated meanwhile), while a cursor   *)
(* on a freed node leads anywhere.                                           *)
EXTENDS LinkedList

CONSTANTS devs,       \* the list
          Ids         \* identities: cu, ldev and serial number; or the wwn

ASSUME RemoveDupsAssumption == Lists = {devs} /\ Nodes = 1..Cardinality(Nodes)

NoWwn == 0            \* the identity of an entry without a wwn

VARIABLES program,    \* whose remove_dups it is: "xplist" or "luninfo"
          id, vol,    \* each entry's identity and whether it has a volume name
          pc,         \* where remove_dups is
          xp, xp2,    \* its entries (d1 and d2 in luninfo)
          save_next

entries == <<program, id, vol>>
locals == <<xp, xp2, save_next>>
dvars == <<vars, entries, pc, locals>>

(* A list of some of the nodes, in order, as get_devs builds it.             *)
DupsInit ==
  \E count \in 0..Cardinality(Nodes) :
    /\ made = {devs} /\ sorted = {}
    /\ live = 1..count
    /\ first = [l \in Lists |-> IF count = 0 THEN Null ELSE 1]
    /\ last = [l \in Lists |-> IF count = 0 THEN Null ELSE count]
    /\ next = first
    /\ prev = [n \in Nodes |-> IF n \in 2..count THEN n - 1 ELSE Null]
    /\ nxt = [n \in Nodes |-> IF n \in 1..(count - 1) THEN n + 1 ELSE Null]
    /\ key = [n \in Nodes |-> NoKey]
    /\ op = "none" /\ lp = Null /\ ip = Null /\ descending = FALSE
    /\ before = <<>> /\ source = <<>>
    /\ program \in {"xplist", "luninfo"}
    /\ id \in [live -> Ids] /\ vol \in [live -> BOOLEAN]
    /\ pc = "start" /\ xp = Null /\ xp2 = Null /\ save_next = Null

Start ==
  /\ pc = "start"
  /\ list_reset(devs)
  /\ pc' = "outer"
  /\ UNCHANGED <<entries, locals>>

(* luninfo passes over the entries without a wwn.                            *)
Skipped(n) == program = "luninfo" /\ id[n] = NoWwn

OuterNext ==
  /\ pc = "outer" /\ next[devs] \in live
  /\ xp' = next[devs]
  /\ list_get_next(devs)
  /\ pc' = IF Skipped(next[devs]) THEN "outer" ELSE "save"
  /\ UNCHANGED <<entries, xp2, save_next>>

OuterEnds ==
  /\ pc = "outer" /\ next[devs] = Null
  /\ pc' = "done"
  /\ UNCHANGED <<vars, entries, locals>>

(* list_get_next of a freed node: no telling what it returns.                *)
OuterUndefined ==
  /\ pc = "outer" /\ next[devs] \notin live \cup {Null}
  /\ pc' = "undefined"
  /\ UNCHANGED <<vars, entries, locals>>

SaveAndReset ==
  /\ pc = "save"
  /\ save_next' = next[devs]
  /\ list_reset(devs)
  /\ pc' = "inner"
  /\ UNCHANGED <<entries, xp, xp2>>

Duplicate(n) == n # xp /\ ~Skipped(n) /\ id[n] = id[xp]

InnerNext ==
  /\ pc = "inner" /\ next[devs] # Null
  /\ xp2' = next[devs]
  /\ list_get_next(devs)
  /\ pc' = IF Duplicate(next[devs]) THEN "delete" ELSE "inner"
  /\ UNCHANGED <<entries, xp, save_next>>

InnerEnds ==
  /\ pc = "inner" /\ next[devs] = Null
  /\ pc' = "restore"
  /\ UNCHANGED <<vars, entries, locals>>

(* Seeded fault: the test of xp's volume name is inverted.                   *)
VictimInverted == IF vol[xp] THEN xp ELSE xp2

(* Keep the one with the volume name filled in.  When neither or both have   *)
(* one, luninfo deletes d1 and xplist the one that the test of xp picks.     *)
Victim ==
  IF vol[xp] /\ (program = "luninfo" => ~vol[xp2]) THEN xp2 ELSE xp

(* Without a break luninfo goes on with d1 after it deleted d1; deleting it  *)
(* again finds nothing.                                                      *)
Delete ==
  /\ pc = "delete"
  /\ \/ Victim \in NodesOf(devs) /\ list_delete(devs, Victim)
     \/ Victim \notin NodesOf(devs) /\ UNCHANGED vars
  /\ pc' = IF program = "xplist" THEN "restore" ELSE "inner"
  /\ UNCHANGED <<entries, locals>>

(* Seeded fault: devs->next is left where the inner walk ended.              *)
RestoreNothing == pc = "restore" /\ pc' = "outer" /\ UNCHANGED <<vars, entries, locals>>

(* Seeded fault: the outer walk starts over.                                 *)
RestoreFirst ==
  /\ pc = "restore"
  /\ next' = [next EXCEPT ![devs] = first[devs]]
  /\ pc' = "outer"
  /\ UNCHANGED <<made, first, last, heap, loop, sorted, entries, locals>>

Restore ==
  /\ pc = "restore"
  /\ next' = [next EXCEPT ![devs] = save_next]
  /\ pc' = "outer"
  /\ UNCHANGED <<made, first, last, heap, loop, sorted, entries, locals>>

DupsNext == \/ Start \/ OuterNext \/ OuterEnds \/ OuterUndefined \/ SaveAndReset
            \/ InnerNext \/ InnerEnds \/ Delete \/ Restore

(* One thread runs it to the end.                                            *)
DupsSpec == DupsInit /\ [][DupsNext]_dvars /\ WF_dvars(DupsNext)

-----------------------------------------------------------------------------
Entries == DOMAIN id       \* those the list began with

(* The list stays well formed, and a walk stays on it.                       *)
DupsTypeOK ==
  /\ live \subseteq Entries /\ live = NodesOf(devs)
  /\ xp \in Entries \cup {Null} /\ xp2 \in Entries \cup {Null}
  /\ save_next \in Entries \cup {Null}
  /\ \A n \in live : prev[n] # Null => nxt[prev[n]] = n
  /\ pc = "inner" => next[devs] \in live \cup {Null}

(* main.c:175 "Remove duplicates": the list stays a list, no device          *)
(* disappears, an entry that cannot be identified is not taken for a         *)
(* duplicate, and of the entries of one device one stays that has the volume *)
(* name if any has ("Keep the one with the vol info filled in"), whichever   *)
(* of the two walks deletes.                                                 *)
DeviceKept ==
  /\ DupsTypeOK
  /\ \A n \in Entries :
       /\ \E m \in live : id[m] = id[n] /\ (vol[n] => vol[m])
       /\ Skipped(n) => n \in live

(* When remove_dups returns without having followed a freed node, no device  *)
(* has two entries, though each inner walk of xplist deletes at most one.    *)
NoDuplicateLeft ==
  pc = "done" => \A m, n \in live : m # n => id[m] # id[n] \/ Skipped(m)

(* The two walks share one cursor, and yet remove_dups ends.                 *)
RemoveDupsEnds == <>(pc \in {"done", "undefined"})

(* list.h:23 "Next item in list": devs->next is an item of the list.         *)
NextIsInList == next[devs] \in live \cup {Null}
=============================================================================
