---------------------------- MODULE LinkedList ----------------------------
(* The doubly linked list of src/util/list.c (the copies in src/xplist and   *)
(* src/luninfo differ in debugging output only).  The heap is a set of nodes *)
(* with their pointers; a node and the copy of the item that list_add makes  *)
(* are allocated and freed together and stand for each other.  A list has a  *)
(* header of three pointers: first, last and next, the cursor.  Nothing runs *)
(* beside a list operation (THREAD_SAFE is not defined by any Makefile), so  *)
(* an operation without a loop that changes the heap is one action, and the  *)
(* loops of list_sort, list_add_list and list_dup take a step an iteration.  *)
EXTENDS Naturals, Sequences, FiniteSets

CONSTANTS Lists,         \* list headers a caller can create
          Nodes,         \* heap nodes; malloc fails when all are live
          Keys,          \* what the items compare by
          Null,
          AddAfterSort   \* whether a caller adds to a list it has sorted

ASSUME ListAssumption == /\ Null \notin Nodes /\ IsFiniteSet(Nodes)
                         /\ Keys \subseteq Nat /\ Keys # {}
                         /\ AddAfterSort \in BOOLEAN

VARIABLES made, first, last, next,      \* the headers
          prev, nxt, key, live,         \* the heap
          op, lp, ip, descending,       \* the loop that is running, its list and position
          before,                       \* history: contents of lp when the loop began
          source,                       \* history: contents copied by the loop
          sorted                        \* history: lists that were sorted

headers == <<first, last, next>>
heap == <<prev, nxt, key, live>>
loop == <<op, lp, ip, descending, before, source>>
vars == <<made, headers, heap, loop, sorted>>

Pointer == Nodes \cup {Null}

(* A freed node holds nothing anyone may use: its fields have one fixed      *)
(* value, so that heaps that differ in garbage only are one state.           *)
NoKey == CHOOSE k \in Keys : TRUE

(* The nodes reached from n along next pointers, n first.                    *)
From(n) ==
  LET at[k \in 0..Cardinality(Nodes)] ==
        IF k = 0 THEN n ELSE LET m == at[k - 1] IN IF m = Null THEN Null ELSE nxt[m]
  IN  [i \in 1..Cardinality({ k \in 0..Cardinality(Nodes) : at[k] # Null }) |-> at[i - 1]]

NodesOf(l) == LET s == From(first[l]) IN { s[i] : i \in DOMAIN s }

Contents(l) == LET s == From(first[l])
               IN  [i \in DOMAIN s |-> [id |-> s[i], key |-> key[s[i]]]]

Idle == op = "none"

Init ==
  /\ made = {} /\ sorted = {}
  /\ first = [l \in Lists |-> Null]
  /\ last = [l \in Lists |-> Null]
  /\ next = [l \in Lists |-> Null]
  /\ prev = [n \in Nodes |-> Null]
  /\ nxt = [n \in Nodes |-> Null]
  /\ key = [n \in Nodes |-> NoKey]
  /\ live = {}
  /\ op = "none" /\ lp = Null /\ ip = Null /\ descending = FALSE
  /\ before = <<>> /\ source = <<>>

-----------------------------------------------------------------------------
(* A list comes and goes.                                                    *)

list_create(l) ==
  /\ Idle /\ l \notin made
  /\ made' = made \cup {l}
  /\ UNCHANGED <<headers, heap, loop, sorted>>

(* Freed nodes get the fixed value.                                          *)
Free(gone) ==
  /\ live' = live \ gone
  /\ key' = [n \in Nodes |-> IF n \in gone THEN NoKey ELSE key[n]]

list_destroy(l) ==
  /\ Idle /\ l \in made
  /\ made' = made \ {l} /\ sorted' = sorted \ {l}
  /\ first' = [first EXCEPT ![l] = Null]
  /\ last' = [last EXCEPT ![l] = Null]
  /\ next' = [next EXCEPT ![l] = Null]
  /\ prev' = [n \in Nodes |-> IF n \in NodesOf(l) THEN Null ELSE prev[n]]
  /\ nxt' = [n \in Nodes |-> IF n \in NodesOf(l) THEN Null ELSE nxt[n]]
  /\ Free(NodesOf(l))
  /\ UNCHANGED loop

-----------------------------------------------------------------------------
(* Adding.  Without a free node _newitem fails, and nothing has changed.     *)

_newitem(n, k) ==
  /\ n \notin live
  /\ live' = live \cup {n}
  /\ key' = [key EXCEPT ![n] = k]

AppendFirst(l, n) ==
  /\ first[l] = Null
  /\ first' = [first EXCEPT ![l] = n]
  /\ last' = [last EXCEPT ![l] = n]
  /\ next' = [next EXCEPT ![l] = n]
  /\ UNCHANGED <<prev, nxt>>

(* list_add dereferences last without a test: a Null there ends the program. *)
AppendLast(l, n) ==
  /\ first[l] # Null /\ last[l] # Null
  /\ nxt' = [nxt EXCEPT ![last[l]] = n]
  /\ prev' = [prev EXCEPT ![n] = last[l]]
  /\ last' = [last EXCEPT ![l] = n]
  /\ UNCHANGED <<first, next>>

Append1(l, n, k) == _newitem(n, k) /\ (AppendFirst(l, n) \/ AppendLast(l, n))

list_add(l, n, k) ==
  /\ Idle /\ l \in made
  /\ l \in sorted => AddAfterSort
  /\ Append1(l, n, k)
  /\ UNCHANGED <<made, loop, sorted>>

-----------------------------------------------------------------------------
(* list_delete finds the node of an item and takes it out; an item that is   *)
(* not in the list changes nothing.                                          *)

(* Seeded fault: the cursor stays on the node that is freed.                 *)
UnlinkKeepsNext(l, n) ==
  /\ prev' = [m \in Nodes |-> IF m = n THEN Null ELSE IF m = nxt[n] THEN prev[n] ELSE prev[m]]
  /\ nxt' = [m \in Nodes |-> IF m = n THEN Null ELSE IF m = prev[n] THEN nxt[n] ELSE nxt[m]]
  /\ first' = [first EXCEPT ![l] = IF @ = n THEN nxt[n] ELSE @]
  /\ last' = [last EXCEPT ![l] = IF @ = n THEN prev[n] ELSE @]
  /\ UNCHANGED next

Unlink(l, n) ==
  /\ prev' = [m \in Nodes |-> IF m = n THEN Null ELSE IF m = nxt[n] THEN prev[n] ELSE prev[m]]
  /\ nxt' = [m \in Nodes |-> IF m = n THEN Null ELSE IF m = prev[n] THEN nxt[n] ELSE nxt[m]]
  /\ first' = [first EXCEPT ![l] = IF @ = n THEN nxt[n] ELSE @]
  /\ last' = [last EXCEPT ![l] = IF @ = n THEN prev[n] ELSE @]
  /\ next' = [next EXCEPT ![l] = IF @ = n THEN nxt[n] ELSE @]

list_delete(l, n) ==
  /\ Idle /\ l \in made /\ n \in NodesOf(l)
  /\ Unlink(l, n)
  /\ Free({n})
  /\ UNCHANGED <<made, loop, sorted>>

-----------------------------------------------------------------------------
(* The cursor.                                                               *)

list_get_next(l) ==
  /\ Idle /\ l \in made /\ next[l] # Null
  /\ next' = [next EXCEPT ![l] = nxt[@]]
  /\ UNCHANGED <<made, first, last, heap, loop, sorted>>

list_reset(l) ==
  /\ Idle /\ l \in made
  /\ next' = [next EXCEPT ![l] = first[l]]
  /\ UNCHANGED <<made, first, last, heap, loop, sorted>>

-----------------------------------------------------------------------------
(* list_sort: ip walks the list; while a later node compares out of order    *)
(* with ip, the first such node moves in front of ip and becomes ip.         *)

BeginLoop(which, l, start, copied) ==
  /\ op' = which /\ lp' = l /\ ip' = start
  /\ before' = Contents(l) /\ source' = copied

EndLoop ==
  /\ op' = "none" /\ lp' = Null /\ ip' = Null /\ descending' = FALSE
  /\ before' = <<>> /\ source' = <<>>

list_sort(l) ==
  /\ Idle /\ l \in made
  /\ BeginLoop("sort", l, first[l], <<>>)
  /\ descending' \in BOOLEAN
  /\ sorted' = sorted \cup {l}
  /\ UNCHANGED <<made, headers, heap>>

(* Seeded fault: equal nodes count as out of order.                          *)
CompareOrEqual(a, b) == IF descending THEN key[a] <= key[b] ELSE key[a] >= key[b]

compare(a, b) == IF descending THEN key[a] < key[b] ELSE key[a] > key[b]

(* Positions, in the walk from ip, of the nodes that belong before ip.       *)
Misplaced == LET s == From(ip) IN { i \in DOMAIN s : compare(ip, s[i]) }

(* Seeded fault: the last misplaced node is taken, not the first.            *)
PickedLast == From(ip)[CHOOSE i \in Misplaced : \A j \in Misplaced : j <= i]

Picked == From(ip)[CHOOSE i \in Misplaced : \A j \in Misplaced : i <= j]

(* The moved node has a next, ip: `if (!ip->next) lp->last = ip' never holds *)
(* and last stays where it was, on the moved node if that was the last.      *)
SortSwap ==
  /\ op = "sort" /\ ip # Null /\ Misplaced # {}
  /\ LET t == Picked IN
       /\ nxt' = [n \in Nodes |-> IF n = t THEN ip
                                  ELSE IF n = prev[ip] THEN t
                                  ELSE IF n = prev[t] THEN nxt[t] ELSE nxt[n]]
       /\ prev' = [n \in Nodes |-> IF n = t THEN prev[ip]
                                   ELSE IF n = ip THEN t
                                   ELSE IF n = nxt[t] THEN prev[t] ELSE prev[n]]
       /\ ip' = t
       /\ first' = [first EXCEPT ![lp] = IF prev[ip] = Null THEN t ELSE @]
  /\ UNCHANGED <<made, last, next, key, live, op, lp, descending, before, source, sorted>>

SortNext ==
  /\ op = "sort" /\ ip # Null /\ Misplaced = {}
  /\ ip' = nxt[ip]
  /\ UNCHANGED <<made, headers, heap, op, lp, descending, before, source, sorted>>

-----------------------------------------------------------------------------
(* list_add_list and list_dup add a copy of each item of one list to another *)
(* and do not look at what list_add returns.                                 *)

list_add_list(l, l2) ==
  /\ Idle /\ l \in made /\ l2 \in made /\ l # l2
  /\ l \in sorted => AddAfterSort
  /\ BeginLoop("append", l, first[l2], Contents(l2))
  /\ UNCHANGED <<made, headers, heap, descending, sorted>>

list_dup(l2, l) ==
  /\ Idle /\ l2 \in made /\ l \notin made
  /\ made' = made \cup {l}
  /\ BeginLoop("dup", l, first[l2], Contents(l2))
  /\ UNCHANGED <<headers, heap, descending, sorted>>

CopyItem ==
  /\ op \in {"append", "dup"} /\ ip # Null
  /\ \E n \in Nodes : Append1(lp, n, key[ip])
  /\ ip' = nxt[ip]
  /\ UNCHANGED <<made, op, lp, descending, before, source, sorted>>

CopyFails ==
  /\ op \in {"append", "dup"} /\ ip # Null /\ live = Nodes
  /\ ip' = nxt[ip]
  /\ UNCHANGED <<made, headers, heap, op, lp, descending, before, source, sorted>>

LoopEnds ==
  /\ ~Idle /\ ip = Null
  /\ EndLoop
  /\ UNCHANGED <<made, headers, heap, sorted>>

LoopStep == SortSwap \/ SortNext \/ CopyItem \/ CopyFails \/ LoopEnds

Next ==
  \/ LoopStep
  \/ \E l \in Lists :
       \/ list_create(l) \/ list_destroy(l)
       \/ \E n \in Nodes, k \in Keys : list_add(l, n, k)
       \/ \E n \in Nodes : list_delete(l, n)
       \/ list_get_next(l) \/ list_reset(l) \/ list_sort(l)
       \/ \E l2 \in Lists : list_add_list(l, l2) \/ list_dup(l2, l)

Spec == Init /\ [][Next]_vars

(* The loops run on the caller's thread and nothing suspends them.           *)
FairSpec == Spec /\ WF_vars(LoopStep)
===========================================================================
