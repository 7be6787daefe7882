------------------------------ MODULE ListSeq ------------------------------
(* What the list of src/util/list.h promises its callers: each list is a     *)
(* sequence of items with a cursor.  A cursor is one of the list's items, or *)
(* Null at the end; it stays on its item when other items come and go.       *)
EXTENDS Naturals, Sequences, SequencesExt

CONSTANTS Lists, Nodes, Keys, Null

VARIABLES made,     \* the lists that exist
          items,    \* each list's items, first to last: [id, key] records
          cursor    \* the item the next list_get_next of a list returns

vars == <<made, items, cursor>>

Item == [id : Nodes, key : Keys]

Ids(s) == { s[i].id : i \in DOMAIN s }

Used == UNION { Ids(items[l]) : l \in made }

(* The item after id in s: where a cursor on id goes.                        *)
Following(s, id) ==
  LET i == CHOOSE j \in DOMAIN s : s[j].id = id
  IN  IF i = Len(s) THEN Null ELSE s[i + 1].id

(* t is s sorted: it has the same items, in the order of their keys, and     *)
(* items with the same key keep their order.                                 *)
Rearranged(t, s) == Len(t) = Len(s) /\ ToSet(t) = ToSet(s)

InOrder(t, i, j, descending) ==
  IF descending THEN t[i].key >= t[j].key ELSE t[i].key <= t[j].key

Ordered(t, descending) ==
  \A i, j \in DOMAIN t : i < j => InOrder(t, i, j, descending)

Stable(t, s) ==
  \A i, j \in DOMAIN t, m, n \in DOMAIN s :
     i < j /\ s[m] = t[i] /\ s[n] = t[j] /\ s[m].key = s[n].key => m < n

StablySorted(t, s, descending) ==
  Rearranged(t, s) /\ Ordered(t, descending) /\ Stable(t, s)

(* A list gains items at its end; the cursor of an empty list moves to the   *)
(* first of them.                                                            *)
Extend(l, s) ==
  /\ Ids(s) \cap Used = {}
  /\ \A i, j \in DOMAIN s : s[i].id = s[j].id => i = j
  /\ items' = [items EXCEPT ![l] = @ \o s]
  /\ cursor' = IF items[l] = <<>> /\ s # <<>>
               THEN [cursor EXCEPT ![l] = s[1].id] ELSE cursor

(* s copies the contents of src, as far as memory goes.                      *)
Copies(s, src) ==
  /\ Len(s) <= Len(src)
  /\ \A i \in DOMAIN s : s[i].key = src[i].key
  /\ Len(s) < Len(src) => Used \cup Ids(s) = Nodes

Init == made = {} /\ items = [l \in Lists |-> <<>>] /\ cursor = [l \in Lists |-> Null]

Create(l) ==
  /\ l \notin made
  /\ made' = made \cup {l}
  /\ UNCHANGED <<items, cursor>>

Destroy(l) ==
  /\ l \in made
  /\ made' = made \ {l}
  /\ items' = [items EXCEPT ![l] = <<>>]
  /\ cursor' = [cursor EXCEPT ![l] = Null]

Add(l) == l \in made /\ UNCHANGED made /\ \E it \in Item : Extend(l, <<it>>)

Delete(l) ==
  /\ l \in made
  /\ \E i \in DOMAIN items[l] : LET id == items[l][i].id IN
       /\ items' = [items EXCEPT ![l] = RemoveAt(@, i)]
       /\ cursor' = IF cursor[l] = id
                    THEN [cursor EXCEPT ![l] = Following(items[l], id)] ELSE cursor
  /\ UNCHANGED made

GetNext(l) ==
  /\ l \in made /\ cursor[l] # Null
  /\ cursor' = [cursor EXCEPT ![l] = Following(items[l], cursor[l])]
  /\ UNCHANGED <<made, items>>

Reset(l) ==
  /\ l \in made
  /\ cursor' = [cursor EXCEPT ![l] = IF items[l] = <<>> THEN Null ELSE items[l][1].id]
  /\ UNCHANGED <<made, items>>

Sort(l) ==
  /\ l \in made
  /\ items' = [items EXCEPT ![l] = items'[l]]
  /\ \E descending \in BOOLEAN : StablySorted(items'[l], items[l], descending)
  /\ UNCHANGED <<made, cursor>>

(* list_add_list and list_dup: the copies are the items that the step adds.  *)
Gained(l) == SubSeq(items'[l], Len(items[l]) + 1, Len(items'[l]))

AddList(l, src) ==
  /\ l \in made /\ src \in made /\ l # src
  /\ Extend(l, Gained(l)) /\ Copies(Gained(l), items[src])
  /\ UNCHANGED made

Dup(src, l) ==
  /\ src \in made /\ l \notin made
  /\ made' = made \cup {l}
  /\ Extend(l, Gained(l)) /\ Copies(Gained(l), items[src])

Next == \E l \in Lists :
          \/ Create(l) \/ Destroy(l) \/ Add(l) \/ Delete(l)
          \/ GetNext(l) \/ Reset(l) \/ Sort(l)
          \/ \E src \in Lists : AddList(l, src) \/ Dup(src, l)

Spec == Init /\ [][Next]_vars
=============================================================================
