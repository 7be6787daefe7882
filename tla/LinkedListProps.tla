-------------------------- MODULE LinkedListProps --------------------------
(* What the list must keep true, and its implementation of ListSeq.          *)
EXTENDS LinkedList

(* No pointer of src/util/list.c leads to memory that was given back.        *)
TypeOK ==
  /\ made \subseteq Lists /\ sorted \subseteq made
  /\ first \in [Lists -> live \cup {Null}] /\ last \in [Lists -> live \cup {Null}]
  /\ next \in [Lists -> live \cup {Null}]
  /\ prev \in [Nodes -> live \cup {Null}] /\ nxt \in [Nodes -> live \cup {Null}]
  /\ key \in [Nodes -> Keys] /\ live \subseteq Nodes
  /\ op \in {"none", "sort", "append", "dup"}
  /\ lp \in made \cup {Null} /\ ip \in live \cup {Null}
  /\ descending \in BOOLEAN

(* Walking back from any node undoes walking forward, the walk from first    *)
(* meets live nodes only and ends, and no node is in two lists: what every   *)
(* loop over a list relies on, after any order of add, delete and sort.      *)
WellLinked ==
  /\ \A l \in Lists : LET s == From(first[l]) IN
       /\ \A i, j \in DOMAIN s : s[i] = s[j] => i = j
       /\ \A i \in DOMAIN s :
            /\ s[i] \in live
            /\ prev[s[i]] = IF i = 1 THEN Null ELSE s[i - 1]
       /\ s # <<>> => nxt[s[Len(s)]] = Null
  /\ \A l, m \in Lists : l # m => NodesOf(l) \cap NodesOf(m) = {}

(* Every live node is in a list: list_delete, list_destroy and the unhooking *)
(* in list_sort lose none, so that all memory can be given back.             *)
NoLeak == live = UNION { NodesOf(l) : l \in made }

(* The cursor of a list is one of its own nodes or Null, whatever was        *)
(* deleted or sorted since list_reset: list_get_next dereferences it.        *)
CursorInList == \A l \in Lists : next[l] \in NodesOf(l) \cup {Null}

(* last is the end of every list that was never sorted, which is all that    *)
(* list_add, which appends after last, relies on.                            *)
AppendGoesLast ==
  \A l \in made \ sorted :
     IF first[l] = Null THEN last[l] = Null
     ELSE last[l] \in NodesOf(l) /\ nxt[last[l]] = Null

(* No order of calls breaks a list of list.c: no pointer dangles, none of    *)
(* its links, its end or its cursor is wrong, and no node is lost.           *)
ListIsIntact == TypeOK /\ WellLinked /\ NoLeak /\ CursorInList /\ AppendGoesLast

(* list.h:22 says that last is the last item in the list.                    *)
LastIsLast ==
  \A l \in made : Idle /\ first[l] # Null => last[l] \in live /\ nxt[last[l]] = Null

-----------------------------------------------------------------------------
(* The inductive invariant: each list is a sequence of nodes that first, the *)
(* next pointers and the previous pointers all describe.  p[l] is that of l. *)

Linked(s, head, nx, pr) ==
  /\ s \in Seq(Nodes)
  /\ \A i, j \in DOMAIN s : s[i] = s[j] => i = j
  /\ head = IF s = <<>> THEN Null ELSE s[1]
  /\ \A i \in DOMAIN s : /\ nx[s[i]] = IF i = Len(s) THEN Null ELSE s[i + 1]
                         /\ pr[s[i]] = IF i = 1 THEN Null ELSE s[i - 1]

Members(s) == { s[i] : i \in DOMAIN s }

(* A list that was sorted keeps the last it had, wherever that node went.    *)
HeaderFits(l, s) ==
  /\ l \notin made => s = <<>>
  /\ last[l] \in Members(s) \cup {Null}
  /\ l \notin sorted => last[l] = IF s = <<>> THEN Null ELSE s[Len(s)]
  /\ next[l] \in Members(s) \cup {Null}

(* The heap is what the lists are made of: a node is in one list, or free.   *)
Represents(p) ==
  /\ \A l \in Lists : Linked(p[l], first[l], nxt, prev) /\ HeaderFits(l, p[l])
  /\ \A l, m \in Lists : l # m => Members(p[l]) \cap Members(p[m]) = {}
  /\ live = UNION { Members(p[l]) : l \in Lists }
  /\ \A n \in Nodes \ live : prev[n] = Null /\ nxt[n] = Null

LoopFits(p) ==
  /\ IF Idle THEN lp = Null /\ ip = Null ELSE lp \in made
  /\ op = "sort" => lp \in sorted /\ ip \in Members(p[lp]) \cup {Null}
  /\ op \in {"append", "dup"} => lp \notin sorted

Paths == [l \in Lists |-> From(first[l])]

IInv == TypeOK /\ Represents(Paths) /\ LoopFits(Paths)

-----------------------------------------------------------------------------
(* A loop takes effect when it ends: until then the abstract list is what it *)
(* was when the loop began.                                                  *)
AbstractMade == IF op = "dup" THEN made \ {lp} ELSE made

AbstractItems == [l \in Lists |-> IF ~Idle /\ l = lp THEN before ELSE Contents(l)]

AbstractCursor ==
  [l \in Lists |-> IF op \in {"append", "dup"} /\ l = lp /\ before = <<>>
                   THEN Null ELSE next[l]]

Abstract == INSTANCE ListSeq WITH made <- AbstractMade, items <- AbstractItems,
                                  cursor <- AbstractCursor

(* Every operation does to the sequence what it promises: list_add appends,  *)
(* list_delete removes the one item and moves a cursor that was on it to the *)
(* item after it, list_sort is a stable sort that leaves the cursor on its   *)
(* item, list_add_list and list_dup copy in order.                           *)
ImplementsListSeq == Abstract!Spec

(* What the loops have done by each iteration: the strengthening the         *)
(* refinement needs.  At(s, k) is the pointer to position k of a walk, Null  *)
(* when the walk is over.                                                    *)
At(s, k) == IF k \in DOMAIN s THEN s[k] ELSE Null

(* What ListSeq makes of a walk.                                             *)
Records(s, ky) == [i \in DOMAIN s |-> [id |-> s[i], key |-> ky[s[i]]]]

(* list_sort: the list is what it was but for the order, equal keys are in   *)
(* the order they were in, and everything before ip is in its place.         *)
SortProgress(p) ==
  op = "sort" => LET t == Records(p[lp], key) IN
    /\ Abstract!Rearranged(t, before) /\ Abstract!Stable(t, before)
    /\ \E k \in 1 .. Len(t) + 1 :
         /\ ip = At(p[lp], k)
         /\ \A i, j \in DOMAIN t : i < k /\ i < j => Abstract!InOrder(t, i, j, descending)

(* list_add_list and list_dup: the first items of lp are those it had, the   *)
(* last n copies of the first items of the list l that ip walks, now at k;   *)
(* one is skipped only when no memory is left, and then so are all others.   *)
Copied(p, l, k, n) ==
  LET had == Len(p[lp]) - n IN
  /\ source = Records(p[l], key) /\ ip = At(p[l], k)
  /\ had >= 0 /\ before = SubSeq(Records(p[lp], key), 1, had)
  /\ \A i \in 1..n : key[p[lp][had + i]] = source[i].key
  /\ n < k - 1 => live = Nodes
  /\ before = <<>> => next[lp] = first[lp]
  /\ op = "dup" => before = <<>>

CopyProgress(p) ==
  op \in {"append", "dup"} =>
    \E l \in made \ {lp} : \E k \in 1 .. Len(p[l]) + 1, n \in 0 .. Len(p[l]) :
       n < k /\ Copied(p, l, k, n)

RInv == IInv /\ SortProgress(Paths) /\ CopyProgress(Paths)

(* list_sort, which starts over from each node it moves forward, ends, and   *)
(* so do the copying loops.                                                  *)
LoopsEnd == ~Idle ~> Idle
===========================================================================
