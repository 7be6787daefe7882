-------------------------- MODULE RemoveDupsProofs --------------------------
(* Theorems about remove_dups of src/xplist/main.c and src/luninfo/info.c,   *)
(* for lists of any length: no device disappears, and none is left twice.    *)
EXTENDS RemoveDups, LinkedListProofs

-----------------------------------------------------------------------------
(* The inductive invariant.  A list from which nodes are only deleted stays  *)
(* in the order of the nodes: nxt[n] is the first live node after n.         *)

Follows(c, n, S) ==
  IF c = Null THEN \A m \in S : m <= n
  ELSE c \in S /\ n < c /\ \A m \in S : m <= n \/ c <= m
After(c, n) == Follows(c, n, live)
Before(n, c) == c = Null \/ n < c

(* devs is one list, of all that is live.                                    *)
Path == Walk(nxt, first[devs])
Shape ==
  /\ made = {devs} /\ op = "none"
  /\ first \in [Lists -> Pointer] /\ next \in [Lists -> Pointer]
  /\ live \subseteq Entries /\ Entries \subseteq Nodes
  /\ Linked(Path, first[devs], nxt, prev) /\ Members(Path) = live
  /\ After(first[devs], 0) /\ \A n \in live : After(nxt[n], n)

Locals ==
  /\ program \in {"xplist", "luninfo"} /\ vol \in [Entries -> BOOLEAN]
  /\ xp \in Entries \cup {Null} /\ xp2 \in Entries \cup {Null}
  /\ save_next \in Entries \cup {Null} /\ next[devs] \in Entries \cup {Null}

Kept(n) == /\ \E m \in live : id[m] = id[n] /\ (vol[n] => vol[m])
           /\ Skipped(n) => n \in live

(* What the walks have passed is free of duplicates: the outer one up to its *)
(* cursor, or up to xp while the inner walk has the cursor; this one knows   *)
(* xp itself from what it has passed, as long as xp is there.                *)
Distinct(S) == \A m, n \in S : m # n => id[m] # id[n] \/ Skipped(m)
Passed(c) == {n \in live : Before(n, c)}
Under(n) == {m \in live : m < n}
UpTo(n) == {m \in live : m <= n}
AtOuter == next[devs] \in live \cup {Null} => Distinct(Passed(next[devs]))
WithXp == xp \in Entries /\ ~Skipped(xp) /\ Distinct(Under(xp))
AtSave == xp \in live /\ After(next[devs], xp)
WithSaved == \A n \in Passed(save_next) : n <= xp
InWalk == program = "xplist" => xp \in live
AtInner == /\ next[devs] \in live \cup {Null}
           /\ xp \in live => \A n \in Passed(next[devs]) : ~Duplicate(n)
AtDelete == /\ xp2 \in live /\ Duplicate(xp2) /\ After(next[devs], xp2)
            /\ xp \in live => \A n \in Under(xp2) : ~Duplicate(n)
AtRestore == Distinct(UpTo(xp))
AtDone == Distinct(live)
Walking ==
  \/ pc \in {"start", "undefined"}
  \/ pc = "outer" /\ AtOuter
  \/ pc = "save" /\ WithXp /\ AtSave
  \/ pc = "inner" /\ WithXp /\ WithSaved /\ InWalk /\ AtInner
  \/ pc = "delete" /\ WithXp /\ WithSaved /\ InWalk /\ AtDelete
  \/ pc = "restore" /\ WithXp /\ WithSaved /\ AtRestore
  \/ pc = "done" /\ AtDone

DupsInv == Shape /\ Locals /\ (\A n \in Entries : Kept(n)) /\ Walking
-----------------------------------------------------------------------------
(* The list and its order.                                                   *)

LEMMA NodesAreNumbers == Nodes \subseteq Nat \ {0} /\ Null \notin Nodes /\ devs \in Lists
  <1>1. Cardinality(Nodes) \in Nat
    BY ListAssumption, FS_CardinalityType
  <1> QED
    BY <1>1, ListAssumption, RemoveDupsAssumption

LEMMA NodesAreLive ==
  ASSUME Shape
  PROVE  NodesOf(devs) = live
  BY FromIsWalk DEF Shape, NodesOf, Members, Path

LEMMA LinkFacts ==
  ASSUME NEW s, NEW head, NEW nx, NEW pr, Linked(s, head, nx, pr), NEW n \in Members(s)
  PROVE  /\ nx[n] # Null => nx[n] \in Members(s) /\ pr[nx[n]] = n
         /\ pr[n] # Null => pr[n] \in Members(s) /\ nx[pr[n]] = n
         /\ pr[n] = Null => head = n
  <1>1. Chain(Len(s), s, head, nx, pr) /\ DOMAIN s = 1..Len(s)
    BY LinkedIsChain
  <1> SUFFICES ASSUME NEW L, L = Len(s), Chain(L, s, head, nx, pr), Members(s) = { s[i] : i \in 1..L }
               PROVE  /\ nx[n] # Null => nx[n] \in Members(s) /\ pr[nx[n]] = n
                      /\ pr[n] # Null => pr[n] \in Members(s) /\ nx[pr[n]] = n
                      /\ pr[n] = Null => head = n
    BY <1>1 DEF Members
  <1>2. PICK i \in 1..L : n = s[i]
    OBVIOUS
  <1>3. \A j \in 1..L : s[j] # Null
    BY ListAssumption DEF Chain
  <1> QED
    BY <1>2, <1>3, NodesAreNumbers DEF Chain

LEMMA Skips ==
  ASSUME NEW S \in SUBSET (Nat \ {0}), NEW v \in S, NEW n \in Nat, n # v, Null \notin S,
         NEW c, NEW d, Follows(c, n, S), Follows(d, v, S)
  PROVE  Follows(IF c = v THEN d ELSE c, n, S \ {v})
  <1>1. CASE c = v
    <2>1. n < v /\ \A m \in S : m <= n \/ v <= m
      BY <1>1 DEF Follows
    <2>2. CASE d = Null
      BY <1>1, <2>1, <2>2 DEF Follows
    <2>3. CASE d # Null
      <3>0. d \in S /\ v < d /\ \A m \in S : m <= v \/ d <= m
        BY <2>3 DEF Follows
      <3>1. d \in S \ {v} /\ n < d /\ v < d /\ \A m \in S : m <= v \/ d <= m
        BY <2>1, <3>0
      <3>2. \A m \in S \ {v} : m <= n \/ d <= m
        BY <2>1, <3>1
      <3> QED
        BY <1>1, <2>3, <3>1, <3>2 DEF Follows
    <2> QED
      BY <2>2, <2>3
  <1>2. CASE c # v
    BY <1>2 DEF Follows
  <1> QED
    BY <1>1, <1>2

LEMMA SameShape ==
  ASSUME Shape, UNCHANGED <<made, op, first, nxt, prev, live, id>>, next' \in [Lists -> Pointer]
  PROVE  Shape'
  BY DEF Shape, Path, Entries, After, Follows, Linked, Members

(* A deleted node is skipped by its neighbours.                              *)
LEMMA DeletedShape ==
  ASSUME Shape, NEW v \in live, list_delete(devs, v), id' = id
  PROVE  /\ Shape' /\ live' = live \ {v}
         /\ next'[devs] = IF next[devs] = v THEN nxt[v] ELSE next[devs]
  <1> DEFINE s == Path
  <1>1. /\ Linked(s, first[devs], nxt, prev) /\ Members(s) = live /\ live \subseteq Nodes
        /\ devs \in Lists /\ Nodes \subseteq Nat \ {0} /\ Null \notin Nodes
        /\ first \in [Lists -> Pointer] /\ next \in [Lists -> Pointer]
    BY NodesAreNumbers DEF Shape
  <1>2. PICK q \in DOMAIN s : v = s[q]
    BY <1>1 DEF Members
  <1>3. /\ \A m \in Nodes : nxt'[m] = IF m = v THEN Null ELSE IF m = prev[v] THEN nxt[v] ELSE nxt[m]
        /\ \A m \in Nodes : prev'[m] = IF m = v THEN Null ELSE IF m = nxt[v] THEN prev[v] ELSE prev[m]
    BY DEF list_delete, Unlink
  <1>33. /\ first' = [first EXCEPT ![devs] = IF @ = v THEN nxt[v] ELSE @]
        /\ next' = [next EXCEPT ![devs] = IF @ = v THEN nxt[v] ELSE @]
        /\ live' = live \ {v} /\ UNCHANGED <<made, op>>
    BY DEF list_delete, Unlink, Free, loop
  <1> HIDE DEF s
  <1>0. Linked(s, first[devs], nxt, prev)
    BY <1>1
  <1>4. /\ Linked(Removed(s, q), IF first[devs] = v THEN nxt[v] ELSE first[devs], nxt', prev')
        /\ Members(Removed(s, q)) = Members(s) \ {v}
    BY ONLY <1>0, <1>2, <1>3, LinkedRemove
  <1>5. /\ first'[devs] = IF first[devs] = v THEN nxt[v] ELSE first[devs]
        /\ next'[devs] = IF next[devs] = v THEN nxt[v] ELSE next[devs]
    BY <1>1, <1>3, <1>33
  <1>6. nxt[v] \in live \cup {Null} /\ nxt[v] # v
    <2>1. nxt[v] \in live \cup {Null}
      BY <1>1, Neighbours
    <2>2. v \in Nat /\ (nxt[v] # Null => v < nxt[v] /\ nxt[v] \in Nat) /\ v # Null
      BY <1>1, <2>1 DEF Shape, After, Follows
    <2> QED
      BY <2>1, <2>2
  <1>7. first' \in [Lists -> Pointer] /\ next' \in [Lists -> Pointer]
    BY <1>1, <1>3, <1>33, <1>6 DEF Pointer
  <1>8. Path' = Removed(s, q)
    <2>1. Walk(nxt', first'[devs]) = Removed(s, q)
      BY <1>4, <1>5, WalkOfLinked
    <2> QED
      BY <2>1 DEF Path
  <1>9. Linked(Path, first[devs], nxt, prev)' /\ (Members(Path) = live)'
    <2>1. Linked(Path', first'[devs], nxt', prev') /\ Members(Path') = live'
      BY <1>1, <1>33, <1>4, <1>5, <1>8
    <2> QED
      BY <2>1 DEF Linked, Members
  <1>10. After(first[devs], 0) /\ \A n \in live : After(nxt[n], n)
    BY DEF Shape
  <1>11. After(first[devs], 0)'
    <2>1. Follows(first'[devs], 0, live')
      BY <1>1, <1>33, <1>5, <1>10, Skips DEF After
    <2> QED
      BY <2>1 DEF After, Follows
  <1>12. (\A n \in live : After(nxt[n], n))'
    <2> SUFFICES ASSUME NEW n \in live, n # v PROVE Follows(nxt'[n], n, live')
      BY <1>33 DEF After, Follows
    <2>1. nxt'[n] = IF nxt[n] = v THEN nxt[v] ELSE nxt[n]
      <3>1. n = prev[v] <=> nxt[n] = v
        BY <1>1, LinkFacts
      <3> QED
        BY <1>1, <1>3, <3>1
    <2> QED
      BY <1>1, <1>33, <1>10, <2>1, Skips DEF After
  <1> QED
    BY <1>3, <1>33, <1>5, <1>7, <1>9, <1>11, <1>12 DEF Shape, Entries

-----------------------------------------------------------------------------
(* The steps that delete nothing.                                            *)

LEMMA SameKept ==
  ASSUME \A n \in Entries : Kept(n), UNCHANGED <<live, program, id, vol>>
  PROVE  (\A n \in Entries : Kept(n))'
  BY DEF Kept, Entries, Skipped

LEMMA CursorMoves ==
  ASSUME DupsInv, UNCHANGED <<made, op, first, nxt, prev, live, program, id, vol>>,
         NEW c \in Entries \cup {Null}, next' = [next EXCEPT ![devs] = c]
  PROVE  Shape' /\ (\A n \in Entries : Kept(n))' /\ next'[devs] = c /\ Entries' = Entries
  <1>1. next \in [Lists -> Pointer] /\ c \in Pointer /\ devs \in Lists
    BY NodesAreNumbers DEF DupsInv, Shape, Pointer
  <1>2. next' \in [Lists -> Pointer] /\ next'[devs] = c
    BY <1>1
  <1> QED
    BY <1>2, SameShape, SameKept DEF DupsInv, Entries

LEMMA FirstPassed ==
  ASSUME Shape
  PROVE  Passed(first[devs]) = {}
  <1>1. live \subseteq Nat \ {0} /\ Follows(first[devs], 0, live)
    BY NodesAreNumbers DEF Shape, After
  <1>2. \A n \in live : ~Before(n, first[devs])
    <2>1. CASE first[devs] = Null
      BY <1>1, <2>1 DEF Follows
    <2>2. CASE first[devs] # Null
      <3>1. first[devs] \in live /\ \A n \in live : n <= 0 \/ first[devs] <= n
        BY <1>1, <2>2 DEF Follows
      <3>2. ASSUME NEW f \in live, \A n \in live : n <= 0 \/ f <= n, f # Null
            PROVE  \A n \in live : ~Before(n, f)
        BY <1>1, <3>2 DEF Before
      <3> QED
        BY <2>2, <3>1, <3>2
    <2> QED
      BY <2>1, <2>2
  <1> QED
    BY <1>2 DEF Passed

LEMMA StartNext ==
  ASSUME DupsInv, Start
  PROVE  DupsInv'
  <1>1. first[devs] \in Entries \cup {Null}
    BY DEF DupsInv, Shape, After, Follows
  <1>2. /\ Shape' /\ (\A n \in Entries : Kept(n))' /\ next'[devs] = first[devs]
        /\ Entries' = Entries
    BY <1>1, CursorMoves DEF Start, list_reset, heap, loop, entries
  <1>3. Locals'
    BY <1>1, <1>2 DEF DupsInv, Locals, Start, entries, locals
  <1>4. Passed(first[devs]) = {}
    BY FirstPassed DEF DupsInv
  <1>5. Walking'
    <2>1. Passed(next[devs])' = {}
      BY <1>2, <1>4 DEF Passed, Before, Start, list_reset, heap
    <2> QED
      BY <2>1 DEF Walking, AtOuter, Distinct, Start
  <1> QED
    BY <1>2, <1>3, <1>5 DEF DupsInv

LEMMA PassedAre ==
  ASSUME Shape, NEW n \in live, NEW c
  PROVE  /\ After(c, n) => Passed(c) = UpTo(n) /\ c \in live \cup {Null}
         /\ Passed(n) = Under(n) /\ UpTo(n) = Under(n) \cup {n}
         /\ After(nxt[n], n)
  <1>1. live \subseteq Nat \ {0} /\ Null \notin live
    BY NodesAreNumbers DEF Shape
  <1>2. ASSUME After(c, n) PROVE Passed(c) = UpTo(n) /\ c \in live \cup {Null}
    <2>1. CASE c = Null
      BY <1>2, <2>1 DEF After, Follows, Passed, Before, UpTo
    <2>2. CASE c # Null
      <3>1. c \in live /\ n < c /\ \A m \in live : m <= n \/ c <= m
        BY <1>2, <2>2 DEF After, Follows
      <3>2. \A m \in live : m < c <=> m <= n
        BY <1>1, <3>1
      <3> QED
        BY <2>2, <3>1, <3>2 DEF Passed, Before, UpTo
    <2> QED
      BY <2>1, <2>2
  <1>3. Passed(n) = Under(n)
    BY <1>1 DEF Passed, Before, Under
  <1>4. UpTo(n) = Under(n) \cup {n}
    <2>1. \A m \in live : m <= n <=> m < n \/ m = n
      BY <1>1
    <2> QED
      BY <2>1 DEF UpTo, Under
  <1> QED
    BY <1>2, <1>3, <1>4 DEF Shape

LEMMA DistinctAdd ==
  ASSUME NEW S, Distinct(S), NEW n, \A m \in S : id[m] # id[n] \/ Skipped(n)
  PROVE  Distinct(S \cup {n})
  BY DEF Distinct, Skipped

LEMMA OuterNextNext ==
  ASSUME DupsInv, OuterNext
  PROVE  DupsInv'
  <1>1. PICK c \in live : c = next[devs]
    BY DEF OuterNext
  <1>0. AtOuter
    BY DEF DupsInv, Walking, OuterNext
  <1>2. /\ Shape /\ Locals /\ Distinct(Passed(c)) /\ live \subseteq Entries
        /\ After(nxt[c], c)
    BY <1>0, <1>1, PassedAre DEF DupsInv, AtOuter, Shape
  <1>3. /\ Passed(nxt[c]) = UpTo(c) /\ Passed(c) = Under(c) /\ UpTo(c) = Under(c) \cup {c}
        /\ nxt[c] \in Entries \cup {Null}
    BY <1>2, PassedAre
  <1>4. /\ UNCHANGED <<made, op, first, nxt, prev, live, program, id, vol, xp2, save_next>>
        /\ next' = [next EXCEPT ![devs] = nxt[c]]
        /\ xp' = c /\ pc' = IF Skipped(c) THEN "outer" ELSE "save"
    BY <1>1 DEF OuterNext, list_get_next, heap, loop, entries
  <1>5. /\ Shape' /\ (\A n \in Entries : Kept(n))' /\ next'[devs] = nxt[c]
        /\ Entries' = Entries
    BY <1>3, <1>4, CursorMoves
  <1>6. Locals'
    BY <1>2, <1>3, <1>4, <1>5 DEF Locals
  <1>7. ASSUME Skipped(c) PROVE Walking'
    <2>1. Distinct(UpTo(c))
      BY <1>2, <1>3, <1>7, DistinctAdd
    <2>2. Passed(next[devs])' = UpTo(c)
      BY <1>3, <1>4, <1>5 DEF Passed, Before
    <2>3. Distinct(Passed(next[devs]))'
      BY <1>4, <2>1, <2>2 DEF Distinct, Skipped
    <2> QED
      BY <1>4, <1>7, <2>3 DEF Walking, AtOuter
  <1>8. ASSUME ~Skipped(c) PROVE Walking'
    <2>1. Under(xp)' = Under(c)
      BY <1>4 DEF Under
    <2>2. Distinct(Under(xp))' /\ ~Skipped(xp)'
      BY <1>2, <1>3, <1>4, <1>8, <2>1 DEF Distinct, Skipped
    <2>3. xp' \in live' /\ xp' \in Entries' /\ After(next[devs], xp)'
      BY <1>2, <1>4, <1>5 DEF After, Follows
    <2> QED
      BY <1>4, <1>8, <2>2, <2>3 DEF Walking, WithXp, AtSave
  <1> QED
    BY <1>5, <1>6, <1>7, <1>8 DEF DupsInv

LEMMA OuterStops ==
  ASSUME DupsInv, OuterEnds \/ OuterUndefined
  PROVE  DupsInv'
  <1>1. UNCHANGED <<vars, entries, locals>>
    BY DEF OuterEnds, OuterUndefined
  <1>2. Shape' /\ (\A n \in Entries : Kept(n))'
    BY <1>1, SameShape, SameKept DEF DupsInv, Shape, vars, headers, heap, loop, entries
  <1>3. Locals'
    BY <1>1 DEF DupsInv, Locals, vars, headers, entries, locals, Entries
  <1>4. ASSUME OuterUndefined PROVE Walking'
    BY <1>4 DEF OuterUndefined, Walking
  <1>5. ASSUME OuterEnds PROVE Walking'
    <2>0. AtOuter
      BY <1>5 DEF DupsInv, Walking, OuterEnds
    <2>1. Passed(next[devs]) = live /\ Distinct(Passed(next[devs]))
      BY <1>5, <2>0 DEF OuterEnds, AtOuter, Passed, Before
    <2>2. Distinct(live)'
      BY <1>1, <2>1 DEF Distinct, Skipped, vars, heap, entries
    <2> QED
      BY <1>5, <2>2 DEF OuterEnds, Walking, AtDone
  <1> QED
    BY <1>2, <1>3, <1>4, <1>5 DEF DupsInv

LEMMA SaveNext ==
  ASSUME DupsInv, SaveAndReset
  PROVE  DupsInv'
  <1>1. Shape /\ Locals /\ WithXp /\ xp \in live /\ After(next[devs], xp)
    BY DEF DupsInv, Walking, AtSave, SaveAndReset
  <1>2. first[devs] \in live \cup {Null} /\ live \subseteq Entries
    BY <1>1 DEF Shape, After, Follows
  <1>3. /\ UNCHANGED <<made, op, first, nxt, prev, live, program, id, vol, xp, xp2>>
        /\ next' = [next EXCEPT ![devs] = first[devs]]
        /\ save_next' = next[devs] /\ pc' = "inner"
    BY DEF SaveAndReset, list_reset, heap, loop, entries
  <1>4. /\ Shape' /\ (\A n \in Entries : Kept(n))' /\ next'[devs] = first[devs]
        /\ Entries' = Entries
    BY <1>2, <1>3, CursorMoves
  <1>5. Locals'
    BY <1>1, <1>2, <1>3, <1>4 DEF Locals
  <1>6. WithXp'
    BY <1>1, <1>3, <1>4 DEF WithXp, Distinct, Under, Skipped
  <1>7. WithSaved'
    <2>1. Passed(next[devs]) = UpTo(xp)
      BY <1>1, PassedAre
    <2>2. Passed(save_next)' = UpTo(xp)
      BY <1>3, <2>1 DEF Passed, Before
    <2> QED
      BY <1>3, <2>2 DEF WithSaved, UpTo
  <1>8. InWalk' /\ AtInner'
    <2>1. Passed(next[devs])' = {}
      BY <1>1, <1>3, <1>4, FirstPassed DEF Passed, Before
    <2> QED
      BY <1>1, <1>2, <1>3, <1>4, <2>1 DEF InWalk, AtInner
  <1> QED
    BY <1>3, <1>4, <1>5, <1>6, <1>7, <1>8 DEF DupsInv, Walking

LEMMA InnerNextNext ==
  ASSUME DupsInv, InnerNext
  PROVE  DupsInv'
  <1>1. Shape /\ Locals /\ WithXp /\ WithSaved /\ InWalk /\ AtInner
    BY DEF DupsInv, Walking, InnerNext
  <1>2. PICK c \in live : c = next[devs]
    BY <1>1 DEF InnerNext, AtInner
  <1>3. /\ UNCHANGED <<made, op, first, nxt, prev, live, program, id, vol, xp, save_next>>
        /\ next' = [next EXCEPT ![devs] = nxt[c]]
        /\ xp2' = c /\ pc' = IF Duplicate(c) THEN "delete" ELSE "inner"
    BY <1>2 DEF InnerNext, list_get_next, heap, loop, entries
  <1>4. /\ After(nxt[c], c) /\ nxt[c] \in live \cup {Null} /\ live \subseteq Entries
        /\ Passed(nxt[c]) = Under(c) \cup {c} /\ Passed(c) = Under(c)
    BY <1>1, PassedAre DEF Shape
  <1>5. /\ Shape' /\ (\A n \in Entries : Kept(n))' /\ next'[devs] = nxt[c]
        /\ Entries' = Entries
    BY <1>3, <1>4, CursorMoves
  <1>6. Locals'
    BY <1>1, <1>3, <1>4, <1>5 DEF Locals
  <1>7. WithXp' /\ WithSaved' /\ InWalk'
    BY <1>1, <1>3, <1>5 DEF WithXp, WithSaved, InWalk, Distinct, Under, Skipped, Passed, Before
  <1>8. xp \in live => \A n \in Under(c) : ~Duplicate(n)
    BY <1>1, <1>2, <1>4 DEF AtInner
  <1>9. ASSUME Duplicate(c) PROVE Walking'
    <2>1. xp2' \in live' /\ Duplicate(xp2)' /\ After(next[devs], xp2)'
      BY <1>3, <1>4, <1>5, <1>9 DEF Duplicate, Skipped, After, Follows
    <2>2. (xp \in live => \A n \in Under(xp2) : ~Duplicate(n))'
      BY <1>3, <1>8 DEF Under, Duplicate, Skipped
    <2> QED
      BY <1>3, <1>7, <1>9, <2>1, <2>2 DEF Walking, AtDelete
  <1>10. ASSUME ~Duplicate(c) PROVE Walking'
    <2>1. Passed(next[devs])' = Under(c) \cup {c}
      BY <1>3, <1>4, <1>5 DEF Passed, Before
    <2>2. (xp \in live => \A n \in Passed(next[devs]) : ~Duplicate(n))'
      BY <1>3, <1>8, <1>10, <2>1 DEF Duplicate, Skipped
    <2> QED
      BY <1>3, <1>4, <1>5, <1>7, <1>10, <2>2 DEF Walking, AtInner
  <1> QED
    BY <1>5, <1>6, <1>9, <1>10 DEF DupsInv

LEMMA InnerEndsNext ==
  ASSUME DupsInv, InnerEnds
  PROVE  DupsInv'
  <1>1. Shape /\ Locals /\ WithXp /\ WithSaved /\ AtInner
    BY DEF DupsInv, Walking, InnerEnds
  <1>2. UNCHANGED <<vars, entries, locals>> /\ pc' = "restore" /\ next[devs] = Null
    BY DEF InnerEnds
  <1>3. Shape' /\ (\A n \in Entries : Kept(n))'
    BY <1>2, SameShape, SameKept DEF DupsInv, Shape, vars, headers, heap, loop, entries
  <1>4. Locals' /\ WithXp' /\ WithSaved'
    BY <1>1, <1>2 DEF Locals, WithXp, WithSaved, Distinct, Under, Passed, Before, Skipped,
                      vars, headers, heap, entries, locals, Entries
  <1>5. Distinct(UpTo(xp))
    <2>1. CASE xp \in live
      <3>1. UpTo(xp) = Under(xp) \cup {xp}
        BY <1>1, <2>1, PassedAre
      <3>2. \A n \in Under(xp) : n # xp /\ n \in live
        BY <1>1, <2>1, NodesAreNumbers DEF Under, Shape
      <3>3. \A n \in Under(xp) : id[n] # id[xp]
        BY <1>1, <1>2, <2>1, <3>2 DEF AtInner, Passed, Before, Duplicate, WithXp, Skipped
      <3> QED
        BY <1>1, <3>1, <3>3, DistinctAdd DEF WithXp
    <2>2. CASE xp \notin live
      <3>1. live \subseteq Nat /\ xp \in Nat
        BY <1>1, NodesAreNumbers DEF WithXp, Shape
      <3>2. \A n \in live : n <= xp => n < xp
        BY <2>2, <3>1
      <3> QED
        BY <1>1, <3>2 DEF UpTo, Under, Distinct, WithXp
    <2> QED
      BY <2>1, <2>2
  <1>6. AtRestore'
    BY <1>2, <1>5 DEF AtRestore, Distinct, UpTo, Skipped, vars, heap, entries, locals
  <1> QED
    BY <1>2, <1>3, <1>4, <1>6 DEF DupsInv, Walking

LEMMA RestoreNext ==
  ASSUME DupsInv, Restore
  PROVE  DupsInv'
  <1>1. Shape /\ Locals /\ WithSaved /\ AtRestore
    BY DEF DupsInv, Walking, Restore
  <1>2. /\ UNCHANGED <<made, op, first, nxt, prev, live, program, id, vol, locals>>
        /\ next' = [next EXCEPT ![devs] = save_next] /\ pc' = "outer"
    BY DEF Restore, heap, loop, entries
  <1>3. /\ Shape' /\ (\A n \in Entries : Kept(n))' /\ next'[devs] = save_next
        /\ Entries' = Entries
    BY <1>1, <1>2, CursorMoves DEF Locals
  <1>4. Locals'
    BY <1>1, <1>2, <1>3 DEF Locals, locals
  <1>5. AtOuter'
    <2>1. Passed(save_next) \subseteq UpTo(xp)
      BY <1>1 DEF WithSaved, UpTo, Passed
    <2>2. Distinct(Passed(save_next))
      BY <1>1, <2>1 DEF AtRestore, Distinct
    <2>3. Passed(next[devs])' = Passed(save_next)
      BY <1>2, <1>3 DEF Passed, Before
    <2> QED
      BY <1>2, <2>2, <2>3 DEF AtOuter, Distinct, Skipped
  <1> QED
    BY <1>2, <1>3, <1>4, <1>5 DEF DupsInv, Walking

-----------------------------------------------------------------------------
(* The step that deletes: xp2 is live and of the device of xp, so that of    *)
(* this device one is left whichever of them goes.                           *)

LEMMA DeleteNothing ==
  ASSUME DupsInv, Delete, Victim \notin live
  PROVE  DupsInv'
  <1>1. Shape /\ Locals /\ WithXp /\ WithSaved /\ InWalk /\ AtDelete
    BY DEF DupsInv, Walking, Delete
  <1>2. Victim = xp /\ xp \notin live
    BY <1>1 DEF Victim, AtDelete
  <1>3. pc' = "inner"
    BY <1>1, <1>2 DEF Delete, InWalk, Locals
  <1>4. UNCHANGED <<vars, entries, locals>>
    BY <1>1, NodesAreLive DEF Delete, list_delete
  <1>5. Shape' /\ (\A n \in Entries : Kept(n))'
    BY <1>4, SameShape, SameKept DEF DupsInv, Shape, vars, headers, heap, loop, entries
  <1>6. Locals' /\ WithXp' /\ WithSaved' /\ InWalk'
    BY <1>1, <1>4 DEF Locals, WithXp, WithSaved, InWalk, Distinct, Under, Passed, Before, Skipped,
                      vars, headers, heap, entries, locals, Entries
  <1>7. next[devs] \in live \cup {Null}
    BY <1>1, PassedAre DEF AtDelete
  <1>8. AtInner'
    BY <1>2, <1>4, <1>7 DEF AtInner, vars, headers, heap, locals
  <1> QED
    BY <1>3, <1>5, <1>6, <1>8 DEF DupsInv, Walking

LEMMA DeleteOne ==
  ASSUME DupsInv, Delete, Victim \in live
  PROVE  DupsInv'
  <1>1. Shape /\ Locals /\ WithXp /\ WithSaved /\ InWalk /\ AtDelete
    BY DEF DupsInv, Walking, Delete
  <1>2. PICK v \in live : v = Victim
    OBVIOUS
  <1>3. /\ list_delete(devs, v) /\ UNCHANGED <<entries, locals>>
        /\ pc' = IF program = "xplist" THEN "restore" ELSE "inner"
    BY <1>1, <1>2, NodesAreLive DEF Delete
  <1>4. UNCHANGED <<program, id, vol, xp, xp2, save_next>>
    BY <1>3 DEF entries, locals
  <1>5. /\ Shape' /\ live' = live \ {v} /\ Entries' = Entries
        /\ next'[devs] = IF next[devs] = v THEN nxt[v] ELSE next[devs]
    BY <1>1, <1>3, <1>4, DeletedShape DEF Entries
  <1>6. /\ xp2 \in live /\ xp2 # xp /\ id[xp2] = id[xp] /\ ~Skipped(xp2)
        /\ xp \in Entries /\ ~Skipped(xp) /\ live \subseteq Entries
        /\ vol \in [Entries -> BOOLEAN] /\ live \subseteq Nat /\ xp \in Nat
    BY <1>1, NodesAreNumbers DEF AtDelete, Duplicate, WithXp, Shape, Locals
  <1>7. /\ After(next[devs], xp2) /\ After(nxt[v], v)
        /\ next[devs] \in live \cup {Null} /\ nxt[v] \in live \cup {Null}
    BY <1>1, PassedAre DEF AtDelete, Shape
  <1>8. nxt[v] # v /\ next[devs] # xp2
    <2>1. ASSUME NEW n \in live, After(n, n) PROVE FALSE
      <3>1. n # Null /\ n \in Nat
        BY <1>1, <1>6, NodesAreNumbers DEF Shape
      <3> QED
        BY <2>1, <3>1 DEF After, Follows
    <2> QED
      BY <1>6, <1>7, <2>1
  <1>9. next'[devs] \in live' \cup {Null}
    BY <1>5, <1>7, <1>8
  <1>10. (\A n \in Entries : Kept(n))'
    <2> SUFFICES ASSUME NEW n \in Entries
                 PROVE  /\ \E m \in live \ {v} : id[m] = id[n] /\ (vol[n] => vol[m])
                        /\ Skipped(n) => n \in live \ {v}
      BY <1>4, <1>5 DEF Kept, Skipped
    <2>1. PICK m \in live : id[m] = id[n] /\ (vol[n] => vol[m])
      BY DEF DupsInv, Kept
    <2>2. Skipped(n) => n \in live
      BY DEF DupsInv, Kept
    <2>3. v \in {xp, xp2}
      BY <1>2 DEF Victim
    <2>4. Skipped(n) => n # v
      BY <1>6, <2>3
    <2>5. CASE m # v
      BY <2>1, <2>2, <2>4, <2>5
    <2>6. CASE m = v /\ v = xp
      <3>1. vol[xp] => vol[xp2]
        BY <1>1, <1>2, <1>6, <2>6 DEF Victim, Locals
      <3> QED
        BY <1>6, <2>1, <2>2, <2>4, <2>6, <3>1
    <2>7. CASE m = v /\ v = xp2
      <3>1. vol[xp] /\ (program = "luninfo" => ~vol[xp2])
        BY <1>2, <1>6, <2>7 DEF Victim
      <3>2. CASE program = "xplist"
        BY <1>1, <1>6, <2>1, <2>2, <2>4, <2>7, <3>1, <3>2 DEF InWalk
      <3>3. CASE program = "luninfo"
        <4>1. PICK k \in live : id[k] = id[xp] /\ (vol[xp] => vol[k])
          BY <1>6 DEF DupsInv, Kept
        <4> QED
          BY <1>6, <2>1, <2>2, <2>4, <2>7, <3>1, <3>3, <4>1
      <3> QED
        BY <1>1, <3>2, <3>3 DEF Locals
    <2> QED
      BY <2>3, <2>5, <2>6, <2>7
  <1>11. Locals'
    BY <1>1, <1>4, <1>5, <1>6, <1>9 DEF Locals
  <1>12. WithXp' /\ WithSaved'
    BY <1>1, <1>4, <1>5 DEF WithXp, WithSaved, Distinct, Under, Passed, Before, Skipped
  <1>13. ASSUME program = "xplist" PROVE Walking'
    <2>1. xp \in live
      BY <1>1, <1>13 DEF InWalk
    <2>2. \A n \in Under(xp) : n # v /\ v = xp2 => id[n] # id[xp]
      <3> SUFFICES ASSUME NEW n \in Under(xp), n # xp2 PROVE id[n] # id[xp]
        OBVIOUS
      <3>1. n \in live /\ n < xp /\ n # xp
        BY <1>6 DEF Under
      <3>2. CASE n < xp2
        BY <1>1, <1>6, <2>1, <3>1, <3>2 DEF AtDelete, Under, Duplicate, Skipped
      <3>3. CASE xp2 < n
        <4>1. xp2 \in Under(xp)
          BY <1>6, <3>1, <3>3 DEF Under
        <4> QED
          BY <1>1, <1>6, <4>1 DEF WithXp, Distinct
      <3> QED
        BY <1>6, <3>1, <3>2, <3>3
    <2>3. Distinct(UpTo(xp) \ {v})
      <3>1. UpTo(xp) = Under(xp) \cup {xp}
        BY <1>1, <2>1, PassedAre
      <3>2. v \in {xp, xp2}
        BY <1>2 DEF Victim
      <3>3. Distinct(Under(xp) \ {v})
        BY <1>1 DEF WithXp, Distinct
      <3>4. CASE v = xp
        BY <3>1, <3>3, <3>4 DEF Distinct
      <3>5. CASE v = xp2
        <4>1. Distinct((Under(xp) \ {v}) \cup {xp})
          BY <2>2, <3>3, <3>5, DistinctAdd
        <4> QED
          BY <3>1, <4>1 DEF Distinct
      <3> QED
        BY <3>2, <3>4, <3>5
    <2>4. UpTo(xp)' = UpTo(xp) \ {v}
      BY <1>4, <1>5 DEF UpTo
    <2>5. AtRestore'
      BY <1>4, <2>3, <2>4 DEF AtRestore, Distinct, Skipped
    <2> QED
      BY <1>3, <1>12, <1>13, <2>5 DEF Walking
  <1>14. ASSUME program = "luninfo" PROVE Walking'
    <2>1. ASSUME xp \in live' PROVE (\A n \in Passed(next[devs]) : ~Duplicate(n))'
      <3>1. v = xp2
        BY <1>2, <1>5, <2>1 DEF Victim
      <3>2. next'[devs] = next[devs]
        BY <1>5, <1>8, <3>1
      <3>3. Passed(next[devs]) = Under(xp2) \cup {xp2}
        BY <1>1, <1>6, <1>7, PassedAre
      <3>4. Passed(next[devs])' \subseteq Under(xp2)
        BY <1>5, <3>1, <3>2, <3>3 DEF Passed, Before
      <3>5. \A n \in Under(xp2) : ~Duplicate(n)
        BY <1>1, <1>5, <2>1 DEF AtDelete
      <3> QED
        BY <1>4, <3>4, <3>5 DEF Duplicate, Skipped
    <2>2. AtInner' /\ InWalk'
      BY <1>4, <1>9, <1>14, <2>1 DEF AtInner, InWalk
    <2> QED
      BY <1>3, <1>12, <1>14, <2>2 DEF Walking
  <1> QED
    BY <1>1, <1>5, <1>10, <1>11, <1>13, <1>14 DEF DupsInv, Locals

-----------------------------------------------------------------------------
(* The list it begins with.                                                  *)

LEMMA DupsBegin == DupsInit => DupsInv
  <1> SUFFICES ASSUME DupsInit PROVE DupsInv
    OBVIOUS
  <1>1. PICK count \in 0..Cardinality(Nodes) :
          /\ made = {devs} /\ live = 1..count
          /\ first = [l \in Lists |-> IF count = 0 THEN Null ELSE 1] /\ next = first
          /\ prev = [n \in Nodes |-> IF n \in 2..count THEN n - 1 ELSE Null]
          /\ nxt = [n \in Nodes |-> IF n \in 1..(count - 1) THEN n + 1 ELSE Null]
          /\ op = "none" /\ program \in {"xplist", "luninfo"}
          /\ id \in [live -> Ids] /\ vol \in [live -> BOOLEAN]
          /\ pc = "start" /\ xp = Null /\ xp2 = Null /\ save_next = Null
    BY DEF DupsInit
  <1>2. /\ count \in Nat /\ devs \in Lists /\ Nodes = 1..Cardinality(Nodes)
        /\ Cardinality(Nodes) \in Nat /\ Null \notin Nodes
    BY ListAssumption, FS_CardinalityType, RemoveDupsAssumption
  <1>3. live \subseteq Nodes /\ Entries = live
    BY <1>1, <1>2 DEF Entries
  <1> DEFINE s == [i \in 1..count |-> i]
  <1>4. Chain(count, s, first[devs], nxt, prev)
    <2>1. s \in [1..count -> Nodes] /\ \A i \in 1..count : s[i] = i
      BY <1>1, <1>3
    <2>2. first[devs] = IF count = 0 THEN Null ELSE 1
      BY <1>1, <1>2
    <2>3. \A i \in 1..count : /\ nxt[i] = IF i = count THEN Null ELSE i + 1
                              /\ prev[i] = IF i = 1 THEN Null ELSE i - 1
      BY <1>1, <1>2
    <2> HIDE DEF s
    <2>4. first[devs] = IF count = 0 THEN Null ELSE s[1]
      BY <1>2, <2>1, <2>2
    <2>5. \A i \in 1..count : /\ nxt[s[i]] = IF i = count THEN Null ELSE s[i + 1]
                              /\ prev[s[i]] = IF i = 1 THEN Null ELSE s[i - 1]
      <3> SUFFICES ASSUME NEW i \in 1..count
                   PROVE  /\ nxt[s[i]] = IF i = count THEN Null ELSE s[i + 1]
                          /\ prev[s[i]] = IF i = 1 THEN Null ELSE s[i - 1]
        OBVIOUS
      <3>1. i # count => i + 1 \in 1..count /\ s[i + 1] = i + 1
        BY <1>2, <2>1
      <3>2. i # 1 => i - 1 \in 1..count /\ s[i - 1] = i - 1
        BY <1>2, <2>1
      <3> QED
        BY <2>1, <2>3, <3>1, <3>2
    <2>6. \A i, j \in 1..count : s[i] = s[j] => i = j
      BY <2>1
    <2> QED
      BY <1>2, <2>1, <2>4, <2>5, <2>6 DEF Chain
  <1>5. Linked(s, first[devs], nxt, prev) /\ Members(s) = live
    <2>1. \A i \in 1..count : s[i] = i
      OBVIOUS
    <2> HIDE DEF s
    <2>2. Linked(s, first[devs], nxt, prev) /\ Members(s) = {s[i] : i \in 1..count}
      BY <1>4, ChainIsLinked
    <2> QED
      BY <1>1, <2>1, <2>2
  <1>6. Path = s
    BY <1>5, WalkOfLinked DEF Path
  <1>7. first \in [Lists -> Pointer] /\ next \in [Lists -> Pointer]
    BY <1>1, <1>2, <1>3 DEF Pointer
  <1>8. After(first[devs], 0) /\ \A n \in live : After(nxt[n], n)
    <2>1. After(first[devs], 0)
      BY <1>1, <1>2 DEF After, Follows
    <2>2. ASSUME NEW n \in live PROVE After(nxt[n], n)
      <3>1. nxt[n] = IF n = count THEN Null ELSE n + 1
        BY <1>1, <1>2
      <3> QED
        BY <1>1, <1>2, <3>1 DEF After, Follows
    <2> QED
      BY <2>1, <2>2
  <1>9. Shape
    BY <1>1, <1>3, <1>5, <1>6, <1>7, <1>8 DEF Shape
  <1>10. Locals
    BY <1>1, <1>2, <1>3 DEF Locals
  <1>11. \A n \in Entries : Kept(n)
    BY <1>3 DEF Kept
  <1> QED
    BY <1>1, <1>9, <1>10, <1>11 DEF DupsInv, Walking

-----------------------------------------------------------------------------

LEMMA DupsStep == DupsInv /\ [DupsNext]_dvars => DupsInv'
  <1> SUFFICES ASSUME DupsInv, [DupsNext]_dvars PROVE DupsInv'
    OBVIOUS
  <1>1. CASE UNCHANGED dvars
    <2>1. UNCHANGED <<vars, entries, pc, locals>>
      BY <1>1 DEF dvars
    <2>2. Shape' /\ (\A n \in Entries : Kept(n))'
      BY <2>1, SameShape, SameKept DEF DupsInv, Shape, vars, headers, heap, loop, entries
    <2>3. Locals' /\ Walking'
      BY <2>1 DEF DupsInv, Locals, Walking, AtOuter, WithXp, AtSave, WithSaved, InWalk, AtInner,
                  AtDelete, AtRestore, AtDone, Distinct, Under, UpTo, Passed, Before, Skipped,
                  Duplicate, After, Follows, vars, headers, heap, entries, locals, Entries
    <2> QED
      BY <2>2, <2>3 DEF DupsInv
  <1>2. CASE Delete
    BY <1>2, DeleteNothing, DeleteOne
  <1>3. CASE DupsNext /\ ~Delete
    BY <1>3, StartNext, OuterNextNext, OuterStops, SaveNext, InnerNextNext, InnerEndsNext,
       RestoreNext DEF DupsNext
  <1> QED
    BY <1>1, <1>2, <1>3

(* What remove_dups of both programs keeps true of a list of any length and  *)
(* of any identities: while the inner walk has the cursor, the outer one has *)
(* passed no duplicate, and a deleted entry has a live one to stand for it.  *)
THEOREM DupsInvariance == DupsSpec => []DupsInv
  BY DupsBegin, DupsStep, PTL DEF DupsSpec

(* No device disappears from the list, and the volume name stays if one of   *)
(* its entries had any; the list stays a list, whichever walk deletes.       *)
THEOREM DevicesAreKept == DupsSpec => []DeviceKept
  <1>1. DupsInv => DeviceKept
    <2> SUFFICES ASSUME DupsInv PROVE DeviceKept
      OBVIOUS
    <2>1. live = NodesOf(devs) /\ live \subseteq Entries
      BY NodesAreLive DEF DupsInv, Shape
    <2>2. \A n \in live : prev[n] # Null => nxt[prev[n]] = n
      BY LinkFacts DEF DupsInv, Shape
    <2>3. pc = "inner" => next[devs] \in live \cup {Null}
      BY DEF DupsInv, Walking, AtInner
    <2>4. DupsTypeOK
      BY <2>1, <2>2, <2>3 DEF DupsTypeOK, DupsInv, Locals
    <2> QED
      BY <2>4 DEF DeviceKept, DupsInv, Kept
  <1> QED
    BY <1>1, DupsInvariance, PTL

(* When remove_dups returns, no device is in the list twice, though the two  *)
(* walks share a cursor and xplist deletes at most one entry in each inner   *)
(* walk: those it leaves are behind the outer walk's cursor only once.       *)
THEOREM NoneIsLeftTwice == DupsSpec => []NoDuplicateLeft
  <1>1. DupsInv => NoDuplicateLeft
    BY DEF DupsInv, Walking, AtDone, Distinct, NoDuplicateLeft
  <1> QED
    BY <1>1, DupsInvariance, PTL
-----------------------------------------------------------------------------
(* Why remove_dups ends, though both walks use the cursor of the list and    *)
(* each inner walk moves it back to the start: each step brings it nearer to *)
(* the end.  Either the outer walk has fewer entries left, which it has also *)
(* where the restored cursor is on a freed node; or it is at the same entry  *)
(* and in a later phase; or the inner walk has fewer entries ahead of it, or *)
(* as many and one deletion behind it.                                       *)

Phase == [start |-> 5, save |-> 4, inner |-> 3, delete |-> 3, restore |-> 2, outer |-> 1,
          done |-> 0, undefined |-> 0]
Left == {n \in Entries : xp # Null => xp < n}
Ahead == {n \in Entries : ~Before(n, next[devs])}

OuterDescends == Left' \subseteq Left /\ Left' # Left
InnerDescends ==
  /\ Phase[pc'] = Phase[pc] /\ Ahead' \subseteq Ahead
  /\ Ahead' # Ahead \/ (pc = "delete" /\ pc' = "inner")
StepDescends ==
  OuterDescends \/ (Left' = Left /\ (Phase[pc'] < Phase[pc] \/ InnerDescends))

(* The cursor of the outer walk, in use or saved, is behind its entry.       *)
OuterIsAhead ==
  /\ pc = "start" => xp = Null
  /\ pc \in {"outer", "save"} => xp = Null \/ Before(xp, next[devs])
  /\ pc \in {"inner", "delete", "restore"} => Before(xp, save_next)

MeasureInv == DupsInv /\ OuterIsAhead
LEMMA MeasureStutter ==
  ASSUME MeasureInv, UNCHANGED dvars
  PROVE  MeasureInv'
  <1>1. DupsInv'
    BY DupsStep DEF MeasureInv
  <1>2. UNCHANGED <<next, pc, xp, save_next>>
    BY DEF dvars, vars, headers, locals
  <1> QED
    BY <1>1, <1>2 DEF MeasureInv, OuterIsAhead, Before

(* In the order of the nodes: what is ahead of the entry after n.            *)
LEMMA AheadOfNext ==
  ASSUME Shape, NEW n \in live
  PROVE  /\ nxt[n] # n /\ Before(n, nxt[n]) /\ n \in Entries /\ n \in Nat /\ n # Null
         /\ \A m \in Entries : ~Before(m, nxt[n]) => ~Before(m, n) /\ m # n
         /\ ~Before(n, n)
  <1>1. /\ After(nxt[n], n) /\ live \subseteq Entries /\ Entries \subseteq Nat /\ Null \notin Entries
    BY NodesAreNumbers DEF Shape
  <1>2. nxt[n] # Null => nxt[n] \in Nat /\ n < nxt[n]
    BY <1>1 DEF After, Follows
  <1>3. n \in Nat /\ n \in Entries /\ n # Null
    BY <1>1
  <1>4. \A m \in Entries : ~Before(m, nxt[n]) => ~Before(m, n) /\ m # n
    BY <1>1, <1>2, <1>3 DEF Before
  <1> QED
    BY <1>2, <1>3, <1>4 DEF Before

LEMMA OuterNextDescends ==
  ASSUME MeasureInv, OuterNext
  PROVE  OuterDescends /\ OuterIsAhead'
  <1>1. PICK c \in live : c = next[devs]
    BY DEF OuterNext
  <1>2. /\ Shape /\ Locals /\ next \in [Lists -> Pointer] /\ devs \in Lists
        /\ Entries \subseteq Nat /\ Null \notin Entries
    BY NodesAreNumbers DEF MeasureInv, DupsInv, Shape
  <1>3. /\ xp' = c /\ next'[devs] = nxt[c] /\ Entries' = Entries
        /\ pc = "outer" /\ pc' \in {"outer", "save"}
    BY <1>1, <1>2 DEF OuterNext, list_get_next, entries, Entries
  <1>4. c \in Entries /\ c \in Nat /\ c # Null /\ Before(c, nxt[c])
    BY <1>2, AheadOfNext
  <1>5. xp = Null \/ (xp \in Nat /\ xp < c)
    BY <1>1, <1>2, <1>3, <1>4 DEF MeasureInv, OuterIsAhead, Before, Locals
  <1>6. Left' = {n \in Entries : c < n}
    BY <1>3, <1>4 DEF Left
  <1>7. c \in Left /\ c \notin Left' /\ Left' \subseteq Left
    <2>1. \A n \in Entries : n \in Nat /\ (c < n => (xp # Null => xp < n))
      BY <1>2, <1>4, <1>5
    <2>2. Left = {n \in Entries : xp # Null => xp < n} /\ (xp # Null => xp < c) /\ ~(c < c)
      BY <1>4, <1>5 DEF Left
    <2> QED
      BY ONLY <1>4, <1>6, <2>1, <2>2
  <1> QED
    BY <1>3, <1>4, <1>7 DEF OuterDescends, OuterIsAhead, Before

LEMMA PhaseDescends ==
  ASSUME MeasureInv, Start \/ OuterEnds \/ OuterUndefined \/ SaveAndReset \/ InnerEnds \/ Restore
  PROVE  Left' = Left /\ Phase[pc'] < Phase[pc] /\ OuterIsAhead'
  <1>1. UNCHANGED <<xp, id>> /\ next \in [Lists -> Pointer] /\ devs \in Lists
    BY NodesAreNumbers DEF MeasureInv, DupsInv, Shape, Start, OuterEnds, OuterUndefined, SaveAndReset,
       InnerEnds, Restore, entries, locals
  <1>2. Left' = Left
    BY <1>1 DEF Left, Entries
  <1>3. Phase[pc'] < Phase[pc]
    BY DEF Phase, Start, OuterEnds, OuterUndefined, SaveAndReset, InnerEnds, Restore
  <1>4. ASSUME Start PROVE OuterIsAhead'
    BY <1>1, <1>4 DEF Start, MeasureInv, OuterIsAhead
  <1>5. ASSUME OuterEnds \/ OuterUndefined PROVE OuterIsAhead'
    BY <1>5 DEF OuterEnds, OuterUndefined, OuterIsAhead
  <1>6. ASSUME SaveAndReset PROVE OuterIsAhead'
    <2>1. xp \in live /\ xp # Null /\ Before(xp, next[devs])
      BY <1>6, NodesAreNumbers
      DEF SaveAndReset, MeasureInv, DupsInv, Walking, AtSave, OuterIsAhead, Shape
    <2> QED
      BY <1>1, <1>6, <2>1 DEF SaveAndReset, OuterIsAhead, Before
  <1>7. ASSUME InnerEnds PROVE OuterIsAhead'
    BY <1>1, <1>7 DEF InnerEnds, MeasureInv, OuterIsAhead, Before, locals
  <1>8. ASSUME Restore PROVE OuterIsAhead'
    <2>1. next'[devs] = save_next /\ pc' = "outer" /\ pc = "restore"
      BY <1>1, <1>8 DEF Restore
    <2> QED
      BY <1>1, <2>1 DEF MeasureInv, OuterIsAhead, Before
  <1> QED
    BY <1>2, <1>3, <1>4, <1>5, <1>6, <1>7, <1>8

LEMMA InnerNextDescends ==
  ASSUME MeasureInv, InnerNext
  PROVE  Left' = Left /\ InnerDescends /\ OuterIsAhead'
  <1>1. PICK c \in live : c = next[devs]
    BY DEF InnerNext, MeasureInv, DupsInv, Walking, AtInner
  <1>2. Shape /\ next \in [Lists -> Pointer] /\ devs \in Lists
    BY NodesAreNumbers DEF MeasureInv, DupsInv, Shape
  <1>3. /\ next'[devs] = nxt[c] /\ Entries' = Entries /\ UNCHANGED <<xp, save_next>>
        /\ pc = "inner" /\ pc' \in {"inner", "delete"}
    BY <1>1, <1>2 DEF InnerNext, list_get_next, entries, Entries
  <1>4. Left' = Left
    BY <1>3 DEF Left
  <1>5. Ahead = {n \in Entries : ~Before(n, c)} /\ Ahead' = {n \in Entries : ~Before(n, nxt[c])}
    BY <1>1, <1>3 DEF Ahead, Before
  <1>6. c \in Ahead /\ c \notin Ahead' /\ Ahead' \subseteq Ahead
    BY <1>2, <1>5, AheadOfNext
  <1> QED
    BY <1>3, <1>4, <1>6 DEF InnerDescends, Phase, MeasureInv, OuterIsAhead, Before

LEMMA DeleteDescends ==
  ASSUME MeasureInv, Delete
  PROVE  /\ Left' = Left /\ OuterIsAhead'
         /\ Phase[pc'] < Phase[pc] \/ InnerDescends
  <1>1. Shape /\ UNCHANGED <<xp, save_next, id>> /\ pc = "delete" /\ pc' \in {"restore", "inner"}
    BY DEF MeasureInv, DupsInv, Delete, entries, locals
  <1>2. Left' = Left /\ OuterIsAhead' /\ Entries' = Entries
    BY <1>1 DEF Left, Entries, MeasureInv, OuterIsAhead, Before
  <1>3. CASE pc' = "restore"
    BY <1>1, <1>2, <1>3 DEF Phase
  <1>4. CASE pc' = "inner"
    <2>1. CASE Victim \notin live
      <3>1. next' = next
        BY <1>1, <2>1, NodesAreLive DEF Delete, vars, headers
      <3> QED
        BY <1>1, <1>2, <1>4, <3>1 DEF InnerDescends, Phase, Ahead, Before
    <2>2. CASE Victim \in live
      <3>1. PICK v \in live : v = Victim
        BY <2>2
      <3>2. list_delete(devs, v)
        BY <1>1, <3>1, NodesAreLive DEF Delete
      <3>3. next'[devs] = IF next[devs] = v THEN nxt[v] ELSE next[devs]
        BY <1>1, <3>2, DeletedShape
      <3>4. Ahead' \subseteq Ahead
        BY <1>1, <1>2, <3>3, AheadOfNext DEF Ahead, Before
      <3> QED
        BY <1>1, <1>2, <1>4, <3>4 DEF InnerDescends, Phase
    <2> QED
      BY <2>1, <2>2
  <1> QED
    BY <1>1, <1>3, <1>4

(* For lists of any length and any identities, each step of remove_dups is a *)
(* step towards its end: the outer walk never returns to an entry it left,   *)
(* though the inner walk moves the cursor both share and Restore may put it  *)
(* on an entry that is gone.                                                 *)
THEOREM WalksDescend == DupsSpec => [][StepDescends]_dvars
  <1>1. DupsInit => MeasureInv
    BY DupsBegin DEF MeasureInv, OuterIsAhead, DupsInit
  <1>2. ASSUME MeasureInv, DupsNext PROVE OuterIsAhead' /\ StepDescends
    BY <1>2, OuterNextDescends, PhaseDescends, InnerNextDescends, DeleteDescends
    DEF DupsNext, StepDescends
  <1>3. MeasureInv /\ [DupsNext]_dvars => MeasureInv'
    BY <1>2, MeasureStutter, DupsStep DEF MeasureInv
  <1>4. MeasureInv /\ [DupsNext]_dvars => [StepDescends]_dvars
    BY <1>2
  <1> QED
    BY <1>1, <1>3, <1>4, PTL DEF DupsSpec
=============================================================================
