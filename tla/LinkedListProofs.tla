-------------------------- MODULE LinkedListProofs --------------------------
(* Theorems about the list of src/util/list.c, for any number of lists,      *)
(* nodes and keys: no order of calls breaks a list.                          *)
EXTENDS LinkedListProps, SequenceTheorems, FiniteSetTheorems, WellFoundedInduction, TLAPS

-----------------------------------------------------------------------------
(* Induction over the naturals, stated of a set of numbers.                  *)

LEMMA LeastElement ==
  ASSUME NEW T \in SUBSET Nat, T # {}
  PROVE  \E m \in T : \A n \in T : m <= n
  <1> DEFINE Less == {r \in Nat \X Nat : r[1] < r[2]}
  <1>1. IsWellFoundedOn(Less, Nat)
    BY NatLessThanWellFounded DEF OpToRel
  <1>2. PICK m \in T : \A n \in T : <<n, m>> \notin Less
    BY ONLY <1>1, WFMin, T \in SUBSET Nat, T # {}
  <1>3. \A n \in T : <<n, m>> \notin Less => m <= n
    OBVIOUS
  <1> HIDE DEF Less
  <1> QED
    BY <1>2, <1>3

LEMMA SetInduction ==
  ASSUME NEW S, 0 \in S, \A n \in Nat : n \in S => n + 1 \in S
  PROVE  Nat \subseteq S
  <1> SUFFICES ASSUME Nat \ S # {} PROVE FALSE
    OBVIOUS
  <1>1. PICK m \in Nat \ S : \A n \in Nat \ S : m <= n
    BY LeastElement
  <1>2. m - 1 \in Nat
    BY <1>1
  <1> QED
    BY <1>1, <1>2

-----------------------------------------------------------------------------
(* What a walk along the next pointers meets.                                *)

Walk(nx, n) ==
  LET at[k \in 0..Cardinality(Nodes)] ==
        IF k = 0 THEN n ELSE LET m == at[k - 1] IN IF m = Null THEN Null ELSE nx[m]
  IN  [i \in 1..Cardinality({ k \in 0..Cardinality(Nodes) : at[k] # Null }) |-> at[i - 1]]

LEMMA FromIsWalk == \A n : From(n) = Walk(nxt, n) /\ From(n)' = Walk(nxt', n')
  BY DEF From, Walk

(* From the head of a linked sequence it meets that sequence, and all of it: *)
(* no sequence without repetition is longer than there are nodes.            *)
LEMMA WalkOfLinked ==
  ASSUME NEW s, NEW n, NEW nx, NEW pr, Linked(s, n, nx, pr)
  PROVE  Walk(nx, n) = s
  <1> DEFINE N == Cardinality(Nodes)
             Step(a) == [k \in 0..N |-> IF k = 0 THEN n
                                        ELSE LET m == a[k - 1] IN IF m = Null THEN Null ELSE nx[m]]
             at == CHOOSE a : a = Step(a)
             g == [k \in 0..N |-> IF k < Len(s) THEN s[k + 1] ELSE Null]
  <1>1. s \in Seq(Nodes) /\ Len(s) \in Nat /\ Null \notin Nodes
    BY ListAssumption DEF Linked
  <1>2. N \in Nat /\ Len(s) <= N
    <2>1. s \in Injection(1 .. Len(s), Nodes)
      BY <1>1 DEF Linked, Injection, IsInjective
    <2>2. Cardinality(1 .. Len(s)) = Len(s)
      <3>0. Len(s) \in Int
        BY <1>1
      <3>1. Cardinality(1 .. Len(s)) = IF 1 > Len(s) THEN 0 ELSE Len(s) - 1 + 1
        BY ONLY <3>0, 1 \in Int, FS_Interval
      <3> QED
        BY ONLY <1>1, <3>1
    <2> QED
      BY <2>1, <2>2, FS_Injection, FS_CardinalityType, ListAssumption
  <1> HIDE DEF N
  <1>3. g = Step(g)
    <2> SUFFICES ASSUME NEW k \in 0..N PROVE g[k] = Step(g)[k]
      OBVIOUS
    <2>1. CASE k = 0
      BY <1>1, <1>2, <2>1 DEF Linked
    <2>2. CASE k # 0
      <3>1. k - 1 \in 0..N /\ k \in Nat
        BY <1>2, <2>2
      <3>2. CASE k - 1 < Len(s)
        <4>1. k \in DOMAIN s /\ g[k - 1] = s[k] /\ s[k] # Null
          BY <1>1, <3>1, <3>2
        <4>2. nx[s[k]] = IF k = Len(s) THEN Null ELSE s[k + 1]
          BY <4>1 DEF Linked
        <4> QED
          BY <1>1, <2>2, <3>1, <4>1, <4>2
      <3>3. CASE ~(k - 1 < Len(s))
        BY <1>1, <2>2, <3>1, <3>3
      <3> QED
        BY <3>2, <3>3
    <2> QED
      BY <2>1, <2>2
  <1>4. at = Step(at)
    BY <1>3
  <1> HIDE DEF at
  <1>5. \A k \in 0..N : at[k] = g[k]
    <2> DEFINE S == { k \in Nat : k \in 0..N => at[k] = g[k] }
    <2>1. 0 \in S
      BY <1>3, <1>4, <1>2
    <2>2. ASSUME NEW k \in Nat, k \in S PROVE k + 1 \in S
      <3> SUFFICES ASSUME k + 1 \in 0..N PROVE at[k + 1] = g[k + 1]
        OBVIOUS
      <3>1. k \in 0..N /\ at[k] = g[k]
        BY <1>2, <2>2
      <3>2. Step(at)[k + 1] = Step(g)[k + 1]
        BY <3>1
      <3> QED
        BY <1>3, <1>4, <3>2
    <2> HIDE DEF S
    <2>3. Nat \subseteq S
      BY <2>1, <2>2, SetInduction
    <2>4. ASSUME NEW k \in 0..N PROVE k \in S
      BY <1>2, <2>3
    <2> QED
      BY <2>4 DEF S
  <1>6. { k \in 0..N : at[k] # Null } = 0 .. Len(s) - 1
    BY <1>1, <1>2, <1>5
  <1>7. Cardinality({ k \in 0..N : at[k] # Null }) = Len(s)
    <2>1. Len(s) - 1 \in Int
      BY <1>1
    <2>2. Cardinality(0 .. Len(s) - 1) = IF 0 > Len(s) - 1 THEN 0 ELSE Len(s) - 1 - 0 + 1
      BY ONLY <2>1, FS_Interval, 0 \in Int
    <2>3. Cardinality(0 .. Len(s) - 1) = Len(s)
      BY <1>1, <2>2
    <2> QED
      BY <1>6, <2>3
  <1>8. [i \in 1 .. Len(s) |-> at[i - 1]] = s
    <2>1. \A i \in 1 .. Len(s) : at[i - 1] = s[i]
      BY <1>1, <1>2, <1>5
    <2>2. [i \in 1 .. Len(s) |-> at[i - 1]] = [i \in 1 .. Len(s) |-> s[i]]
      BY <2>1
    <2>3. s = [i \in 1 .. Len(s) |-> s[i]]
      BY <1>1
    <2> QED
      BY <2>2, <2>3
  <1>9. Walk(nx, n) = [i \in 1 .. Cardinality({ k \in 0..N : at[k] # Null }) |-> at[i - 1]]
    BY DEF Walk, at, N
  <1> QED
    BY <1>7, <1>8, <1>9

-----------------------------------------------------------------------------
(* What the changes to the heap do to one linked sequence.                   *)

LEMMA SeqBounds ==
  ASSUME NEW m \in Nat, NEW f \in [1..m -> Nodes]
  PROVE  f \in Seq(Nodes) /\ Len(f) = m /\ DOMAIN f = 1..m /\ (f = <<>> <=> m = 0)
  OBVIOUS

LEMMA EmptyLinked == \A nx, pr : Linked(<<>>, Null, nx, pr) /\ Members(<<>>) = {}
  BY DEF Linked, Members

(* Linked without sequences: of a function on 1..m.                          *)
Chain(m, s, head, nx, pr) ==
  /\ m \in Nat /\ s \in [1..m -> Nodes]
  /\ \A i, j \in 1..m : s[i] = s[j] => i = j
  /\ head = IF m = 0 THEN Null ELSE s[1]
  /\ \A i \in 1..m : nx[s[i]] = IF i = m THEN Null ELSE s[i + 1]
  /\ \A i \in 1..m : pr[s[i]] = IF i = 1 THEN Null ELSE s[i - 1]

LEMMA LinkedIsChain ==
  ASSUME NEW s, NEW head, NEW nx, NEW pr, Linked(s, head, nx, pr)
  PROVE  Chain(Len(s), s, head, nx, pr) /\ DOMAIN s = 1..Len(s)
  <1>1. s \in Seq(Nodes) /\ Len(s) \in Nat /\ s \in [1..Len(s) -> Nodes] /\ DOMAIN s = 1..Len(s)
    BY DEF Linked
  <1>2. s = <<>> <=> Len(s) = 0
    BY <1>1, SeqBounds
  <1> QED
    BY <1>1, <1>2 DEF Linked, Chain

LEMMA ChainIsLinked ==
  ASSUME NEW m, NEW s, NEW head, NEW nx, NEW pr, Chain(m, s, head, nx, pr)
  PROVE  /\ Linked(s, head, nx, pr) /\ Len(s) = m /\ DOMAIN s = 1..m
         /\ Members(s) = { s[i] : i \in 1..m } /\ (s = <<>> <=> m = 0)
  <1>1. m \in Nat /\ s \in [1..m -> Nodes]
    BY DEF Chain
  <1>2. s \in Seq(Nodes) /\ Len(s) = m /\ DOMAIN s = 1..m /\ (s = <<>> <=> m = 0)
    BY <1>1, SeqBounds
  <1> QED
    BY <1>2 DEF Linked, Chain, Members

(* A sequence whose nodes keep their pointers stays linked.                  *)
LEMMA LinkedKept ==
  ASSUME NEW s, NEW head, NEW nx, NEW pr, NEW nx2, NEW pr2, Linked(s, head, nx, pr),
         \A n \in Members(s) : nx2[n] = nx[n] /\ pr2[n] = pr[n]
  PROVE  Linked(s, head, nx2, pr2)
  BY DEF Linked, Members

LEMMA LinkedAppend ==
  ASSUME NEW s, NEW head, NEW nx, NEW pr, Linked(s, head, nx, pr),
         NEW n \in Nodes, n \notin Members(s), nx[n] = Null, s # <<>>,
         NEW nx2, \A m \in Nodes : nx2[m] = IF m = s[Len(s)] THEN n ELSE nx[m],
         NEW pr2, \A m \in Nodes : pr2[m] = IF m = n THEN s[Len(s)] ELSE pr[m]
  PROVE  /\ Linked(Append(s, n), head, nx2, pr2)
         /\ Members(Append(s, n)) = Members(s) \cup {n}
         /\ Append(s, n) # <<>> /\ Append(s, n)[Len(Append(s, n))] = n
  <1> DEFINE t == Append(s, n)
             e == s[Len(s)]
  <1>1. s \in Seq(Nodes) /\ Len(s) \in Nat \ {0} /\ DOMAIN s = 1..Len(s) /\ e \in Nodes
    BY DEF Linked
  <1>2. /\ t \in Seq(Nodes) /\ Len(t) = Len(s) + 1 /\ DOMAIN t = 1..Len(s) + 1
        /\ \A i \in 1..Len(s) : t[i] = s[i]
        /\ t[Len(s) + 1] = n
    BY <1>1
  <1> HIDE DEF t
  <1>3. Members(t) = Members(s) \cup {n}
    BY <1>1, <1>2 DEF Members
  <1>4. \A i, j \in DOMAIN t : t[i] = t[j] => i = j
    BY <1>1, <1>2 DEF Linked, Members
  <1>5. \A i \in DOMAIN t : nx2[t[i]] = IF i = Len(t) THEN Null ELSE t[i + 1]
    <2> SUFFICES ASSUME NEW i \in DOMAIN t PROVE nx2[t[i]] = IF i = Len(t) THEN Null ELSE t[i + 1]
      OBVIOUS
    <2>1. CASE i = Len(s) + 1
      BY <1>1, <1>2, <2>1 DEF Members
    <2>2. CASE i = Len(s)
      <3>3. \A k \in Nat \ {0} : k \in 1..k /\ k # k + 1
        OBVIOUS
      <3>0. i \in 1..Len(s) /\ i # Len(t)
        BY ONLY <1>1, <1>2, <2>2, <3>3
      <3>1. t[i] = e /\ t[i + 1] = n
        BY <1>2, <2>2, <3>0
      <3>2. nx2[e] = n
        BY <1>1
      <3> QED
        BY <3>0, <3>1, <3>2
    <2>3. CASE i \in 1 .. Len(s) - 1
      <3>1. t[i] = s[i] /\ s[i] # e /\ s[i] \in Nodes /\ t[i + 1] = s[i + 1]
        BY <1>1, <1>2, <2>3 DEF Linked
      <3>2. nx2[s[i]] = nx[s[i]]
        BY <3>1
      <3> QED
        BY <1>1, <1>2, <2>3, <3>1, <3>2 DEF Linked
    <2> QED
      BY <1>1, <1>2, <2>1, <2>2, <2>3
  <1>6. \A i \in DOMAIN t : pr2[t[i]] = IF i = 1 THEN Null ELSE t[i - 1]
    <2> SUFFICES ASSUME NEW i \in DOMAIN t PROVE pr2[t[i]] = IF i = 1 THEN Null ELSE t[i - 1]
      OBVIOUS
    <2>1. CASE i = Len(s) + 1
      <3>1. i # 1 /\ i - 1 = Len(s) /\ i - 1 \in 1..Len(s) /\ t[i] = n
        BY <1>1, <1>2, <2>1
      <3>2. t[i - 1] = e
        BY <1>2, <3>1
      <3> QED
        BY <3>1, <3>2
    <2>2. CASE i \in 1 .. Len(s)
      <3>1. t[i] = s[i] /\ s[i] # n /\ s[i] \in Nodes /\ (i # 1 => t[i - 1] = s[i - 1])
        BY <1>1, <1>2, <2>2 DEF Members
      <3>2. pr2[s[i]] = pr[s[i]]
        BY <3>1
      <3> QED
        BY <1>1, <2>2, <3>1, <3>2 DEF Linked
    <2> QED
      BY <1>1, <1>2, <2>1, <2>2
  <1>7. head = t[1] /\ t # <<>>
    BY <1>1, <1>2 DEF Linked
  <1>8. Linked(t, head, nx2, pr2)
    BY <1>2, <1>4, <1>5, <1>6, <1>7 DEF Linked
  <1> QED
    BY <1>2, <1>3, <1>7, <1>8 DEF t

(* Unlink, and the freed node's fields.                                      *)
Removed(s, q) == [j \in 1 .. Len(s) - 1 |-> IF j < q THEN s[j] ELSE s[j + 1]]

LEMMA LinkedRemove ==
  ASSUME NEW s, NEW head, NEW nx, NEW pr, Linked(s, head, nx, pr),
         NEW q \in DOMAIN s, NEW n, n = s[q],
         NEW nx2, \A m \in Nodes : nx2[m] = IF m = n THEN Null
                                             ELSE IF m = pr[n] THEN nx[n] ELSE nx[m],
         NEW pr2, \A m \in Nodes : pr2[m] = IF m = n THEN Null
                                             ELSE IF m = nx[n] THEN pr[n] ELSE pr[m]
  PROVE  /\ Linked(Removed(s, q), IF head = n THEN nx[n] ELSE head, nx2, pr2)
         /\ Members(Removed(s, q)) = Members(s) \ {n}
         /\ n = s[Len(s)] => pr[n] = IF Removed(s, q) = <<>> THEN Null
                                     ELSE Removed(s, q)[Len(Removed(s, q))]
         /\ n # s[Len(s)] => Removed(s, q) # <<>>
                             /\ Removed(s, q)[Len(Removed(s, q))] = s[Len(s)]
         /\ nx[n] \in Members(Removed(s, q)) \cup {Null}
         /\ pr[n] \in Members(Removed(s, q)) \cup {Null}
  <1> DEFINE t == Removed(s, q)
  <1> SUFFICES ASSUME NEW L, L = Len(s), Chain(L, s, head, nx, pr), DOMAIN s = 1..L
               PROVE  /\ Linked(t, IF head = n THEN nx[n] ELSE head, nx2, pr2)
                      /\ Members(t) = Members(s) \ {n}
                      /\ n = s[L] => pr[n] = IF t = <<>> THEN Null ELSE t[Len(t)]
                      /\ n # s[L] => t # <<>> /\ t[Len(t)] = s[L]
                      /\ nx[n] \in Members(t) \cup {Null}
                      /\ pr[n] \in Members(t) \cup {Null}
    BY LinkedIsChain
  <1>1. /\ L \in Nat \ {0} /\ DOMAIN s = 1..L /\ q \in 1..L
        /\ \A i \in 1..L : s[i] \in Nodes /\ s[i] # Null
    BY ListAssumption DEF Chain
  <1>2. /\ \A i, j \in 1..L : s[i] = s[j] => i = j
        /\ \A i \in 1..L : nx[s[i]] = IF i = L THEN Null ELSE s[i + 1]
        /\ \A i \in 1..L : pr[s[i]] = IF i = 1 THEN Null ELSE s[i - 1]
        /\ head = s[1]
    BY <1>1 DEF Chain
  <1>3. t \in [1 .. L - 1 -> Nodes]
    BY <1>1 DEF Removed
  <1>5. \A j \in 1 .. L - 1 : t[j] = IF j < q THEN s[j] ELSE s[j + 1]
    BY <1>1 DEF Removed
  <1> HIDE DEF t
  <1>6. Members(t) = Members(s) \ {n}
    <2>1. ASSUME NEW j \in 1 .. L - 1 PROVE t[j] \in Members(s) \ {n}
      <3>1. CASE j < q
        <4>1. t[j] = s[j] /\ j \in 1..L /\ j # q
          BY <1>1, <1>5, <3>1
        <4> QED
          BY <1>1, <1>2, <4>1 DEF Members
      <3>2. CASE ~(j < q)
        <4>1. t[j] = s[j + 1] /\ j + 1 \in 1..L /\ j + 1 # q
          BY <1>1, <1>5, <3>2
        <4> QED
          BY <1>1, <1>2, <4>1 DEF Members
      <3> QED
        BY <3>1, <3>2
    <2>2. ASSUME NEW i \in 1..L, i # q PROVE \E j \in 1 .. L - 1 : t[j] = s[i]
      <3>1. CASE i < q
        BY <1>1, <1>5, <3>1
      <3>2. CASE i > q
        <4>1. i - 1 \in 1 .. L - 1 /\ t[i - 1] = s[i]
          BY <1>1, <1>5, <3>2
        <4> QED
          BY <4>1
      <3> QED
        BY <1>1, <2>2, <3>1, <3>2
    <2> QED
      <3>1. DOMAIN t = 1 .. L - 1
        BY <1>3
      <3>2. Members(t) \subseteq Members(s) \ {n}
        BY <2>1, <3>1 DEF Members
      <3>3. Members(s) \ {n} \subseteq Members(t)
        <4> SUFFICES ASSUME NEW m \in Members(s), m # n PROVE m \in Members(t)
          OBVIOUS
        <4>1. PICK i \in 1..L : m = s[i]
          BY <1>1 DEF Members
        <4>2. PICK j \in 1 .. L - 1 : t[j] = m
          BY <2>2, <4>1
        <4> QED
          BY <3>1, <4>2 DEF Members
      <3> QED
        BY <3>2, <3>3
  <1>7. \A i, j \in 1 .. L - 1 : t[i] = t[j] => i = j
    BY <1>1, <1>2, <1>5
  <1>8. (IF head = n THEN nx[n] ELSE head) = IF L - 1 = 0 THEN Null ELSE t[1]
    BY <1>1, <1>2, <1>5
  <1>9. \A i \in 1 .. L - 1 : nx2[t[i]] = IF i = L - 1 THEN Null ELSE t[i + 1]
    <2> SUFFICES ASSUME NEW i \in 1 .. L - 1 PROVE nx2[t[i]] = IF i = L - 1 THEN Null ELSE t[i + 1]
      OBVIOUS
    <2>0. \A m \in Nodes \ {n} : nx2[m] = IF m = pr[n] THEN nx[n] ELSE nx[m]
      OBVIOUS
    <2>1. CASE i < q - 1
      <3>2. i \in 1..L /\ i + 1 \in 1 .. L - 1 /\ i # q /\ i # q - 1 /\ i < q /\ i + 1 < q
        BY <1>1, <2>1
      <3>3. t[i] = s[i] /\ t[i + 1] = s[i + 1] /\ s[i] # n
        BY <1>1, <1>2, <1>5, <3>2
      <3>4. s[i] # pr[n]
        <4>1. q # 1 /\ pr[n] = s[q - 1] /\ q - 1 \in 1..L
          BY <1>1, <1>2, <3>2
        <4> QED
          BY <1>2, <3>2, <4>1
      <3>1. t[i] = s[i] /\ t[i + 1] = s[i + 1] /\ i \in 1..L /\ s[i] # n /\ s[i] # pr[n]
        BY <3>2, <3>3, <3>4
      <3> QED
        BY <1>1, <1>2, <2>0, <2>1, <3>1
    <2>2. CASE i = q - 1
      <3>1. t[i] = s[i] /\ i \in 1..L /\ s[i] # n /\ s[i] = pr[n] /\ nx2[s[i]] = nx[n]
        BY <1>1, <1>2, <1>5, <2>0, <2>2
      <3> QED
        BY <1>1, <1>2, <1>5, <2>2, <3>1
    <2>3. CASE i >= q
      <3>1. t[i] = s[i + 1] /\ i + 1 \in 1..L /\ s[i + 1] # n /\ s[i + 1] # pr[n]
        BY <1>1, <1>2, <1>5, <2>3
      <3>2. nx2[t[i]] = nx[s[i + 1]]
        BY <1>1, <2>0, <3>1
      <3> QED
        BY <1>1, <1>2, <1>5, <2>3, <3>1, <3>2
    <2> QED
      BY <1>1, <2>1, <2>2, <2>3
  <1>10. \A i \in 1 .. L - 1 : pr2[t[i]] = IF i = 1 THEN Null ELSE t[i - 1]
    <2> SUFFICES ASSUME NEW i \in 1 .. L - 1 PROVE pr2[t[i]] = IF i = 1 THEN Null ELSE t[i - 1]
      OBVIOUS
    <2>0. \A m \in Nodes \ {n} : pr2[m] = IF m = nx[n] THEN pr[n] ELSE pr[m]
      OBVIOUS
    <2>1. CASE i < q
      <3>1. t[i] = s[i] /\ i \in 1..L /\ s[i] # n /\ s[i] # nx[n] /\ (i # 1 => t[i - 1] = s[i - 1])
        BY <1>1, <1>2, <1>5, <2>1
      <3> QED
        BY <1>1, <1>2, <2>0, <2>1, <3>1
    <2>2. CASE i = q
      <3>1. t[i] = s[i + 1] /\ i + 1 \in 1..L /\ s[i + 1] # n /\ s[i + 1] = nx[n]
        BY <1>1, <1>2, <1>5, <2>2
      <3>2. pr2[t[i]] = pr[n]
        BY <1>1, <2>0, <3>1
      <3> QED
        BY <1>1, <1>2, <1>5, <2>2, <3>2
    <2>3. CASE i > q
      <3>1. t[i] = s[i + 1] /\ i + 1 \in 1..L /\ s[i + 1] # n /\ s[i + 1] # nx[n]
        BY <1>1, <1>2, <1>5, <2>3
      <3>2. pr2[t[i]] = pr[s[i + 1]]
        BY <1>1, <2>0, <3>1
      <3> QED
        BY <1>1, <1>2, <1>5, <2>3, <3>2
    <2> QED
      BY <1>1, <2>1, <2>2, <2>3
  <1>11. Chain(L - 1, t, IF head = n THEN nx[n] ELSE head, nx2, pr2)
    <2>1. L - 1 \in Nat
      BY <1>1
    <2> QED
      BY ONLY <1>3, <1>7, <1>8, <1>9, <1>10, <2>1 DEF Chain
  <1>4. Linked(t, IF head = n THEN nx[n] ELSE head, nx2, pr2) /\ Len(t) = L - 1 /\ (t = <<>> <=> L - 1 = 0)
    BY <1>11, ChainIsLinked
  <1>12. /\ q = L => pr[n] = IF L - 1 = 0 THEN Null ELSE t[L - 1]
         /\ q # L => L - 1 # 0 /\ t[L - 1] = s[L]
    BY <1>1, <1>2, <1>5
  <1>13. n = s[L] <=> q = L
    BY <1>1, <1>2
  <1>14. nx[n] \in Members(t) \cup {Null} /\ pr[n] \in Members(t) \cup {Null}
    <2>0. \A i \in 1..L : i # q => s[i] \in Members(s) \ {n}
      BY <1>1, <1>2 DEF Members
    <2>1. nx[n] # Null => nx[n] \in Members(s) \ {n}
      <3>1. q # L => q + 1 \in 1..L /\ q + 1 # q
        BY <1>1
      <3> QED
        BY <1>2, <2>0, <3>1
    <2>2. pr[n] # Null => pr[n] \in Members(s) \ {n}
      <3>1. q # 1 => q - 1 \in 1..L /\ q - 1 # q
        BY <1>1
      <3> QED
        BY <1>2, <2>0, <3>1
    <2> QED
      BY <1>6, <2>1, <2>2
  <1> QED
    BY <1>4, <1>6, <1>12, <1>13, <1>14

(* A walk that starts inside a linked sequence meets the rest of it.         *)
LEMMA WalkOfSuffix ==
  ASSUME NEW s, NEW head, NEW nx, NEW pr, Linked(s, head, nx, pr), NEW p \in DOMAIN s
  PROVE  Walk(nx, s[p]) = [i \in 1 .. Len(s) - p + 1 |-> s[p + i - 1]]
  <1> DEFINE m == Len(s) - p + 1
             u == [i \in 1..m |-> s[p + i - 1]]
             pr2 == [n \in Nodes |-> IF n = s[p] THEN Null ELSE pr[n]]
  <1> SUFFICES ASSUME NEW L, L = Len(s), Chain(L, s, head, nx, pr), p \in 1..L
               PROVE  Walk(nx, s[p]) = u
    BY LinkedIsChain
  <1>1. /\ L \in Nat /\ m = L - p + 1 /\ p \in 1..L /\ m \in Nat \ {0}
        /\ \A i \in 1..m : p + i - 1 \in 1..L
    BY DEF Chain
  <1>2. /\ \A i \in 1..L : s[i] \in Nodes
        /\ \A i, j \in 1..L : s[i] = s[j] => i = j
        /\ \A i \in 1..L : nx[s[i]] = IF i = L THEN Null ELSE s[i + 1]
        /\ \A i \in 1..L : pr[s[i]] = IF i = 1 THEN Null ELSE s[i - 1]
    BY DEF Chain
  <1> HIDE DEF m
  <1>3. u \in [1..m -> Nodes] /\ \A i \in 1..m : u[i] = s[p + i - 1]
    BY <1>1, <1>2
  <1> HIDE DEF u
  <1>4. \A i, j \in 1..m : u[i] = u[j] => i = j
    BY <1>1, <1>2, <1>3
  <1>5. \A i \in 1..m : nx[u[i]] = IF i = m THEN Null ELSE u[i + 1]
    <2> SUFFICES ASSUME NEW i \in 1..m PROVE nx[u[i]] = IF i = m THEN Null ELSE u[i + 1]
      OBVIOUS
    <2>1. CASE i = m
      BY <1>1, <1>2, <1>3, <2>1
    <2>2. CASE i # m
      <3>1. i + 1 \in 1..m /\ p + (i + 1) - 1 = (p + i - 1) + 1 /\ p + i - 1 # L
        BY <1>1, <2>2
      <3> QED
        BY <1>1, <1>2, <1>3, <2>2, <3>1
    <2> QED
      BY <2>1, <2>2
  <1>6. \A i \in 1..m : pr2[u[i]] = IF i = 1 THEN Null ELSE u[i - 1]
    <2> SUFFICES ASSUME NEW i \in 1..m PROVE pr2[u[i]] = IF i = 1 THEN Null ELSE u[i - 1]
      OBVIOUS
    <2>1. CASE i = 1
      BY <1>1, <1>2, <1>3, <2>1
    <2>2. CASE i # 1
      <3>1. i - 1 \in 1..m /\ p + (i - 1) - 1 = (p + i - 1) - 1 /\ p + i - 1 # p /\ p + i - 1 # 1
        BY <1>1, <2>2
      <3> QED
        BY <1>1, <1>2, <1>3, <2>2, <3>1
    <2> QED
      BY <2>1, <2>2
  <1>7. s[p] = u[1]
    BY <1>1, <1>3
  <1>8. Chain(m, u, s[p], nx, pr2)
    BY ONLY <1>1, <1>3, <1>4, <1>5, <1>6, <1>7 DEF Chain
  <1> QED
    BY <1>8, ChainIsLinked, WalkOfLinked

(* The move of list_sort: the node at q goes in front of the one at p.       *)
Moved(s, p, q) ==
  [j \in 1 .. Len(s) |-> IF j = p THEN s[q] ELSE IF p < j /\ j <= q THEN s[j - 1] ELSE s[j]]

LEMMA LinkedMove ==
  ASSUME NEW s, NEW head, NEW nx, NEW pr, Linked(s, head, nx, pr),
         NEW p \in DOMAIN s, NEW q \in DOMAIN s, p < q,
         NEW a, a = s[p], NEW t, t = s[q],
         NEW nx2, \A n \in Nodes : nx2[n] = IF n = t THEN a
                                             ELSE IF n = pr[a] THEN t
                                             ELSE IF n = pr[t] THEN nx[t] ELSE nx[n],
         NEW pr2, \A n \in Nodes : pr2[n] = IF n = t THEN pr[a]
                                             ELSE IF n = a THEN t
                                             ELSE IF n = nx[t] THEN pr[t] ELSE pr[n]
  PROVE  /\ Linked(Moved(s, p, q), IF pr[a] = Null THEN t ELSE head, nx2, pr2)
         /\ Members(Moved(s, p, q)) = Members(s)
  <1> DEFINE u == Moved(s, p, q)
  <1> SUFFICES ASSUME NEW L, L = Len(s), Chain(L, s, head, nx, pr), DOMAIN s = 1..L
               PROVE  /\ Linked(u, IF pr[a] = Null THEN t ELSE head, nx2, pr2)
                      /\ Members(u) = Members(s)
    BY LinkedIsChain
  <1>1. /\ L \in Nat /\ p \in 1..L /\ q \in 1..L /\ p < q
        /\ \A i \in 1..L : s[i] \in Nodes /\ s[i] # Null
    BY ListAssumption DEF Chain
  <1>2. /\ \A i, j \in 1..L : s[i] = s[j] => i = j
        /\ \A i \in 1..L : nx[s[i]] = IF i = L THEN Null ELSE s[i + 1]
        /\ \A i \in 1..L : pr[s[i]] = IF i = 1 THEN Null ELSE s[i - 1]
        /\ head = s[1]
    BY <1>1 DEF Chain
  <1>3. /\ u \in [1..L -> Nodes]
        /\ u[p] = t
        /\ \A j \in 1..L : j < p \/ q < j => u[j] = s[j]
        /\ \A j \in 1..L : p < j /\ j <= q => u[j] = s[j - 1]
    BY <1>1 DEF Moved
  <1>4. /\ a \in Nodes /\ t \in Nodes /\ a # t
        /\ pr[a] = IF p = 1 THEN Null ELSE s[p - 1]
        /\ pr[t] = s[q - 1]
        /\ nx[t] = IF q = L THEN Null ELSE s[q + 1]
    BY <1>1, <1>2
  <1>5. /\ nx2[t] = a
        /\ pr[a] \in Nodes => nx2[pr[a]] = t
        /\ nx2[pr[t]] = nx[t]
        /\ \A n \in Nodes \ {t, pr[a], pr[t]} : nx2[n] = nx[n]
    <2>1. pr[a] # t /\ pr[t] \in Nodes /\ pr[t] # t /\ pr[t] # pr[a]
      BY <1>1, <1>2, <1>4
    <2> QED
      BY <1>4, <2>1
  <1>6. /\ pr2[t] = pr[a]
        /\ pr2[a] = t
        /\ nx[t] \in Nodes => pr2[nx[t]] = pr[t]
        /\ \A n \in Nodes \ {t, a, nx[t]} : pr2[n] = pr[n]
    <2>1. nx[t] # a /\ nx[t] # t
      BY <1>1, <1>2, <1>4
    <2> QED
      BY <1>4, <2>1
  <1> HIDE DEF u
  <1>7. \A i \in 1..L : \E j \in 1..L : u[j] = s[i]
    <2> SUFFICES ASSUME NEW i \in 1..L PROVE \E j \in 1..L : u[j] = s[i]
      OBVIOUS
    <2>1. CASE i = q
      BY <1>1, <1>3, <2>1
    <2>2. CASE p <= i /\ i < q
      <3>1. i + 1 \in 1..L /\ p < i + 1 /\ i + 1 <= q /\ (i + 1) - 1 = i
        BY <1>1, <2>2
      <3> QED
        BY <1>3, <3>1
    <2>3. CASE i < p \/ q < i
      BY <1>3, <2>3
    <2> QED
      BY <1>1, <2>1, <2>2, <2>3
  <1>8. \A j \in 1..L : \E i \in 1..L : u[j] = s[i]
    BY <1>1, <1>3
  <1>9. Members(u) = Members(s)
    <2>1. Members(u) = { u[i] : i \in 1..L } /\ Members(s) = { s[i] : i \in 1..L }
      BY <1>3 DEF Members
    <2> QED
      BY ONLY <1>7, <1>8, <2>1
  <1>10. \A i, j \in 1..L : u[i] = u[j] => i = j
    <2> DEFINE at(i) == IF i = p THEN q ELSE IF p < i /\ i <= q THEN i - 1 ELSE i
    <2>1. \A i \in 1..L : at(i) \in 1..L /\ u[i] = s[at(i)]
      BY <1>1, <1>3
    <2>0. p \in Int /\ q \in Int /\ p < q
      BY <1>1
    <2>2. ASSUME NEW i \in Int, NEW j \in Int, at(i) = at(j) PROVE i = j
      BY ONLY <2>0, <2>2
    <2> HIDE DEF at
    <2> QED
      BY <1>2, <2>1, <2>2
  <1>11. \A i \in 1..L : nx2[u[i]] = IF i = L THEN Null ELSE u[i + 1]
    <2> SUFFICES ASSUME NEW i \in 1..L PROVE nx2[u[i]] = IF i = L THEN Null ELSE u[i + 1]
      OBVIOUS
    <2>1. CASE i < p - 1
      <3>1. i + 1 \in 1..L /\ i + 1 < p /\ i < p /\ i # L /\ p # 1 /\ p - 1 \in 1..L
            /\ i # p - 1 /\ q - 1 \in 1..L /\ i # q - 1 /\ i # q
        BY <1>1, <2>1
      <3>2. u[i] = s[i] /\ u[i + 1] = s[i + 1] /\ s[i] \in Nodes \ {t, pr[a], pr[t]}
        BY <1>1, <1>2, <1>3, <1>4, <3>1
      <3> QED
        BY <1>2, <1>5, <3>1, <3>2
    <2>2. CASE i = p - 1
      <3>1. i < p /\ p # 1 /\ i # L /\ i + 1 = p
        BY <1>1, <2>2
      <3> QED
        BY <1>1, <1>3, <1>4, <1>5, <2>2, <3>1
    <2>3. CASE i = p
      <3>1. i # L /\ i + 1 \in 1..L /\ p < i + 1 /\ i + 1 <= q /\ (i + 1) - 1 = p
        BY <1>1, <2>3
      <3>2. u[i + 1] = a
        BY <1>3, <3>1
      <3> QED
        BY <1>3, <1>5, <2>3, <3>1, <3>2
    <2>4. CASE p < i /\ i < q
      <3>1. i - 1 \in 1..L /\ i # L /\ i + 1 \in 1..L /\ i + 1 <= q /\ p < i + 1 /\ (i + 1) - 1 = i
            /\ i - 1 # L /\ (i - 1) + 1 = i /\ i - 1 # q /\ i - 1 # q - 1 /\ i - 1 # p - 1
            /\ q - 1 \in 1..L /\ (p # 1 => p - 1 \in 1..L)
        BY <1>1, <2>4
      <3>3. s[i - 1] # t /\ s[i - 1] # pr[a] /\ s[i - 1] # pr[t]
        BY ONLY <1>1, <1>2, <1>4, <3>1, t = s[q]
      <3>2. u[i] = s[i - 1] /\ u[i + 1] = s[i] /\ s[i - 1] \in Nodes \ {t, pr[a], pr[t]}
        BY <1>1, <1>3, <2>4, <3>1, <3>3
      <3>4. nx2[s[i - 1]] = nx[s[i - 1]] /\ nx[s[i - 1]] = s[i]
        BY <1>2, <1>5, <3>1, <3>2
      <3> QED
        BY <3>1, <3>2, <3>4
    <2>5. CASE i = q
      <3>1. u[i] = pr[t]
        BY <1>1, <1>3, <1>4, <2>5
      <3>2. i # L => i + 1 \in 1..L /\ q < i + 1
        BY <1>1, <2>5
      <3> QED
        BY <1>3, <1>4, <1>5, <2>5, <3>1, <3>2
    <2>6. CASE q < i
      <3>1. i # q /\ i # p - 1 /\ i # q - 1 /\ q - 1 \in 1..L /\ (p # 1 => p - 1 \in 1..L)
            /\ (i # L => i + 1 \in 1..L /\ q < i + 1)
        BY <1>1, <2>6
      <3>2. u[i] = s[i] /\ s[i] \in Nodes \ {t, pr[a], pr[t]}
        BY <1>1, <1>2, <1>3, <1>4, <2>6, <3>1
      <3> QED
        BY <1>2, <1>3, <1>5, <3>1, <3>2
    <2> QED
      BY <1>1, <2>1, <2>2, <2>3, <2>4, <2>5, <2>6
  <1>12. \A i \in 1..L : pr2[u[i]] = IF i = 1 THEN Null ELSE u[i - 1]
    <2> SUFFICES ASSUME NEW i \in 1..L PROVE pr2[u[i]] = IF i = 1 THEN Null ELSE u[i - 1]
      OBVIOUS
    <2>1. CASE i < p
      <3>1. i # q /\ i # p /\ i # q + 1 /\ (q # L => q + 1 \in 1..L)
            /\ (i # 1 => i - 1 \in 1..L /\ i - 1 < p)
        BY <1>1, <2>1
      <3>2. u[i] = s[i] /\ s[i] \in Nodes \ {t, a, nx[t]}
        BY <1>1, <1>2, <1>3, <1>4, <2>1, <3>1
      <3> QED
        BY <1>2, <1>3, <1>6, <3>1, <3>2
    <2>2. CASE i = p
      <3>1. i # 1 => i - 1 \in 1..L /\ i - 1 < p
        BY <1>1, <2>2
      <3> QED
        BY <1>3, <1>4, <1>6, <2>2, <3>1
    <2>3. CASE i = p + 1
      <3>1. i # 1 /\ p < i /\ i <= q /\ i - 1 = p
        BY <1>1, <2>3
      <3>2. u[i] = a /\ u[i - 1] = t
        BY <1>3, <3>1
      <3> QED
        BY <1>6, <3>1, <3>2
    <2>4. CASE p + 1 < i /\ i <= q
      <3>1. i - 1 \in 1..L /\ i # 1 /\ p < i /\ p < i - 1 /\ i - 1 <= q /\ i - 1 # 1
            /\ i - 1 # p /\ i - 1 # q /\ i - 1 # q + 1 /\ (q # L => q + 1 \in 1..L)
        BY <1>1, <2>4
      <3>2. u[i] = s[i - 1] /\ u[i - 1] = s[(i - 1) - 1] /\ s[i - 1] \in Nodes \ {t, a, nx[t]}
        BY <1>1, <1>2, <1>3, <1>4, <2>4, <3>1
      <3> QED
        BY <1>2, <1>6, <3>1, <3>2
    <2>5. CASE i = q + 1
      <3>1. q < i /\ i - 1 = q /\ p < q /\ q <= q /\ i # 1 /\ q # L
        BY <1>1, <2>5
      <3>2. u[i] = nx[t] /\ u[i - 1] = pr[t] /\ nx[t] \in Nodes
        BY <1>1, <1>3, <1>4, <2>5, <3>1
      <3> QED
        BY <1>6, <3>1, <3>2
    <2>6. CASE q + 1 < i
      <3>1. i # q /\ i # p /\ i # q + 1 /\ (q # L => q + 1 \in 1..L) /\ q < i
            /\ i # 1 /\ i - 1 \in 1..L /\ q < i - 1
        BY <1>1, <2>6
      <3>2. u[i] = s[i] /\ u[i - 1] = s[i - 1] /\ s[i] \in Nodes \ {t, a, nx[t]}
        BY <1>1, <1>2, <1>3, <1>4, <3>1
      <3> QED
        BY <1>2, <1>6, <3>1, <3>2
    <2> QED
      BY <1>1, <2>1, <2>2, <2>3, <2>4, <2>5, <2>6
  <1>13. (IF pr[a] = Null THEN t ELSE head) = IF L = 0 THEN Null ELSE u[1]
    <2>1. CASE p = 1
      BY <1>1, <1>3, <1>4, <2>1
    <2>2. CASE p # 1
      <3>1. p - 1 \in 1..L /\ 1 \in 1..L /\ 1 < p
        BY <1>1, <2>2
      <3> QED
        BY <1>1, <1>2, <1>3, <1>4, <2>2, <3>1
    <2> QED
      BY <2>1, <2>2
  <1>14. Chain(L, u, IF pr[a] = Null THEN t ELSE head, nx2, pr2)
    BY ONLY <1>1, <1>3, <1>10, <1>11, <1>12, <1>13 DEF Chain
  <1> QED
    BY <1>9, <1>14, ChainIsLinked

-----------------------------------------------------------------------------
(* The invariant, in terms of any family of paths that represents the heap.  *)

Families == [Lists -> Seq(Nodes)]

(* What TypeOK says and Represents does not.                                 *)
Base ==
  /\ made \subseteq Lists /\ sorted \subseteq made
  /\ DOMAIN first = Lists /\ first = [l \in Lists |-> first[l]]
  /\ DOMAIN last = Lists /\ last = [l \in Lists |-> last[l]]
  /\ DOMAIN next = Lists /\ next = [l \in Lists |-> next[l]]
  /\ DOMAIN prev = Nodes /\ prev = [n \in Nodes |-> prev[n]]
  /\ DOMAIN nxt = Nodes /\ nxt = [n \in Nodes |-> nxt[n]]
  /\ key \in [Nodes -> Keys]
  /\ op \in {"none", "sort", "append", "dup"}
  /\ lp \in made \cup {Null} /\ ip \in live \cup {Null}
  /\ descending \in BOOLEAN

LEMMA TypeIsBase == TypeOK => Base
  <1> SUFFICES ASSUME TypeOK PROVE Base
    OBVIOUS
  <1>1. /\ DOMAIN first = Lists /\ first = [l \in Lists |-> first[l]]
        /\ DOMAIN last = Lists /\ last = [l \in Lists |-> last[l]]
        /\ DOMAIN next = Lists /\ next = [l \in Lists |-> next[l]]
    BY DEF TypeOK
  <1>2. /\ DOMAIN prev = Nodes /\ prev = [n \in Nodes |-> prev[n]]
        /\ DOMAIN nxt = Nodes /\ nxt = [n \in Nodes |-> nxt[n]]
    BY DEF TypeOK
  <1> QED
    BY <1>1, <1>2 DEF TypeOK, Base

(* The neighbours of a node in a linked sequence are in it, or Null.         *)
LEMMA Neighbours ==
  ASSUME NEW s, NEW head, NEW nx, NEW pr, Linked(s, head, nx, pr)
  PROVE  /\ head \in Members(s) \cup {Null}
         /\ \A n \in Members(s) : /\ nx[n] \in Members(s) \cup {Null}
                                  /\ pr[n] \in Members(s) \cup {Null}
         /\ Members(s) \subseteq Nodes
  <1>1. Chain(Len(s), s, head, nx, pr) /\ DOMAIN s = 1..Len(s)
    BY LinkedIsChain
  <1> SUFFICES ASSUME NEW L, L = Len(s), Chain(L, s, head, nx, pr), Members(s) = { s[i] : i \in 1..L }
               PROVE  /\ head \in Members(s) \cup {Null}
                      /\ \A n \in Members(s) : /\ nx[n] \in Members(s) \cup {Null}
                                               /\ pr[n] \in Members(s) \cup {Null}
                      /\ Members(s) \subseteq Nodes
    BY <1>1 DEF Members
  <1> QED
    BY DEF Chain

LEMMA TypesOf ==
  ASSUME NEW CONSTANT p \in Families
  PROVE  Base /\ Represents(p) => TypeOK
  <1> SUFFICES ASSUME Base, Represents(p) PROVE TypeOK
    OBVIOUS
  <1>1. \A l \in Lists : Members(p[l]) \subseteq live /\ Members(p[l]) \subseteq Nodes
    BY Neighbours DEF Represents
  <1>2. live \subseteq Nodes
    BY <1>1 DEF Represents
  <1>3. \A l \in Lists : first[l] \in live \cup {Null} /\ last[l] \in live \cup {Null}
                         /\ next[l] \in live \cup {Null}
    BY <1>1, Neighbours DEF Represents, HeaderFits
  <1>4. ASSUME NEW n \in Nodes PROVE nxt[n] \in live \cup {Null} /\ prev[n] \in live \cup {Null}
    <2>1. CASE n \in live
      <3>1. PICK l \in Lists : n \in Members(p[l])
        BY <2>1 DEF Represents
      <3>2. nxt[n] \in Members(p[l]) \cup {Null} /\ prev[n] \in Members(p[l]) \cup {Null}
        BY <3>1, Neighbours DEF Represents
      <3> QED
        BY <1>1, <3>2
    <2>2. CASE n \notin live
      BY <2>2 DEF Represents
    <2> QED
      BY <2>1, <2>2
  <1> QED
    BY <1>2, <1>3, <1>4 DEF Base, TypeOK

LEMMA TypesOfNext ==
  ASSUME NEW CONSTANT p \in Families
  PROVE  (Base /\ Represents(p) => TypeOK)'
  <1>1. Base /\ Represents(p) => TypeOK
    BY TypesOf
  <1> QED
    BY <1>1, PTL

LEMMA PathsAre ==
  ASSUME NEW CONSTANT p \in Families
  PROVE  (Represents(p) => Paths = p) /\ (Represents(p)' => Paths' = p)
  <1>1. Represents(p) => Paths = p
    <2> SUFFICES ASSUME Represents(p), NEW l \in Lists PROVE From(first[l]) = p[l]
      BY DEF Paths, Families
    <2> QED
      BY FromIsWalk, WalkOfLinked DEF Represents
  <1>2. Represents(p)' => Paths' = p
    <2> SUFFICES ASSUME Represents(p)', NEW l \in Lists PROVE Walk(nxt', first'[l]) = p[l]
      <3>1. Paths' = [l \in Lists |-> Walk(nxt', first'[l])]
        BY FromIsWalk DEF Paths
      <3> QED
        BY <3>1 DEF Families
    <2>1. Linked(p[l], first'[l], nxt', prev')
      BY DEF Represents, Linked
    <2> QED
      BY <2>1, WalkOfLinked
  <1> QED
    BY <1>1, <1>2

LEMMA IInvIs ==
  ASSUME IInv
  PROVE  \E p \in Families : /\ p = Paths /\ Base /\ Represents(p) /\ LoopFits(p)
                             /\ \A l \in Lists : NodesOf(l) = Members(p[l])
  <1>1. \A l \in Lists : From(first[l]) \in Seq(Nodes)
    BY DEF IInv, Represents, Linked, Paths
  <1>2. Paths \in Families
    BY <1>1 DEF Paths, Families
  <1>3. \A l \in Lists : NodesOf(l) = Members(Paths[l])
    BY DEF NodesOf, Members, Paths
  <1> QED
    BY <1>2, <1>3, TypeIsBase DEF IInv

LEMMA IInvNext ==
  ASSUME NEW CONSTANT p \in Families, Base', Represents(p)', LoopFits(p)'
  PROVE  IInv'
  <1>2. TypeOK'
    BY TypesOfNext
  <1>3. Paths' = p
    BY PathsAre
  <1>4. Represents(Paths)' <=> Represents(p)'
    BY <1>3 DEF Represents, HeaderFits, Linked, Members
  <1>5. LoopFits(Paths)' <=> LoopFits(p)'
    BY <1>3 DEF LoopFits, Members
  <1> QED
    BY <1>2, <1>4, <1>5 DEF IInv

LEMMA InitIInv == Init => IInv
  <1> SUFFICES ASSUME Init PROVE IInv
    OBVIOUS
  <1> DEFINE p == [l \in Lists |-> <<>>]
  <1>1. p \in Families
    BY DEF Families
  <1>2. NoKey \in Keys
    BY ListAssumption DEF NoKey
  <1>3. Base
    BY <1>2 DEF Init, Base
  <1>4. Members(<<>>) = {}
    BY EmptyLinked
  <1>5. Represents(p)
    BY <1>4, EmptyLinked DEF Init, Represents, HeaderFits
  <1>6. LoopFits(p)
    BY DEF Init, LoopFits, Idle
  <1>7. TypeOK
    BY <1>1, <1>3, <1>5, TypesOf
  <1>8. Paths = p
    BY <1>1, <1>5, PathsAre
  <1> QED
    BY <1>5, <1>6, <1>7, <1>8 DEF IInv

(* The operations that change no link.                                       *)
LEMMA RepresentsKept ==
  ASSUME NEW CONSTANT p \in Families, Represents(p),
         UNCHANGED <<first, prev, nxt, live>>,
         \A l \in Lists : HeaderFits(l, p[l])'
  PROVE  Represents(p)'
  BY DEF Represents, Linked

LEMMA CreateNext ==
  ASSUME IInv, NEW l \in Lists, list_create(l)
  PROVE  IInv' /\ Paths' = Paths
  <1>1. PICK p \in Families : p = Paths /\ Base /\ Represents(p) /\ LoopFits(p)
    BY IInvIs
  <1>2. Base' /\ LoopFits(p)'
    BY <1>1 DEF list_create, headers, heap, loop, Base, LoopFits, Idle
  <1>3. Represents(p)'
    BY <1>1, RepresentsKept DEF list_create, headers, heap, Represents, HeaderFits
  <1> QED
    BY <1>1, <1>2, <1>3, IInvNext, PathsAre

LEMMA CursorNext ==
  ASSUME IInv, NEW l \in Lists, list_get_next(l) \/ list_reset(l)
  PROVE  IInv' /\ Paths' = Paths
  <1>1. PICK p \in Families : p = Paths /\ Base /\ Represents(p) /\ LoopFits(p)
    BY IInvIs
  <1>2. Base' /\ LoopFits(p)'
    BY <1>1 DEF list_get_next, list_reset, heap, loop, Base, LoopFits, Idle
  <1>3. next'[l] \in Members(p[l]) \cup {Null} /\ \A m \in Lists : m # l => next'[m] = next[m]
    <2>1. CASE list_get_next(l)
      <3>1. next[l] \in Members(p[l])
        BY <1>1, <2>1 DEF list_get_next, Represents, HeaderFits
      <3> QED
        BY <1>1, <2>1, <3>1, Neighbours DEF list_get_next, Represents, Base
    <2>2. CASE list_reset(l)
      BY <1>1, <2>2, Neighbours DEF list_reset, Represents, Base
    <2> QED
      BY <2>1, <2>2
  <1>4. UNCHANGED <<made, sorted, first, last, prev, nxt, live>>
    BY DEF list_get_next, list_reset, heap
  <1>5. Represents(p)'
    BY <1>1, <1>3, <1>4, RepresentsKept DEF Represents, HeaderFits
  <1> QED
    BY <1>1, <1>2, <1>5, IInvNext, PathsAre

LEMMA SortBegins ==
  ASSUME IInv, NEW l \in Lists, list_sort(l)
  PROVE  IInv' /\ Paths' = Paths
  <1>1. PICK p \in Families : p = Paths /\ Base /\ Represents(p) /\ LoopFits(p)
    BY IInvIs
  <1>2. first[l] \in Members(p[l]) \cup {Null} /\ Members(p[l]) \subseteq live
    BY <1>1, Neighbours DEF Represents
  <1>3. Base' /\ LoopFits(p)'
    BY <1>1, <1>2 DEF list_sort, BeginLoop, headers, heap, Base, LoopFits, Idle
  <1>4. Represents(p)'
    BY <1>1, RepresentsKept DEF list_sort, headers, heap, Represents, HeaderFits
  <1> QED
    BY <1>1, <1>3, <1>4, IInvNext, PathsAre

LEMMA CopyBegins ==
  ASSUME ~AddAfterSort, IInv, NEW l \in Lists, NEW m \in Lists, list_add_list(l, m) \/ list_dup(m, l)
  PROVE  IInv' /\ Paths' = Paths
  <1>1. PICK p \in Families : p = Paths /\ Base /\ Represents(p) /\ LoopFits(p)
    BY IInvIs
  <1>2. first[m] \in live \cup {Null}
    BY <1>1, Neighbours DEF Represents
  <1>3. Base' /\ LoopFits(p)'
    BY <1>1, <1>2 DEF list_add_list, list_dup, BeginLoop, headers, heap, Base, LoopFits, Idle
  <1>4. UNCHANGED <<headers, heap, sorted>> /\ made \subseteq made'
    BY DEF list_add_list, list_dup
  <1>5. Represents(p)'
    BY <1>1, <1>4, RepresentsKept DEF headers, heap, Represents, HeaderFits
  <1> QED
    BY <1>1, <1>3, <1>5, IInvNext, PathsAre

LEMMA LoopStepNext ==
  ASSUME IInv, SortNext \/ CopyFails \/ LoopEnds
  PROVE  IInv' /\ Paths' = Paths
  <1>1. PICK p \in Families : p = Paths /\ Base /\ Represents(p) /\ LoopFits(p)
    BY IInvIs
  <1>2. UNCHANGED <<made, headers, heap, sorted>>
    BY DEF SortNext, CopyFails, LoopEnds
  <1>3. Represents(p)'
    BY <1>1, <1>2, RepresentsKept DEF headers, heap, Represents, HeaderFits
  <1>4. CASE SortNext
    <2>1. ip \in Members(p[lp]) /\ lp \in Lists
      BY <1>1, <1>4 DEF SortNext, LoopFits, Base, Idle
    <2>2. nxt[ip] \in Members(p[lp]) \cup {Null} /\ Members(p[lp]) \subseteq live
      BY <1>1, <2>1, Neighbours DEF Represents
    <2>3. Base' /\ LoopFits(p)'
      BY <1>1, <1>2, <1>4, <2>2 DEF SortNext, headers, heap, Base, LoopFits, Idle
    <2> QED
      BY <1>1, <1>3, <2>3, IInvNext, PathsAre
  <1>5. CASE CopyFails \/ LoopEnds
    <2>1. ip # Null => ip \in Nodes /\ nxt[ip] \in live \cup {Null}
      BY DEF IInv, TypeOK
    <2>2. Base' /\ LoopFits(p)'
      BY <1>1, <1>2, <1>5, <2>1 DEF CopyFails, LoopEnds, EndLoop, headers, heap, Base, LoopFits, Idle
    <2> QED
      BY <1>1, <1>3, <2>2, IInvNext, PathsAre
  <1> QED
    BY <1>4, <1>5

(* The operations that change links, each with the path it makes.            *)
LEMMA DestroyNext ==
  ASSUME IInv, NEW l \in Lists, list_destroy(l)
  PROVE  IInv' /\ Paths' = [Paths EXCEPT ![l] = <<>>]
  <1>1. PICK p \in Families : /\ p = Paths /\ Base /\ Represents(p) /\ LoopFits(p)
                              /\ \A m \in Lists : NodesOf(m) = Members(p[m])
    BY IInvIs
  <1> DEFINE p2 == [p EXCEPT ![l] = <<>>]
             G == Members(p[l])
  <1>0. p2 = [Paths EXCEPT ![l] = <<>>]
    BY <1>1
  <1>2. p2 \in Families /\ p2[l] = <<>> /\ \A m \in Lists : m # l => p2[m] = p[m]
    BY DEF Families
  <1> HIDE DEF p2
  <1>3. /\ made' = made \ {l} /\ sorted' = sorted \ {l} /\ live' = live \ G
        /\ key' = [n \in Nodes |-> IF n \in G THEN NoKey ELSE key[n]]
        /\ prev' = [n \in Nodes |-> IF n \in G THEN Null ELSE prev[n]]
        /\ nxt' = [n \in Nodes |-> IF n \in G THEN Null ELSE nxt[n]]
        /\ UNCHANGED <<op, lp, ip, descending>> /\ op = "none" /\ l \in made
    BY <1>1 DEF list_destroy, Free, loop, Idle
  <1>4. /\ first' = [first EXCEPT ![l] = Null]
        /\ last' = [last EXCEPT ![l] = Null]
        /\ next' = [next EXCEPT ![l] = Null]
    BY DEF list_destroy
  <1>5. first'[l] = Null /\ last'[l] = Null /\ next'[l] = Null
        /\ \A m \in Lists : m # l => first'[m] = first[m] /\ last'[m] = last[m] /\ next'[m] = next[m]
    BY <1>1, <1>4 DEF Base
  <1>6. ASSUME NEW m \in Lists PROVE Linked(p2[m], first'[m], nxt', prev') /\ HeaderFits(m, p2[m])'
    <2>1. CASE m = l
      BY <1>2, <1>3, <1>5, <2>1, EmptyLinked DEF HeaderFits
    <2>2. CASE m # l
      <3>1. Linked(p[m], first[m], nxt, prev) /\ HeaderFits(m, p[m]) /\ Members(p[m]) \cap G = {}
        BY <1>1, <2>2 DEF Represents
      <3>2. Members(p[m]) \subseteq Nodes
        BY <3>1, Neighbours
      <3>3. \A n \in Members(p[m]) : nxt'[n] = nxt[n] /\ prev'[n] = prev[n]
        BY <1>3, <3>1, <3>2
      <3>4. Linked(p[m], first[m], nxt', prev')
        BY <3>1, <3>3, LinkedKept
      <3> QED
        BY <1>2, <1>3, <1>5, <2>2, <3>1, <3>4 DEF HeaderFits
    <2> QED
      BY <2>1, <2>2
  <1>7. \A m, k \in Lists : m # k => Members(p2[m]) \cap Members(p2[k]) = {}
    BY <1>1, <1>2, EmptyLinked DEF Represents
  <1>8. live' = UNION { Members(p2[m]) : m \in Lists }
    <2>1. live = UNION { Members(p[m]) : m \in Lists }
          /\ \A m \in Lists : m # l => Members(p[m]) \cap G = {}
      BY <1>1 DEF Represents
    <2>2. \A m \in Lists : Members(p2[m]) = IF m = l THEN {} ELSE Members(p[m])
      BY <1>2, EmptyLinked
    <2>3. ASSUME NEW n \in live' PROVE n \in UNION { Members(p2[m]) : m \in Lists }
      <3>1. PICK m \in Lists : n \in Members(p[m])
        BY <1>3, <2>1
      <3>2. m # l
        BY <1>3, <3>1
      <3> QED
        BY <2>2, <3>1, <3>2
    <2>4. ASSUME NEW m \in Lists, NEW n \in Members(p2[m]) PROVE n \in live'
      <3>1. m # l /\ n \in Members(p[m])
        BY <2>2
      <3> QED
        BY <1>3, <2>1, <3>1
    <2> QED
      BY <2>3, <2>4
  <1>9. \A n \in Nodes \ live' : prev'[n] = Null /\ nxt'[n] = Null
    BY <1>1, <1>3 DEF Represents
  <1>10. Represents(p2)'
    BY <1>6, <1>7, <1>8, <1>9 DEF Represents, Linked
  <1>11. ip = Null /\ lp = Null
    BY <1>1, <1>3 DEF LoopFits, Idle
  <1>12. LoopFits(p2)'
    BY <1>3, <1>11 DEF LoopFits, Idle
  <1>13. Base'
    <2>1. NoKey \in Keys
      BY ListAssumption DEF NoKey
    <2>2. key' \in [Nodes -> Keys]
      BY <1>1, <1>3, <2>1 DEF Base
    <2> QED
      BY <1>1, <1>3, <1>4, <1>11, <2>2 DEF Base
  <1> QED
    BY <1>0, <1>2, <1>10, <1>12, <1>13, IInvNext, PathsAre

(* Represents(p2)' when only the list l changed its path.                    *)
LEMMA OneListChanged ==
  ASSUME NEW CONSTANT p \in Families, NEW CONSTANT p2 \in Families, Represents(p),
         NEW CONSTANT l \in Lists, \A m \in Lists : m # l => p2[m] = p[m],
         Linked(p2[l], first'[l], nxt', prev'), HeaderFits(l, p2[l])',
         UNCHANGED <<made, sorted>>,
         \A m \in Lists : m # l => /\ first'[m] = first[m] /\ last'[m] = last[m]
                                   /\ next'[m] = next[m],
         \A m \in Lists : m # l => \A n \in Members(p[m]) : nxt'[n] = nxt[n] /\ prev'[n] = prev[n],
         Members(p2[l]) \cap live \subseteq Members(p[l]),
         live' = (live \ Members(p[l])) \cup Members(p2[l]),
         \A n \in Nodes \ live' : prev'[n] = Null /\ nxt'[n] = Null
  PROVE  Represents(p2)'
  <1>1. ASSUME NEW m \in Lists PROVE Linked(p2[m], first'[m], nxt', prev') /\ HeaderFits(m, p2[m])'
    <2>1. CASE m = l
      BY <2>1
    <2>2. CASE m # l
      <3>1. Linked(p[m], first[m], nxt, prev) /\ HeaderFits(m, p[m])
        BY DEF Represents
      <3>2. Linked(p[m], first[m], nxt', prev')
        BY <2>2, <3>1, LinkedKept
      <3> QED
        BY <2>2, <3>1, <3>2 DEF HeaderFits
    <2> QED
      BY <2>1, <2>2
  <1>2. /\ live = UNION { Members(p[m]) : m \in Lists }
        /\ \A m, k \in Lists : m # k => Members(p[m]) \cap Members(p[k]) = {}
    BY DEF Represents
  <1>3. \A m \in Lists : m # l => Members(p2[m]) = Members(p[m])
    OBVIOUS
  <1>4. \A m \in Lists : m # l => Members(p2[m]) \cap Members(p2[l]) = {}
    <2> SUFFICES ASSUME NEW m \in Lists, m # l, NEW n \in Members(p[m]), n \in Members(p2[l])
                 PROVE  FALSE
      BY <1>3
    <2>1. n \in live
      BY <1>2
    <2> QED
      BY <1>2, <2>1
  <1>5. \A m, k \in Lists : m # k => Members(p2[m]) \cap Members(p2[k]) = {}
    <2> SUFFICES ASSUME NEW m \in Lists, NEW k \in Lists, m # k
                 PROVE  Members(p2[m]) \cap Members(p2[k]) = {}
      OBVIOUS
    <2> QED
      BY <1>2, <1>3, <1>4
  <1>6. live' = UNION { Members(p2[m]) : m \in Lists }
    <2>1. ASSUME NEW n \in live' PROVE n \in UNION { Members(p2[m]) : m \in Lists }
      <3>1. CASE n \in Members(p2[l])
        BY <3>1
      <3>2. CASE n \in live /\ n \notin Members(p[l])
        <4>1. PICK m \in Lists : n \in Members(p[m])
          BY <1>2, <3>2
        <4> QED
          BY <1>3, <3>2, <4>1
      <3> QED
        BY <3>1, <3>2
    <2>2. ASSUME NEW m \in Lists, NEW n \in Members(p2[m]) PROVE n \in live'
      <3>1. CASE m = l
        BY <3>1
      <3>2. CASE m # l
        BY <1>2, <1>3, <3>2
      <3> QED
        BY <3>1, <3>2
    <2> QED
      BY <2>1, <2>2
  <1> QED
    BY <1>1, <1>5, <1>6 DEF Represents, Linked

LEMMA SingletonLinked ==
  ASSUME NEW n \in Nodes, NEW nx, NEW pr, nx[n] = Null, pr[n] = Null
  PROVE  /\ Linked(<<n>>, n, nx, pr) /\ Members(<<n>>) = {n}
         /\ <<n>> # <<>> /\ <<n>>[Len(<<n>>)] = n /\ <<n>> \in Seq(Nodes)
  <1> DEFINE s == <<n>>
  <1>1. s \in Seq(Nodes) /\ Len(s) = 1 /\ DOMAIN s = {1} /\ s[1] = n /\ s # <<>>
    OBVIOUS
  <1> HIDE DEF s
  <1>2. Linked(s, n, nx, pr) /\ Members(s) = {n}
    BY <1>1 DEF Linked, Members
  <1> QED
    BY <1>1, <1>2 DEF s

(* list_add's append, to a list whose last is its end.                       *)
LEMMA Appended ==
  ASSUME NEW CONSTANT p \in Families, Base, Represents(p), NEW CONSTANT l \in Lists,
         l \in made \ sorted, NEW CONSTANT n \in Nodes, NEW k \in Keys, Append1(l, n, k),
         UNCHANGED <<made, sorted>>
  PROVE  \E p2 \in Families : /\ Represents(p2)' /\ live \subseteq live'
                              /\ p2 = [p EXCEPT ![l] = Append(@, n)]
  <1>1. /\ n \notin live /\ live' = live \cup {n} /\ key' = [key EXCEPT ![n] = k]
        /\ \A m \in Lists : Members(p[m]) \subseteq live
    BY DEF Append1, _newitem, Represents
  <1>2. nxt[n] = Null /\ prev[n] = Null
    BY <1>1 DEF Represents
  <1>3. Linked(p[l], first[l], nxt, prev) /\ HeaderFits(l, p[l]) /\ p[l] \in Seq(Nodes)
    BY DEF Represents, Linked
  <1>4. \A m \in Nodes \ live' : prev[m] = Null /\ nxt[m] = Null
    BY <1>1 DEF Represents
  <1>5. CASE AppendFirst(l, n)
    <2>1. p[l] = <<>> /\ Members(p[l]) = {}
      <3>1. p[l] # <<>> => first[l] = p[l][1] /\ 1 \in DOMAIN p[l] /\ p[l][1] \in Nodes
        BY <1>3 DEF Linked
      <3>2. p[l] = <<>>
        BY <1>5, <3>1, ListAssumption DEF AppendFirst
      <3> QED
        BY <3>2, EmptyLinked
    <2> DEFINE p2 == [p EXCEPT ![l] = <<n>>]
    <2>0. p2 = [p EXCEPT ![l] = Append(@, n)]
      BY <2>1
    <2>2. p2 \in Families /\ p2[l] = <<n>> /\ \A m \in Lists : m # l => p2[m] = p[m]
      BY SingletonLinked, <1>2 DEF Families
    <2>3. /\ first'[l] = n /\ last'[l] = n /\ next'[l] = n /\ nxt' = nxt /\ prev' = prev
          /\ \A m \in Lists : m # l => first'[m] = first[m] /\ last'[m] = last[m] /\ next'[m] = next[m]
      BY <1>5 DEF AppendFirst, Base
    <2> HIDE DEF p2
    <2>4. Linked(p2[l], first'[l], nxt', prev') /\ Members(p2[l]) = {n}
      BY <1>2, <2>2, <2>3, SingletonLinked
    <2>5. HeaderFits(l, p2[l])'
      BY <1>2, <2>2, <2>3, <2>4, SingletonLinked DEF HeaderFits
    <2>6. Members(p2[l]) \cap live \subseteq Members(p[l])
          /\ live' = (live \ Members(p[l])) \cup Members(p2[l])
      BY <1>1, <2>1, <2>4
    <2>7. \A m \in Nodes \ live' : prev'[m] = Null /\ nxt'[m] = Null
      BY <1>4, <2>3
    <2>8. \A m \in Lists : m # l => \A i \in Members(p[m]) : nxt'[i] = nxt[i] /\ prev'[i] = prev[i]
      BY <2>3
    <2>9. Represents(p2)'
      BY <2>2, <2>3, <2>4, <2>5, <2>6, <2>7, <2>8, OneListChanged
    <2> QED
      BY <1>1, <2>0, <2>2, <2>9
  <1>6. CASE AppendLast(l, n)
    <2>1. p[l] # <<>>
      BY <1>3, <1>6 DEF AppendLast, Linked
    <2> DEFINE e == p[l][Len(p[l])]
               t == Append(p[l], n)
               p2 == [p EXCEPT ![l] = t]
    <2>2. last[l] = e
      BY <1>3, <2>1 DEF HeaderFits
    <2>3. e \in Members(p[l])
      BY <1>3, <2>1 DEF Members
    <2>0. p2 = [p EXCEPT ![l] = Append(@, n)]
      OBVIOUS
    <2>4. p2 \in Families /\ p2[l] = t /\ \A m \in Lists : m # l => p2[m] = p[m]
      BY <1>3 DEF Families
    <2> HIDE DEF p2
    <2>5. /\ nxt' = [nxt EXCEPT ![e] = n] /\ prev' = [prev EXCEPT ![n] = e]
          /\ last' = [last EXCEPT ![l] = n] /\ UNCHANGED <<first, next>>
      BY <1>6, <2>2 DEF AppendLast
    <2>6. nxt \in [Nodes -> Nodes \cup {Null}] /\ prev \in [Nodes -> Nodes \cup {Null}]
      <3>1. TypeOK
        BY TypesOf
      <3> QED
        BY <3>1 DEF TypeOK
    <2>7. n \notin Members(p[l])
      BY <1>1
    <2>8. /\ Linked(t, first[l], nxt', prev') /\ Members(t) = Members(p[l]) \cup {n}
          /\ t # <<>> /\ t[Len(t)] = n
      <3>1. /\ \A m \in Nodes : nxt'[m] = IF m = e THEN n ELSE nxt[m]
            /\ \A m \in Nodes : prev'[m] = IF m = n THEN e ELSE prev[m]
        BY ONLY <2>5, <2>6
      <3> QED
        BY ONLY <1>2, <1>3, <2>1, <2>7, <3>1, n \in Nodes, LinkedAppend
    <2> HIDE DEF t, e
    <2>9. last'[l] = n /\ \A m \in Lists : m # l => last'[m] = last[m]
      BY <2>5 DEF Base
    <2>10. HeaderFits(l, p2[l])'
      BY <1>3, <2>4, <2>5, <2>8, <2>9 DEF HeaderFits
    <2>11. \A m \in Nodes : m # e /\ m # n => nxt'[m] = nxt[m] /\ prev'[m] = prev[m]
      BY <2>5, <2>6
    <2>12. \A m \in Lists : m # l => \A i \in Members(p[m]) : nxt'[i] = nxt[i] /\ prev'[i] = prev[i]
      <3> SUFFICES ASSUME NEW m \in Lists, m # l, NEW i \in Members(p[m])
                   PROVE  nxt'[i] = nxt[i] /\ prev'[i] = prev[i]
        OBVIOUS
      <3>1. i \in live /\ i # n /\ i \notin Members(p[l])
        BY <1>1 DEF Represents
      <3>2. i \in Nodes
        BY Neighbours DEF Represents
      <3> QED
        BY <2>3, <2>11, <3>1, <3>2
    <2>13. \A m \in Nodes \ live' : prev'[m] = Null /\ nxt'[m] = Null
      <3>1. e \in live' /\ n \in live'
        BY <1>1, <2>3
      <3> QED
        BY <1>4, <2>11, <3>1
    <2>14. Members(p2[l]) \cap live \subseteq Members(p[l])
           /\ live' = (live \ Members(p[l])) \cup Members(p2[l])
      BY <1>1, <2>4, <2>8
    <2>15. \A m \in Lists : m # l => first'[m] = first[m] /\ last'[m] = last[m] /\ next'[m] = next[m]
      BY <2>5, <2>9
    <2>16. Linked(p2[l], first'[l], nxt', prev')
      BY <2>4, <2>5, <2>8
    <2>17. Represents(p2)'
      BY <2>4, <2>10, <2>12, <2>13, <2>14, <2>15, <2>16, OneListChanged
    <2> QED
      BY <1>1, <2>0, <2>4, <2>17
  <1> QED
    BY <1>5, <1>6 DEF Append1

LEMMA AddNext ==
  ASSUME ~AddAfterSort, IInv, NEW l \in Lists, NEW n \in Nodes, NEW k \in Keys, list_add(l, n, k)
  PROVE  IInv' /\ Paths' = [Paths EXCEPT ![l] = Append(@, n)]
  <1>1. PICK p \in Families : p = Paths /\ Base /\ Represents(p) /\ LoopFits(p)
    BY IInvIs
  <1>2. /\ l \in made \ sorted /\ Append1(l, n, k) /\ UNCHANGED <<made, loop, sorted>> /\ op = "none"
    BY DEF list_add, Idle
  <1>3. PICK p2 \in Families : /\ Represents(p2)' /\ live \subseteq live'
                                /\ p2 = [p EXCEPT ![l] = Append(@, n)]
    BY <1>1, <1>2, Appended
  <1>4. LoopFits(p2)'
    BY <1>1, <1>2 DEF LoopFits, Idle, loop
  <1>5. Base'
    BY <1>1, <1>2, <1>3 DEF Base, Append1, AppendFirst, AppendLast, _newitem, loop
  <1> QED
    BY <1>1, <1>3, <1>4, <1>5, IInvNext, PathsAre

LEMMA CopyItemNext ==
  ASSUME IInv, CopyItem, NEW n \in Nodes, Append1(lp, n, key[ip])
  PROVE  IInv' /\ Paths' = [Paths EXCEPT ![lp] = Append(@, n)]
  <1>1. PICK p \in Families : p = Paths /\ Base /\ Represents(p) /\ LoopFits(p)
    BY IInvIs
  <1>3. /\ lp \in made \ sorted /\ lp \in Lists /\ ip \in live /\ ip \in Nodes
        /\ op \in {"append", "dup"} /\ ip' = nxt[ip]
        /\ UNCHANGED <<made, op, lp, descending, sorted>>
    BY <1>1 DEF CopyItem, LoopFits, Base, Idle, IInv, TypeOK
  <1>4. key[ip] \in Keys
    BY <1>1, <1>3 DEF Base
  <1>5. PICK l \in Lists : l = lp
    BY <1>3
  <1>6. PICK p2 \in Families : /\ Represents(p2)' /\ live \subseteq live'
                                /\ p2 = [p EXCEPT ![l] = Append(@, n)]
    BY <1>1, <1>3, <1>4, <1>5, Appended
  <1>7. LoopFits(p2)'
    BY <1>3 DEF LoopFits, Idle
  <1>8. nxt[ip] \in live \cup {Null}
    BY <1>3 DEF IInv, TypeOK
  <1>9. Base'
    BY <1>1, <1>3, <1>4, <1>6, <1>8 DEF Base, Append1, AppendFirst, AppendLast, _newitem
  <1> QED
    BY <1>1, <1>5, <1>6, <1>7, <1>9, IInvNext, PathsAre

LEMMA LinkedIsSeq ==
  ASSUME NEW s, NEW head, NEW nx, NEW pr, Linked(s, head, nx, pr)
  PROVE  s \in Seq(Nodes)
  BY DEF Linked

LEMMA DeleteNext ==
  ASSUME IInv, NEW l \in Lists, NEW n \in Nodes, list_delete(l, n)
  PROVE  /\ IInv'
         /\ \E q \in DOMAIN Paths[l] : /\ n = Paths[l][q]
                                      /\ Paths' = [Paths EXCEPT ![l] = Removed(@, q)]
  <1>1. PICK p \in Families : /\ p = Paths /\ Base /\ Represents(p) /\ LoopFits(p)
                              /\ \A m \in Lists : NodesOf(m) = Members(p[m])
    BY IInvIs
  <1>2. /\ n \in Members(p[l]) /\ op = "none" /\ UNCHANGED <<made, loop, sorted>>
        /\ live' = live \ {n} /\ l \in made
    BY <1>1 DEF list_delete, Idle, Free
  <1>3. Linked(p[l], first[l], nxt, prev) /\ HeaderFits(l, p[l])
    BY <1>1 DEF Represents
  <1>4. PICK q \in DOMAIN p[l] : n = p[l][q]
    BY <1>2 DEF Members
  <1> DEFINE t == Removed(p[l], q)
             p2 == [p EXCEPT ![l] = t]
  <1>0. p2 = [p EXCEPT ![l] = Removed(@, q)]
    OBVIOUS
  <1>5. /\ \A m \in Nodes : nxt'[m] = IF m = n THEN Null ELSE IF m = prev[n] THEN nxt[n] ELSE nxt[m]
        /\ \A m \in Nodes : prev'[m] = IF m = n THEN Null ELSE IF m = nxt[n] THEN prev[n] ELSE prev[m]
    BY DEF list_delete, Unlink
  <1>6. /\ Linked(t, IF first[l] = n THEN nxt[n] ELSE first[l], nxt', prev')
        /\ Members(t) = Members(p[l]) \ {n}
        /\ n = p[l][Len(p[l])] => prev[n] = IF t = <<>> THEN Null ELSE t[Len(t)]
        /\ n # p[l][Len(p[l])] => t # <<>> /\ t[Len(t)] = p[l][Len(p[l])]
        /\ nxt[n] \in Members(t) \cup {Null}
        /\ prev[n] \in Members(t) \cup {Null}
    BY ONLY <1>3, <1>4, <1>5, LinkedRemove
  <1>7. p[l] # <<>>
    BY <1>4
  <1> HIDE DEF t
  <1>8. p2 \in Families /\ p2[l] = t /\ \A m \in Lists : m # l => p2[m] = p[m]
    BY <1>6, LinkedIsSeq DEF Families
  <1> HIDE DEF p2
  <1>9. /\ first'[l] = (IF first[l] = n THEN nxt[n] ELSE first[l])
        /\ last'[l] = (IF last[l] = n THEN prev[n] ELSE last[l])
        /\ next'[l] = (IF next[l] = n THEN nxt[n] ELSE next[l])
        /\ \A m \in Lists : m # l => first'[m] = first[m] /\ last'[m] = last[m] /\ next'[m] = next[m]
    BY <1>1 DEF list_delete, Unlink, Base
  <1>10. HeaderFits(l, t)'
    <2>1. last'[l] \in Members(t) \cup {Null} /\ next'[l] \in Members(t) \cup {Null}
      BY <1>3, <1>6, <1>9 DEF HeaderFits
    <2>2. l \notin sorted => last[l] = p[l][Len(p[l])]
      BY <1>3, <1>7 DEF HeaderFits
    <2>3. l \notin sorted => last'[l] = IF t = <<>> THEN Null ELSE t[Len(t)]
      BY <1>6, <1>9, <2>2
    <2> QED
      BY <1>2, <2>1, <2>3 DEF HeaderFits
  <1>11. n \notin live' /\ Members(p[l]) \subseteq live
    BY <1>1, <1>2 DEF Represents
  <1>12. \A m \in Lists : m # l => \A i \in Members(p[m]) : nxt'[i] = nxt[i] /\ prev'[i] = prev[i]
    <2> SUFFICES ASSUME NEW m \in Lists, m # l, NEW i \in Members(p[m])
                 PROVE  nxt'[i] = nxt[i] /\ prev'[i] = prev[i]
      OBVIOUS
    <2>1. i \notin Members(p[l]) /\ i \in Nodes /\ i # Null
      BY <1>1, Neighbours, ListAssumption DEF Represents
    <2>2. i # n /\ i # prev[n] /\ i # nxt[n]
      BY <1>2, <1>6, <2>1
    <2> QED
      BY <1>5, <2>1, <2>2
  <1>13. \A m \in Nodes \ live' : prev'[m] = Null /\ nxt'[m] = Null
    <2> SUFFICES ASSUME NEW m \in Nodes \ live', m # n PROVE prev'[m] = Null /\ nxt'[m] = Null
      BY <1>5
    <2>1. m \notin live /\ m \notin Members(p[l]) /\ m # Null
      BY <1>2, <1>11, ListAssumption
    <2>2. m # prev[n] /\ m # nxt[n]
      BY <1>6, <2>1
    <2> QED
      BY <1>1, <1>5, <2>1, <2>2 DEF Represents
  <1>14. Members(p2[l]) \cap live \subseteq Members(p[l])
         /\ live' = (live \ Members(p[l])) \cup Members(p2[l])
    BY <1>2, <1>6, <1>8, <1>11
  <1>15. Linked(p2[l], first'[l], nxt', prev') /\ HeaderFits(l, p2[l])'
    BY <1>6, <1>8, <1>9, <1>10
  <1>16. Represents(p2)'
    BY <1>1, <1>2, <1>8, <1>9, <1>12, <1>13, <1>14, <1>15, OneListChanged
  <1>17. ip = Null /\ lp = Null
    BY <1>1, <1>2 DEF LoopFits, Idle
  <1>18. LoopFits(p2)'
    BY <1>2, <1>17 DEF LoopFits, Idle, loop
  <1>19. Base'
    <2>1. NoKey \in Keys
      BY ListAssumption DEF NoKey
    <2>2. key' \in [Nodes -> Keys]
      BY <1>1, <2>1 DEF Base, list_delete, Free
    <2>3. /\ DOMAIN first' = Lists /\ first' = [m \in Lists |-> first'[m]]
          /\ DOMAIN last' = Lists /\ last' = [m \in Lists |-> last'[m]]
          /\ DOMAIN next' = Lists /\ next' = [m \in Lists |-> next'[m]]
      BY <1>1 DEF Base, list_delete, Unlink
    <2>4. /\ DOMAIN prev' = Nodes /\ prev' = [m \in Nodes |-> prev'[m]]
          /\ DOMAIN nxt' = Nodes /\ nxt' = [m \in Nodes |-> nxt'[m]]
      BY DEF list_delete, Unlink
    <2> QED
      BY <1>1, <1>2, <1>17, <2>2, <2>3, <2>4 DEF Base, loop
  <1> QED
    BY <1>0, <1>1, <1>4, <1>8, <1>16, <1>18, <1>19, IInvNext, PathsAre

(* What Misplaced is of a linked sequence.                                   *)
LEMMA NoneMisplaced ==
  ASSUME NEW CONSTANT s, TypeOK, NEW head, Linked(s, head, nxt, prev), NEW CONSTANT i \in DOMAIN s,
         ip = s[i], Misplaced = {}
  PROVE  \A q \in DOMAIN s : i < q => ~compare(ip, s[q])
  <1> SUFFICES ASSUME NEW q \in DOMAIN s, i < q PROVE ~compare(ip, s[q])
    OBVIOUS
  <1>1. From(ip) = [j \in 1 .. Len(s) - i + 1 |-> s[i + j - 1]]
    <2>1. From(ip) = Walk(nxt, s[i])
      BY FromIsWalk
    <2>2. Walk(nxt, s[i]) = [j \in 1 .. Len(s) - i + 1 |-> s[i + j - 1]]
      BY ONLY Linked(s, head, nxt, prev), i \in DOMAIN s, WalkOfSuffix
    <2> QED
      BY <2>1, <2>2
  <1>2. Len(s) \in Nat /\ i \in 1..Len(s) /\ q \in 1..Len(s)
    BY LinkedIsSeq, LenProperties
  <1>3. q - i + 1 \in 1 .. Len(s) - i + 1 /\ i + (q - i + 1) - 1 = q
    BY <1>2
  <1>4. q - i + 1 \in DOMAIN From(ip) /\ From(ip)[q - i + 1] = s[q]
    BY <1>1, <1>3
  <1> QED
    BY <1>4 DEF Misplaced

(* The node list_sort takes is further on in the list than ip.               *)
LEMMA PickedIsAfter ==
  ASSUME NEW CONSTANT s, TypeOK, NEW head, Linked(s, head, nxt, prev), NEW CONSTANT i \in DOMAIN s,
         ip = s[i], Misplaced # {}
  PROVE  \E q \in DOMAIN s : /\ i < q /\ Picked = s[q] /\ compare(ip, s[q])
                            /\ \A j \in DOMAIN s : i < j /\ j < q => ~compare(ip, s[j])
  <1> SUFFICES ASSUME NEW L, L = Len(s), Chain(L, s, head, nxt, prev), DOMAIN s = 1..L
               PROVE  \E q \in DOMAIN s : /\ i < q /\ Picked = s[q] /\ compare(ip, s[q])
                                           /\ \A j \in DOMAIN s : i < j /\ j < q => ~compare(ip, s[j])
    BY LinkedIsChain
  <1> DEFINE w == From(ip)
  <1>1. w = [j \in 1 .. L - i + 1 |-> s[i + j - 1]]
    <2>1. w = Walk(nxt, s[i])
      BY FromIsWalk
    <2>2. Walk(nxt, s[i]) = [j \in 1 .. Len(s) - i + 1 |-> s[i + j - 1]]
      BY ONLY Linked(s, head, nxt, prev), i \in DOMAIN s, WalkOfSuffix
    <2> QED
      BY <2>1, <2>2
  <1>2. L \in Nat /\ i \in 1..L /\ ip \in Nodes
    BY DEF Chain
  <1>3. /\ DOMAIN w = 1 .. L - i + 1
        /\ \A j \in DOMAIN w : w[j] = s[i + j - 1] /\ i + j - 1 \in 1..L /\ j \in Nat
    BY <1>1, <1>2
  <1> HIDE DEF w
  <1>4. Misplaced = { j \in DOMAIN w : compare(ip, w[j]) }
    BY DEF Misplaced, w
  <1>5. PICK m \in Misplaced : \A j \in Misplaced : m <= j
    <2>1. Misplaced \in SUBSET Nat
      BY <1>3, <1>4
    <2> QED
      BY <2>1, LeastElement
  <1> DEFINE c == CHOOSE j \in Misplaced : \A k \in Misplaced : j <= k
  <1>6. c \in Misplaced /\ \A j \in Misplaced : c <= j
    BY <1>5
  <1>7. Picked = w[c]
    BY DEF Picked, w
  <1> HIDE DEF c
  <1>8. c \in DOMAIN w /\ compare(ip, w[c])
    BY <1>4, <1>6
  <1>9. c # 1
    <2> SUFFICES ASSUME c = 1 PROVE FALSE
      OBVIOUS
    <2>1. w[c] = ip
      BY <1>2, <1>3, <1>8
    <2>2. key[ip] \in Nat
      BY <1>2, ListAssumption DEF TypeOK
    <2> QED
      BY <1>8, <2>1, <2>2 DEF compare
  <1>10. i + c - 1 \in 1..L /\ i < i + c - 1
    BY <1>2, <1>3, <1>8, <1>9
  <1>11. ASSUME NEW j \in 1..L, i < j, j < i + c - 1 PROVE ~compare(ip, s[j])
    <2>1. j - i + 1 \in 1 .. L - i + 1 /\ j - i + 1 < c /\ i + (j - i + 1) - 1 = j
      BY <1>2, <1>3, <1>8, <1>11
    <2>2. w[j - i + 1] = s[j] /\ j - i + 1 \in DOMAIN w
      BY <1>3, <2>1
    <2>3. j - i + 1 \notin Misplaced
      BY <1>3, <1>6, <1>8, <2>1
    <2> QED
      BY <1>4, <2>2, <2>3
  <1> QED
    BY <1>3, <1>7, <1>8, <1>10, <1>11

LEMMA SortSwapNext ==
  ASSUME IInv, SortSwap
  PROVE  /\ IInv'
         /\ \E i, q \in DOMAIN Paths[lp] :
              /\ i < q /\ ip = Paths[lp][i] /\ ip' = Paths[lp][q]
              /\ Paths' = [Paths EXCEPT ![lp] = Moved(@, i, q)]
              /\ compare(ip, Paths[lp][q])
              /\ \A j \in DOMAIN Paths[lp] : i < j /\ j < q => ~compare(ip, Paths[lp][j])
  <1>1. PICK p \in Families : p = Paths /\ Base /\ Represents(p) /\ LoopFits(p)
    BY IInvIs
  <1>2. /\ op = "sort" /\ lp \in made /\ lp \in Lists /\ lp \in sorted /\ ip \in Members(p[lp])
        /\ Misplaced # {}
    BY <1>1 DEF SortSwap, LoopFits, Base, Idle
  <1>3. PICK l \in Lists : l = lp
    BY <1>2
  <1>4. Linked(p[l], first[l], nxt, prev) /\ HeaderFits(l, p[l])
    BY <1>1 DEF Represents
  <1>5. PICK i \in DOMAIN p[l] : ip = p[l][i]
    BY <1>2, <1>3 DEF Members
  <1>6. PICK q \in DOMAIN p[l] : /\ i < q /\ Picked = p[l][q] /\ compare(ip, p[l][q])
                                 /\ \A j \in DOMAIN p[l] : i < j /\ j < q => ~compare(ip, p[l][j])
    <2>1. TypeOK
      BY DEF IInv
    <2> QED
      BY ONLY <1>2, <1>4, <1>5, <2>1, PickedIsAfter
  <1> DEFINE t == Picked
             u == Moved(p[l], i, q)
             p2 == [p EXCEPT ![l] = u]
  <1>0. p2 = [p EXCEPT ![l] = Moved(@, i, q)]
    OBVIOUS
  <1>7. /\ \A n \in Nodes : nxt'[n] = IF n = t THEN ip
                                      ELSE IF n = prev[ip] THEN t
                                      ELSE IF n = prev[t] THEN nxt[t] ELSE nxt[n]
        /\ \A n \in Nodes : prev'[n] = IF n = t THEN prev[ip]
                                       ELSE IF n = ip THEN t
                                       ELSE IF n = nxt[t] THEN prev[t] ELSE prev[n]
        /\ ip' = t
        /\ first' = [first EXCEPT ![l] = IF prev[ip] = Null THEN t ELSE first[l]]
        /\ UNCHANGED <<made, last, next, key, live, op, lp, descending, before, source, sorted>>
    BY <1>3 DEF SortSwap
  <1>8. t = p[l][q]
    BY <1>6
  <1> HIDE DEF t
  <1>9. /\ Linked(u, IF prev[ip] = Null THEN t ELSE first[l], nxt', prev')
        /\ Members(u) = Members(p[l])
    BY ONLY <1>4, <1>5, <1>6, <1>7, <1>8, LinkedMove
  <1> HIDE DEF u
  <1>10. p2 \in Families /\ p2[l] = u /\ \A m \in Lists : m # l => p2[m] = p[m]
    BY <1>9, LinkedIsSeq DEF Families
  <1> HIDE DEF p2
  <1>11. /\ first'[l] = (IF prev[ip] = Null THEN t ELSE first[l])
         /\ \A m \in Lists : m # l => first'[m] = first[m] /\ last'[m] = last[m] /\ next'[m] = next[m]
    BY <1>1, <1>7 DEF Base
  <1>12. Members(p[l]) \subseteq live /\ t \in Members(p[l])
    BY <1>1, <1>6, <1>8 DEF Represents, Members
  <1>13. HeaderFits(l, u)'
    <2>1. HeaderFits(l, p[l]) /\ l \in made /\ l \in sorted
      BY <1>2, <1>3, <1>4
    <2> QED
      BY <1>7, <1>9, <2>1 DEF HeaderFits
  <1>14. \A n \in Nodes : n \notin Members(p[l]) => nxt'[n] = nxt[n] /\ prev'[n] = prev[n]
    <2> SUFFICES ASSUME NEW n \in Nodes, n \notin Members(p[l])
                 PROVE  nxt'[n] = nxt[n] /\ prev'[n] = prev[n]
      OBVIOUS
    <2>1. /\ prev[ip] \in Members(p[l]) \cup {Null} /\ prev[t] \in Members(p[l]) \cup {Null}
          /\ nxt[t] \in Members(p[l]) \cup {Null}
      BY <1>2, <1>3, <1>4, <1>12, Neighbours
    <2>2. n # t /\ n # ip /\ n # prev[ip] /\ n # prev[t] /\ n # nxt[t]
      BY <1>2, <1>3, <1>12, <2>1, ListAssumption
    <2> QED
      BY <1>7, <2>2
  <1>15. \A m \in Lists : m # l => \A n \in Members(p[m]) : nxt'[n] = nxt[n] /\ prev'[n] = prev[n]
    <2> SUFFICES ASSUME NEW m \in Lists, m # l, NEW n \in Members(p[m])
                 PROVE  n \in Nodes /\ n \notin Members(p[l])
      BY <1>14
    <2> QED
      BY <1>1, Neighbours DEF Represents
  <1>16. \A n \in Nodes \ live' : prev'[n] = Null /\ nxt'[n] = Null
    BY <1>1, <1>7, <1>12, <1>14 DEF Represents
  <1>17. Members(p2[l]) \cap live \subseteq Members(p[l])
         /\ live' = (live \ Members(p[l])) \cup Members(p2[l])
    BY <1>7, <1>9, <1>10, <1>12
  <1>18. Linked(p2[l], first'[l], nxt', prev') /\ HeaderFits(l, p2[l])'
    BY <1>9, <1>10, <1>11, <1>13
  <1>19. Represents(p2)'
    BY <1>1, <1>7, <1>10, <1>11, <1>15, <1>16, <1>17, <1>18, OneListChanged
  <1>20. LoopFits(p2)'
    BY <1>2, <1>3, <1>7, <1>9, <1>10, <1>12 DEF LoopFits, Idle
  <1>21. Base'
    <2>1. DOMAIN first' = Lists /\ first' = [m \in Lists |-> first'[m]]
      BY <1>1, <1>7 DEF Base
    <2>2. /\ DOMAIN prev' = Nodes /\ prev' = [m \in Nodes |-> prev'[m]]
          /\ DOMAIN nxt' = Nodes /\ nxt' = [m \in Nodes |-> nxt'[m]]
      BY DEF SortSwap
    <2>3. ip' \in live' \cup {Null}
      BY <1>7, <1>12
    <2> QED
      BY <1>1, <1>7, <2>1, <2>2, <2>3 DEF Base
  <1> QED
    BY <1>0, <1>1, <1>3, <1>5, <1>6, <1>7, <1>8, <1>10, <1>19, <1>20, <1>21, IInvNext, PathsAre

-----------------------------------------------------------------------------
LEMMA StutterNext == IInv /\ UNCHANGED vars => IInv'
  <1> SUFFICES ASSUME IInv, UNCHANGED vars PROVE IInv'
    OBVIOUS
  <1>1. PICK p \in Families : Base /\ Represents(p) /\ LoopFits(p)
    BY IInvIs
  <1>2. Base' /\ LoopFits(p)'
    BY <1>1 DEF vars, headers, heap, loop, Base, LoopFits, Idle
  <1>3. Represents(p)'
    BY <1>1, RepresentsKept DEF vars, headers, heap, Represents, HeaderFits
  <1> QED
    BY <1>2, <1>3, IInvNext

LEMMA StepNext ==
  ASSUME ~AddAfterSort, IInv, Next
  PROVE  IInv'
  <1>1. CASE SortSwap \/ SortNext \/ CopyFails \/ LoopEnds
    BY <1>1, SortSwapNext, LoopStepNext
  <1>6. CASE CopyItem
    BY <1>6, CopyItemNext DEF CopyItem
  <1>2. CASE \E l \in Lists : list_create(l) \/ list_destroy(l) \/ list_get_next(l)
                              \/ list_reset(l) \/ list_sort(l)
    BY <1>2, CreateNext, DestroyNext, CursorNext, SortBegins
  <1>3. CASE \E l \in Lists : \E n \in Nodes, k \in Keys : list_add(l, n, k)
    BY <1>3, AddNext
  <1>4. CASE \E l \in Lists : \E n \in Nodes : list_delete(l, n)
    BY <1>4, DeleteNext
  <1>5. CASE \E l \in Lists : \E l2 \in Lists : list_add_list(l, l2) \/ list_dup(l2, l)
    BY <1>5, CopyBegins
  <1> QED
    BY <1>1, <1>2, <1>3, <1>4, <1>5, <1>6 DEF Next, LoopStep

(* What no order of the calls of src/util/list.c does: link a node into two  *)
(* lists or out of one, leave first, next or prev pointing at freed memory,  *)
(* or make list_add append anywhere but at the end.  The callers modelled    *)
(* here do not add to a list after list_sort: last is wrong from then on.    *)
THEOREM Invariance ==
  ASSUME ~AddAfterSort
  PROVE  Spec => []IInv
  <1>1. Init => IInv
    BY InitIInv
  <1>2. IInv /\ [Next]_vars => IInv'
    BY StepNext, StutterNext
  <1> QED
    BY <1>1, <1>2, PTL DEF Spec

LEMMA EndOfLinked ==
  ASSUME NEW s, NEW head, NEW nx, NEW pr, Linked(s, head, nx, pr), s # <<>>
  PROVE  /\ s[Len(s)] \in Members(s) /\ nx[s[Len(s)]] = Null
         /\ head = s[1] /\ head \in Nodes
  <1>1. Chain(Len(s), s, head, nx, pr) /\ DOMAIN s = 1..Len(s) /\ Len(s) \in Nat \ {0}
    BY LinkedIsChain, LinkedIsSeq
  <1> SUFFICES ASSUME NEW L \in Nat \ {0}, L = Len(s), Chain(L, s, head, nx, pr), DOMAIN s = 1..L
               PROVE  /\ s[L] \in Members(s) /\ nx[s[L]] = Null
                      /\ head = s[1] /\ head \in Nodes
    BY <1>1
  <1>2. 1 \in 1..L /\ L \in 1..L
    OBVIOUS
  <1> QED
    BY <1>2 DEF Chain, Members

LEMMA InvImplies == IInv => ListIsIntact
  <1> SUFFICES ASSUME IInv PROVE ListIsIntact
    OBVIOUS
  <1>1. PICK p \in Families : /\ p = Paths /\ Represents(p)
                              /\ \A l \in Lists : NodesOf(l) = Members(p[l])
    BY IInvIs
  <1>2. \A l \in Lists : p[l] = From(first[l]) /\ Linked(p[l], first[l], nxt, prev) /\ HeaderFits(l, p[l])
    BY <1>1 DEF Paths, Represents
  <1>3. \A l \in Lists : Members(p[l]) \subseteq live
    BY <1>1 DEF Represents
  <1>5. WellLinked
    <2>1. ASSUME NEW l \in Lists
          PROVE  /\ \A i, j \in DOMAIN p[l] : p[l][i] = p[l][j] => i = j
                 /\ \A i \in DOMAIN p[l] :
                      /\ p[l][i] \in live
                      /\ prev[p[l][i]] = IF i = 1 THEN Null ELSE p[l][i - 1]
                 /\ p[l] # <<>> => nxt[p[l][Len(p[l])]] = Null
      <3>1. Linked(p[l], first[l], nxt, prev)
        BY <1>2
      <3>2. p[l] # <<>> => nxt[p[l][Len(p[l])]] = Null
        BY <3>1, EndOfLinked
      <3>3. \A i \in DOMAIN p[l] : p[l][i] \in live
        BY <1>3 DEF Members
      <3>4. /\ \A i, j \in DOMAIN p[l] : p[l][i] = p[l][j] => i = j
            /\ \A i \in DOMAIN p[l] : prev[p[l][i]] = IF i = 1 THEN Null ELSE p[l][i - 1]
        BY <3>1 DEF Linked
      <3> QED
        BY <3>2, <3>3, <3>4
    <2>2. \A l, m \in Lists : l # m => NodesOf(l) \cap NodesOf(m) = {}
      BY <1>1 DEF Represents
    <2> QED
      BY <1>2, <2>1, <2>2 DEF WellLinked
  <1>6. NoLeak
    <2>1. live = UNION { NodesOf(l) : l \in Lists }
      BY <1>1 DEF Represents
    <2>2. \A l \in Lists \ made : NodesOf(l) = {}
      BY <1>1, <1>2, EmptyLinked DEF HeaderFits
    <2>3. made \subseteq Lists
      BY DEF IInv, TypeOK
    <2> QED
      BY <2>1, <2>2, <2>3 DEF NoLeak
  <1>7. CursorInList
    BY <1>1, <1>2 DEF CursorInList, HeaderFits
  <1>8. AppendGoesLast
    <2> SUFFICES ASSUME NEW l \in made \ sorted
                 PROVE  IF first[l] = Null THEN last[l] = Null
                        ELSE last[l] \in NodesOf(l) /\ nxt[last[l]] = Null
      BY DEF AppendGoesLast
    <2>1. l \in Lists
      BY DEF IInv, TypeOK
    <2>2. Linked(p[l], first[l], nxt, prev) /\ HeaderFits(l, p[l])
      BY <1>2, <2>1
    <2>3. last[l] = IF p[l] = <<>> THEN Null ELSE p[l][Len(p[l])]
      BY <2>2 DEF HeaderFits
    <2>4. CASE p[l] = <<>>
      BY <2>2, <2>3, <2>4 DEF Linked
    <2>5. CASE p[l] # <<>>
      <3>1. p[l][Len(p[l])] \in Members(p[l]) /\ nxt[p[l][Len(p[l])]] = Null /\ first[l] \in Nodes
        BY <2>2, <2>5, EndOfLinked
      <3>2. first[l] # Null
        BY <3>1, ListAssumption
      <3>3. last[l] \in NodesOf(l) /\ nxt[last[l]] = Null
        BY <1>1, <2>1, <2>3, <2>5, <3>1
      <3> QED
        BY <3>2, <3>3
    <2> QED
      BY <2>4, <2>5
  <1> QED
    BY <1>5, <1>6, <1>7, <1>8 DEF ListIsIntact, IInv

(* No order of calls breaks a list of src/util/list.c, however many lists,   *)
(* nodes and keys there are.                                                 *)
THEOREM ListsStayIntact ==
  ASSUME ~AddAfterSort
  PROVE  Spec => []ListIsIntact
  BY Invariance, InvImplies, PTL
-----------------------------------------------------------------------------
(* The list of list.c implements ListSeq.  First what its operators make of  *)
(* the records of a walk.                                                    *)

Rec == [id : Nodes, key : Keys]

LEMMA RecordsAre ==
  ASSUME NEW s \in Seq(Nodes), NEW ky \in [Nodes -> Keys]
  PROVE  /\ Records(s, ky) \in Seq(Rec) /\ Len(Records(s, ky)) = Len(s) /\ Len(s) \in Nat
         /\ DOMAIN s = 1..Len(s) /\ DOMAIN Records(s, ky) = 1..Len(s)
         /\ \A i \in 1..Len(s) : /\ Records(s, ky)[i] = [id |-> s[i], key |-> ky[s[i]]]
                                 /\ Records(s, ky)[i].id = s[i]
                                 /\ Records(s, ky)[i].key = ky[s[i]]
         /\ Records(s, ky) = <<>> <=> s = <<>>
  <1>1. Len(s) \in Nat /\ DOMAIN s = 1..Len(s) /\ \A i \in 1..Len(s) : s[i] \in Nodes
    OBVIOUS
  <1>2. \A i \in 1..Len(s) : [id |-> s[i], key |-> ky[s[i]]] \in Rec
    BY <1>1 DEF Rec
  <1>3. Records(s, ky) \in [1..Len(s) -> Rec]
    BY <1>1, <1>2 DEF Records
  <1>4. /\ Records(s, ky) \in Seq(Rec) /\ Len(Records(s, ky)) = Len(s)
        /\ DOMAIN Records(s, ky) = 1..Len(s)
    BY ONLY <1>1, <1>3
  <1>5. Records(s, ky) = <<>> <=> s = <<>>
    <2>1. s = <<>> <=> Len(s) = 0
      BY <1>1
    <2>2. Records(s, ky) = <<>> <=> Len(Records(s, ky)) = 0
      BY ONLY <1>4
    <2> QED
      BY <1>4, <2>1, <2>2
  <1>6. \A i \in 1..Len(s) : Records(s, ky)[i] = [id |-> s[i], key |-> ky[s[i]]]
    BY <1>1 DEF Records
  <1> QED
    BY <1>1, <1>4, <1>5, <1>6

LEMMA RecordsKept ==
  ASSUME NEW s, NEW ky, NEW ky2, \A n \in Members(s) : ky2[n] = ky[n]
  PROVE  Records(s, ky2) = Records(s, ky)
  BY DEF Records, Members

LEMMA IdsOfRecords ==
  ASSUME NEW s \in Seq(Nodes), NEW ky \in [Nodes -> Keys]
  PROVE  Abstract!Ids(Records(s, ky)) = Members(s)
  <1> DEFINE r == Records(s, ky)
  <1>1. DOMAIN r = DOMAIN s /\ \A i \in DOMAIN s : r[i].id = s[i]
    BY DEF Records
  <1> HIDE DEF r
  <1>2. { r[i].id : i \in DOMAIN r } = { s[i] : i \in DOMAIN s }
    BY <1>1
  <1> QED
    BY <1>2 DEF Abstract!Ids, Members, r

LEMMA RecordsAppend ==
  ASSUME NEW s \in Seq(Nodes), NEW ky \in [Nodes -> Keys], NEW n \in Nodes, n \notin Members(s),
         NEW k \in Keys, NEW ky2 \in [Nodes -> Keys],
         ky2[n] = k, \A m \in Nodes : m # n => ky2[m] = ky[m]
  PROVE  Records(Append(s, n), ky2) = Append(Records(s, ky), [id |-> n, key |-> k])
  <1> DEFINE t == Append(s, n)
             r == Records(s, ky)
             e == [id |-> n, key |-> k]
  <1>1. /\ t \in Seq(Nodes) /\ Len(t) = Len(s) + 1 /\ t[Len(s) + 1] = n
        /\ \A i \in 1..Len(s) : t[i] = s[i]
    BY AppendProperties
  <1>2. ky2 \in [Nodes -> Keys] /\ ky2[n] = k /\ \A m \in Members(s) : ky2[m] = ky[m]
    BY DEF Members
  <1>3. r \in Seq(Rec) /\ e \in Rec /\ Len(r) = Len(s) /\ Len(s) \in Nat
        /\ DOMAIN s = 1..Len(s)
        /\ \A i \in 1..Len(s) : r[i] = [id |-> s[i], key |-> ky[s[i]]]
    BY RecordsAre DEF Rec
  <1>4. /\ Records(t, ky2) \in Seq(Rec) /\ Len(Records(t, ky2)) = Len(s) + 1
        /\ \A i \in 1 .. Len(s) + 1 : Records(t, ky2)[i] = [id |-> t[i], key |-> ky2[t[i]]]
    <2>1. /\ Records(t, ky2) \in Seq(Rec) /\ Len(Records(t, ky2)) = Len(t)
          /\ \A i \in 1 .. Len(t) : Records(t, ky2)[i] = [id |-> t[i], key |-> ky2[t[i]]]
      BY ONLY <1>1, <1>2, RecordsAre
    <2> QED
      BY ONLY <1>1, <2>1
  <1> HIDE DEF r, e, t
  <1>5. /\ Append(r, e) \in Seq(Rec) /\ Len(Append(r, e)) = Len(s) + 1
        /\ \A i \in 1..Len(s) : Append(r, e)[i] = r[i]
        /\ Append(r, e)[Len(s) + 1] = e
    BY <1>3, AppendProperties
  <1>6. ASSUME NEW i \in 1 .. Len(s) + 1 PROVE Records(t, ky2)[i] = Append(r, e)[i]
    <2>1. CASE i \in 1..Len(s)
      <3>1. t[i] = s[i] /\ ky2[s[i]] = ky[s[i]]
        BY <1>1, <1>2, <1>3, <2>1 DEF Members
      <3>2. Records(t, ky2)[i] = [id |-> t[i], key |-> ky2[t[i]]]
        BY <1>4
      <3>3. Append(r, e)[i] = r[i] /\ r[i] = [id |-> s[i], key |-> ky[s[i]]]
        BY <1>3, <1>5, <2>1
      <3> QED
        BY ONLY <3>1, <3>2, <3>3
    <2>2. CASE i = Len(s) + 1
      BY <1>1, <1>2, <1>4, <1>5, <2>2 DEF e
    <2> QED
      BY <1>3, <2>1, <2>2
  <1>7. Records(t, ky2) = Append(r, e)
    BY ONLY <1>4, <1>5, <1>6, SeqEqual
  <1> QED
    BY <1>7 DEF t, r, e

LEMMA RecordsRemove ==
  ASSUME NEW s \in Seq(Nodes), NEW ky \in [Nodes -> Keys], NEW q \in DOMAIN s,
         NEW ky2 \in [Nodes -> Keys], \A n \in Members(Removed(s, q)) : ky2[n] = ky[n]
  PROVE  Records(Removed(s, q), ky2) = Abstract!RemoveAt(Records(s, ky), q)
  <1> DEFINE t == Removed(s, q)
             r == Records(s, ky)
             L == Len(s)
             a == SubSeq(r, 1, q - 1)
             b == SubSeq(r, q + 1, L)
  <1>1. L \in Nat /\ q \in 1..L /\ \A i \in 1..L : s[i] \in Nodes
    BY LenProperties, ElementOfSeq
  <1>2. t \in [1 .. L - 1 -> Nodes] /\ \A j \in 1 .. L - 1 : t[j] = IF j < q THEN s[j] ELSE s[j + 1]
    BY <1>1 DEF Removed
  <1> HIDE DEF t
  <1>3. t \in Seq(Nodes) /\ Len(t) = L - 1
    <2>1. L - 1 \in Nat
      BY <1>1
    <2> QED
      BY ONLY <1>2, <2>1, SeqBounds
  <1>4. Records(t, ky) = Records(t, ky2)
    BY RecordsKept DEF t
  <1>5. r \in Seq(Rec) /\ Len(r) = L /\ \A i \in 1..L : r[i] = [id |-> s[i], key |-> ky[s[i]]] /\ r[i] \in Rec
    <2>1. r \in Seq(Rec) /\ Len(r) = L /\ \A i \in 1..L : r[i] = [id |-> s[i], key |-> ky[s[i]]]
      BY RecordsAre
    <2> QED
      BY <2>1, ElementOfSeq
  <1>6. /\ Records(t, ky) \in Seq(Rec) /\ Len(Records(t, ky)) = L - 1
        /\ \A i \in 1 .. L - 1 : Records(t, ky)[i] = [id |-> t[i], key |-> ky[t[i]]]
    BY <1>3, RecordsAre
  <1> HIDE DEF r, L
  <1>7. a \in Seq(Rec) /\ Len(a) = q - 1 /\ \A i \in 1 .. q - 1 : a[i] = r[i]
    <2>1. 1 \in Int /\ q - 1 \in Int /\ \A i \in 1 .. q - 1 : r[i] \in Rec /\ 1 + i - 1 = i
      BY <1>1, <1>5
    <2>2. a \in Seq(Rec) /\ Len(a) = (IF 1 <= q - 1 THEN (q - 1) - 1 + 1 ELSE 0)
          /\ \A i \in 1 .. (q - 1) - 1 + 1 : a[i] = r[1 + i - 1]
      BY ONLY <2>1, SubSeqProperties
    <2> HIDE DEF a
    <2> QED
      BY <1>1, <2>1, <2>2
  <1>8. b \in Seq(Rec) /\ Len(b) = L - q /\ \A i \in 1 .. L - q : b[i] = r[q + i]
    <2>1. q + 1 \in Int /\ L \in Int /\ \A i \in q + 1 .. L : r[i] \in Rec
      BY <1>1, <1>5
    <2>2. b \in Seq(Rec) /\ Len(b) = (IF q + 1 <= L THEN L - (q + 1) + 1 ELSE 0)
          /\ \A i \in 1 .. L - (q + 1) + 1 : b[i] = r[(q + 1) + i - 1]
      BY ONLY <2>1, SubSeqProperties
    <2> HIDE DEF b
    <2> QED
      BY <1>1, <2>2
  <1> HIDE DEF a, b
  <1>9. /\ a \o b \in Seq(Rec) /\ Len(a \o b) = L - 1
        /\ \A i \in 1 .. L - 1 : (a \o b)[i] = IF i <= q - 1 THEN r[i] ELSE r[i + 1]
    <2>1. /\ a \o b \in Seq(Rec) /\ Len(a \o b) = Len(a) + Len(b)
          /\ \A i \in 1 .. Len(a) + Len(b) : (a \o b)[i] = IF i <= Len(a) THEN a[i] ELSE b[i - Len(a)]
      BY ONLY <1>7, <1>8, ConcatProperties
    <2>2. Len(a) + Len(b) = L - 1
      BY <1>1, <1>7, <1>8
    <2>3. ASSUME NEW i \in 1 .. L - 1 PROVE (a \o b)[i] = IF i <= q - 1 THEN r[i] ELSE r[i + 1]
      <3>1. CASE i <= q - 1
        BY <1>1, <1>7, <2>1, <2>2, <3>1
      <3>2. CASE ~(i <= q - 1)
        <4>1. i - (q - 1) \in 1 .. L - q /\ q + (i - (q - 1)) = i + 1
          BY <1>1, <3>2
        <4>2. (a \o b)[i] = b[i - (q - 1)]
          BY <1>7, <2>1, <2>2, <3>2
        <4> QED
          BY <1>8, <3>2, <4>1, <4>2
      <3> QED
        BY <3>1, <3>2
    <2> QED
      BY <2>1, <2>2, <2>3
  <1>10. ASSUME NEW i \in 1 .. L - 1 PROVE Records(t, ky)[i] = (a \o b)[i]
    <2>1. i \in 1..L /\ i + 1 \in 1..L /\ (i < q <=> i <= q - 1)
      BY <1>1
    <2>2. Records(t, ky)[i] = [id |-> t[i], key |-> ky[t[i]]]
      BY <1>6
    <2>3. t[i] = IF i <= q - 1 THEN s[i] ELSE s[i + 1]
      BY <1>2, <2>1
    <2>4. r[i] = [id |-> s[i], key |-> ky[s[i]]] /\ r[i + 1] = [id |-> s[i + 1], key |-> ky[s[i + 1]]]
      BY <1>5, <2>1
    <2>5. (a \o b)[i] = IF i <= q - 1 THEN r[i] ELSE r[i + 1]
      BY <1>9
    <2> QED
      BY ONLY <2>2, <2>3, <2>4, <2>5
  <1>11. Records(t, ky) = a \o b
    BY ONLY <1>6, <1>9, <1>10, SeqEqual
  <1>12. Abstract!RemoveAt(r, q) = a \o b
    BY <1>5 DEF Abstract!RemoveAt, a, b
  <1> QED
    BY <1>4, <1>11, <1>12 DEF t, r

(* The item after that of a node is that of the next node.                   *)
LEMMA FollowingIs ==
  ASSUME NEW s, NEW head, NEW nx, NEW pr, Linked(s, head, nx, pr), NEW ky \in [Nodes -> Keys],
         NEW n \in Members(s)
  PROVE  Abstract!Following(Records(s, ky), n) = nx[n]
  <1> DEFINE r == Records(s, ky)
  <1>1. PICK i \in DOMAIN s : n = s[i]
    BY DEF Members
  <1>2. s \in Seq(Nodes)
    BY DEF Linked
  <1>3. /\ Len(r) = Len(s) /\ Len(s) \in Nat /\ DOMAIN r = DOMAIN s /\ DOMAIN s = 1..Len(s)
        /\ \A j \in 1..Len(s) : r[j].id = s[j]
    BY <1>2, RecordsAre
  <1> HIDE DEF r
  <1> DEFINE c == CHOOSE j \in DOMAIN r : r[j].id = n
  <1>4. c = i
    BY <1>1, <1>3 DEF Linked
  <1>8. Abstract!Following(r, n) = IF c = Len(r) THEN Null ELSE r[c + 1].id
    BY DEF Abstract!Following
  <1> HIDE DEF c
  <1>5. Abstract!Following(r, n) = IF i = Len(s) THEN Null ELSE r[i + 1].id
    BY ONLY <1>3, <1>4, <1>8
  <1>6. nx[n] = IF i = Len(s) THEN Null ELSE s[i + 1]
    BY <1>1 DEF Linked
  <1>7. i # Len(s) => i + 1 \in DOMAIN s
    BY <1>3
  <1> QED
    BY <1>3, <1>5, <1>6, <1>7 DEF r

(* list_sort's move: the item at q, which belongs before the one at i, goes  *)
(* there; none of the items it passes has its key.                           *)
LEMMA MoveSorts ==
  ASSUME NEW t \in Seq(Rec), NEW d \in BOOLEAN, NEW b, NEW i \in DOMAIN t, NEW q \in DOMAIN t, i < q,
         ~Abstract!InOrder(t, i, q, d),
         \A j \in DOMAIN t : i < j /\ j < q => Abstract!InOrder(t, i, j, d),
         \A m, n \in DOMAIN t : m < i /\ m < n => Abstract!InOrder(t, m, n, d),
         Abstract!Rearranged(t, b), Abstract!Stable(t, b)
  PROVE  LET u == Moved(t, i, q) IN
         /\ Abstract!Rearranged(u, b) /\ Abstract!Stable(u, b)
         /\ \A m, n \in DOMAIN u : m < i /\ m < n => Abstract!InOrder(u, m, n, d)
  <1> DEFINE L == Len(t)
             u == Moved(t, i, q)
             at(j) == IF j = i THEN q ELSE IF i < j /\ j <= q THEN j - 1 ELSE j
  <1>1. /\ L \in Nat /\ DOMAIN t = 1..L /\ i \in 1..L /\ q \in 1..L /\ i < q
        /\ \A j \in 1..L : t[j] \in Rec /\ t[j].key \in Nat
    <2>1. /\ L \in Nat /\ DOMAIN t = 1..L /\ i \in 1..L /\ q \in 1..L
      BY LenProperties
    <2>2. \A j \in 1..L : t[j] \in Rec
      BY <2>1, ElementOfSeq
    <2> QED
      BY <2>1, <2>2, ListAssumption DEF Rec
  <1>2. \A j \in 1..L : at(j) \in 1..L
    BY <1>1
  <1>3. u \in [1..L -> Rec] /\ \A j \in 1..L : u[j] = t[at(j)]
    BY <1>1 DEF Moved
  <1> HIDE DEF u
  <1>4. u \in Seq(Rec) /\ Len(u) = L /\ DOMAIN u = 1..L
    BY ONLY <1>1, <1>3
  <1> HIDE DEF L
  <1>5. \A m \in 1..L : \E j \in 1..L : at(j) = m
    <2> SUFFICES ASSUME NEW m \in 1..L PROVE \E j \in 1..L : at(j) = m
      OBVIOUS
    <2>1. CASE m = q
      BY <1>1, <2>1
    <2>2. CASE i <= m /\ m < q
      <3>1. m + 1 \in 1..L /\ m + 1 # i /\ i < m + 1 /\ m + 1 <= q /\ (m + 1) - 1 = m
        BY <1>1, <2>2
      <3>2. at(m + 1) = m
        BY ONLY <3>1
      <3> HIDE DEF at
      <3> QED
        BY <3>1, <3>2
    <2>3. CASE m < i \/ q < m
      BY <1>1, <2>3
    <2> QED
      BY <1>1, <2>1, <2>2, <2>3
  <1>6. ASSUME NEW m \in 1..L, NEW n \in 1..L, m < n
        PROVE  at(m) < at(n) \/ (m = i /\ i < n /\ n <= q)
    BY <1>1, <1>6
  <1>7. ASSUME NEW m \in 1..L, NEW n \in 1..L, m < i, m < n PROVE at(m) = m /\ m < at(n)
    BY <1>1, <1>7
  <1>8. at(i) = q /\ \A n \in 1..L : i < n /\ n <= q => at(n) = n - 1
    BY <1>1
  <1> HIDE DEF at
  <1>9. Abstract!Rearranged(u, b)
    <2>0. \A m \in 1..L : \E j \in 1..L : u[j] = t[m]
      <3> SUFFICES ASSUME NEW m \in 1..L PROVE \E j \in 1..L : u[j] = t[m]
        OBVIOUS
      <3>1. PICK j \in 1..L : at(j) = m
        BY <1>5
      <3> QED
        BY <1>3, <3>1
    <2>2. \A j \in 1..L : \E m \in 1..L : u[j] = t[m]
      BY <1>2, <1>3
    <2> DEFINE U == { u[j] : j \in 1..L }
               T == { t[j] : j \in 1..L }
    <2>3. U \subseteq T
      BY <2>2
    <2>4. T \subseteq U
      BY <2>0
    <2>1. U = T
      BY ONLY <2>3, <2>4
    <2> QED
      BY <1>1, <1>4, <2>1 DEF Abstract!Rearranged, Abstract!ToSet, L
  <1>10. ASSUME NEW m \in 1..L, NEW n \in 1..L, m < i, m < n PROVE Abstract!InOrder(u, m, n, d)
    <2>1. u[m] = t[m] /\ u[n] = t[at(n)] /\ at(n) \in 1..L /\ m < at(n)
      BY <1>2, <1>3, <1>7, <1>10
    <2>2. Abstract!InOrder(t, m, at(n), d)
      BY <1>1, <1>10, <2>1
    <2> QED
      BY <2>1, <2>2 DEF Abstract!InOrder
  <1>11. ASSUME NEW n \in 1..L, i < n, n <= q PROVE t[at(i)].key # t[at(n)].key
    <2>5. n \in Int /\ L \in Nat /\ i \in Int /\ q \in Int /\ i < n /\ n <= q
          /\ 1 <= i /\ 1 <= n /\ n <= L
      BY <1>1, <1>11
    <2>0. n - 1 \in 1..L /\ (n - 1 = i \/ (i < n - 1 /\ n - 1 < q))
      BY ONLY <2>5
    <2>1. n - 1 \in 1..L /\ (n - 1 = i \/ (i < n - 1 /\ n - 1 < q)) /\ at(i) = q /\ at(n) = n - 1
      BY <1>8, <1>11, <2>0
    <2>2. n - 1 = i \/ Abstract!InOrder(t, i, n - 1, d)
      BY <1>1, <2>1
    <2>3. t[q].key \in Nat /\ t[i].key \in Nat /\ t[n - 1].key \in Nat
      BY <1>1, <2>1
    <2>4. t[q].key # t[n - 1].key
      <3>1. CASE n - 1 = i
        BY <2>3, <3>1 DEF Abstract!InOrder
      <3>2. CASE Abstract!InOrder(t, i, n - 1, d)
        BY <2>3, <3>2 DEF Abstract!InOrder
      <3> QED
        BY <2>2, <3>1, <3>2
    <2> QED
      BY <2>1, <2>4
  <1>12. Abstract!Stable(u, b)
    <2> SUFFICES ASSUME NEW x \in 1..L, NEW y \in 1..L, NEW m \in DOMAIN b, NEW n \in DOMAIN b,
                        x < y, b[m] = u[x], b[n] = u[y], b[m].key = b[n].key
                 PROVE  m < n
      BY <1>4 DEF Abstract!Stable
    <2>1. b[m] = t[at(x)] /\ b[n] = t[at(y)] /\ at(x) \in 1..L /\ at(y) \in 1..L
      BY <1>2, <1>3
    <2>2. at(x) < at(y)
      BY <1>6, <1>11, <2>1
    <2> QED
      BY <1>1, <2>1, <2>2 DEF Abstract!Stable
  <1> QED
    BY <1>4, <1>9, <1>10, <1>12 DEF u

(* A move of a node is that move of its record.                              *)
LEMMA RecordsMove ==
  ASSUME NEW s \in Seq(Nodes), NEW ky \in [Nodes -> Keys], NEW i \in DOMAIN s, NEW q \in DOMAIN s, i < q
  PROVE  Records(Moved(s, i, q), ky) = Moved(Records(s, ky), i, q)
  <1> DEFINE r == Records(s, ky)
             L == Len(s)
             u == Moved(s, i, q)
  <1>1. /\ Len(r) = L /\ L \in Nat /\ DOMAIN s = 1..L
        /\ \A j \in 1..L : r[j] = [id |-> s[j], key |-> ky[s[j]]]
    BY RecordsAre
  <1>2. DOMAIN u = 1..L /\ \A j \in 1..L : u[j] = IF j = i THEN s[q] ELSE IF i < j /\ j <= q THEN s[j - 1] ELSE s[j]
    BY <1>1 DEF Moved
  <1>3. \A j \in 1..L : i < j /\ j <= q => j - 1 \in 1..L
    BY <1>1
  <1>4. Records(u, ky) = [j \in 1..L |-> [id |-> u[j], key |-> ky[u[j]]]]
    BY <1>2 DEF Records
  <1> HIDE DEF r, u, L
  <1>5. ASSUME NEW j \in 1..L
        PROVE  [id |-> u[j], key |-> ky[u[j]]] = IF j = i THEN r[q] ELSE IF i < j /\ j <= q THEN r[j - 1] ELSE r[j]
    BY <1>1, <1>2, <1>3
  <1>6. Moved(r, i, q) = [j \in 1..L |-> IF j = i THEN r[q] ELSE IF i < j /\ j <= q THEN r[j - 1] ELSE r[j]]
    BY <1>1 DEF Moved
  <1> QED
    BY <1>4, <1>5, <1>6 DEF r, u

-----------------------------------------------------------------------------
(* The operations without a loop take the step of ListSeq they are named     *)
(* after.                                                                    *)

View == [l \in Lists |-> Records(Paths[l], key)]

LEMMA Facts ==
  ASSUME IInv
  PROVE  /\ made \subseteq Lists /\ key \in [Nodes -> Keys] /\ Paths \in Families /\ live \subseteq Nodes
         /\ next = [l \in Lists |-> next[l]] /\ DOMAIN next = Lists
         /\ \A l \in Lists : /\ Paths[l] \in Seq(Nodes) /\ Linked(Paths[l], first[l], nxt, prev)
                             /\ HeaderFits(l, Paths[l]) /\ Members(Paths[l]) \subseteq live
                             /\ NodesOf(l) = Members(Paths[l])
         /\ \A l, m \in Lists : l # m => Members(Paths[l]) \cap Members(Paths[m]) = {}
         /\ live = UNION { Members(Paths[l]) : l \in Lists }
         /\ DOMAIN View = Lists /\ \A l \in Lists : View[l] = Records(Paths[l], key)
  <1>1. PICK p \in Families : /\ p = Paths /\ Base /\ Represents(p) /\ LoopFits(p)
                              /\ \A l \in Lists : NodesOf(l) = Members(p[l])
    BY IInvIs
  <1>2. made \subseteq Lists /\ key \in [Nodes -> Keys] /\ live \subseteq Nodes
    BY DEF IInv, TypeOK
  <1>3. next = [l \in Lists |-> next[l]] /\ DOMAIN next = Lists
    BY <1>1 DEF Base
  <1>4. \A l \in Lists : /\ p[l] \in Seq(Nodes) /\ Linked(p[l], first[l], nxt, prev)
                         /\ HeaderFits(l, p[l]) /\ Members(p[l]) \subseteq live
    BY <1>1, LinkedIsSeq DEF Represents
  <1>5. /\ \A l, m \in Lists : l # m => Members(p[l]) \cap Members(p[m]) = {}
        /\ live = UNION { Members(p[l]) : l \in Lists }
    BY <1>1 DEF Represents
  <1>6. DOMAIN View = Lists /\ \A l \in Lists : View[l] = Records(Paths[l], key)
    BY DEF View
  <1> QED
    BY <1>1, <1>2, <1>3, <1>4, <1>5, <1>6

LEMMA IdleView ==
  IInv /\ Idle => AbstractMade = made /\ AbstractItems = View /\ AbstractCursor = next
  <1> SUFFICES ASSUME IInv, Idle
               PROVE  AbstractMade = made /\ AbstractItems = View /\ AbstractCursor = next
    OBVIOUS
  <1>1. AbstractMade = made
    BY DEF AbstractMade, Idle
  <1>2. \A l \in Lists : Contents(l) = Records(Paths[l], key)
    BY DEF Contents, Paths, Records
  <1>3. AbstractItems = View
    BY <1>2 DEF AbstractItems, View
  <1>4. AbstractCursor = next
    BY Facts DEF AbstractCursor, Idle
  <1> QED
    BY <1>1, <1>3, <1>4

LEMMA IdleViewNext ==
  (IInv /\ Idle => AbstractMade = made /\ AbstractItems = View /\ AbstractCursor = next)'
  BY IdleView, PTL

LEMMA UsedIs ==
  ASSUME IInv, Idle
  PROVE  Abstract!Used = live
  <1>1. /\ made \subseteq Lists
        /\ \A l \in Lists : View[l] = Records(Paths[l], key) /\ Paths[l] \in Seq(Nodes)
        /\ live = UNION { Members(Paths[l]) : l \in Lists } /\ key \in [Nodes -> Keys]
    BY Facts
  <1>2. Abstract!Used = UNION { Abstract!Ids(View[l]) : l \in made }
    BY IdleView DEF Abstract!Used
  <1>3. \A l \in made : Abstract!Ids(View[l]) = Members(Paths[l])
    BY <1>1, IdsOfRecords
  <1>4. \A l \in Lists \ made : Members(Paths[l]) = {}
    BY Facts, EmptyLinked DEF HeaderFits
  <1> QED
    BY <1>1, <1>2, <1>3, <1>4

LEMMA CreateSim ==
  ASSUME IInv, NEW l \in Lists, list_create(l)
  PROVE  Abstract!Create(l)
  <1>1. IInv' /\ Paths' = Paths
    BY CreateNext
  <1>2. Idle /\ Idle' /\ UNCHANGED <<key, next>> /\ l \notin made /\ made' = made \cup {l}
    BY DEF list_create, heap, headers, loop, Idle
  <1>3. View' = View
    BY <1>1, <1>2 DEF View
  <1> QED
    BY <1>1, <1>2, <1>3, IdleView, IdleViewNext DEF Abstract!Create

LEMMA DestroySim ==
  ASSUME IInv, NEW l \in Lists, list_destroy(l)
  PROVE  Abstract!Destroy(l)
  <1>1. IInv' /\ Paths' = [Paths EXCEPT ![l] = <<>>]
    BY DestroyNext
  <1>2. /\ Idle /\ Idle' /\ l \in made /\ made' = made \ {l} /\ next' = [next EXCEPT ![l] = Null]
        /\ key' = [n \in Nodes |-> IF n \in NodesOf(l) THEN NoKey ELSE key[n]]
    BY DEF list_destroy, loop, Idle, Free
  <1>3. /\ Paths \in Families
        /\ \A m \in Lists : NodesOf(m) = Members(Paths[m]) /\ Members(Paths[m]) \subseteq Nodes
        /\ \A m \in Lists : m # l => Members(Paths[l]) \cap Members(Paths[m]) = {}
    BY Facts
  <1>4. ASSUME NEW m \in Lists, m # l PROVE Records(Paths'[m], key') = Records(Paths[m], key)
    <2>1. Paths'[m] = Paths[m]
      BY <1>1, <1>3, <1>4 DEF Families
    <2>2. \A n \in Members(Paths[m]) : key'[n] = key[n]
      BY <1>2, <1>3, <1>4
    <2> QED
      BY <2>1, <2>2, RecordsKept
  <1>5. Records(Paths'[l], key') = <<>>
    <2>1. Paths'[l] = <<>>
      BY <1>1, <1>3 DEF Families
    <2> QED
      BY <2>1 DEF Records
  <1>6. View' = [View EXCEPT ![l] = <<>>]
    <2>1. View' = [m \in Lists |-> Records(Paths'[m], key')]
      BY DEF View
    <2>2. DOMAIN View = Lists /\ \A m \in Lists : View[m] = Records(Paths[m], key)
      BY Facts
    <2>3. View = [m \in Lists |-> View[m]]
      BY DEF View
    <2> QED
      BY <1>4, <1>5, <2>1, <2>2, <2>3
  <1> QED
    BY <1>1, <1>2, <1>6, IdleView, IdleViewNext DEF Abstract!Destroy

LEMMA ViewIs ==
  /\ DOMAIN View = Lists /\ View = [l \in Lists |-> View[l]]
  /\ \A l \in Lists : View[l] = Records(Paths[l], key)
  /\ View' = [l \in Lists |-> Records(Paths'[l], key')]
  BY DEF View

LEMMA AddSim ==
  ASSUME ~AddAfterSort, IInv, NEW l \in Lists, NEW n \in Nodes, NEW k \in Keys, list_add(l, n, k)
  PROVE  Abstract!Add(l)
  <1> DEFINE it == [id |-> n, key |-> k]
  <1>1. IInv' /\ Paths' = [Paths EXCEPT ![l] = Append(@, n)]
    BY AddNext
  <1>2. /\ Idle /\ Idle' /\ l \in made /\ made' = made
        /\ n \notin live /\ key' = [key EXCEPT ![n] = k]
        /\ AppendFirst(l, n) \/ AppendLast(l, n)
    BY DEF list_add, loop, Idle, Append1, _newitem
  <1>3. /\ Paths \in Families /\ key \in [Nodes -> Keys] /\ next = [m \in Lists |-> next[m]]
        /\ \A m \in Lists : Paths[m] \in Seq(Nodes) /\ Members(Paths[m]) \subseteq live
        /\ live \subseteq Nodes
    BY Facts
  <1>4. ASSUME NEW m \in Lists, m # l PROVE Records(Paths'[m], key') = Records(Paths[m], key)
    <2>1. Paths'[m] = Paths[m]
      BY <1>1, <1>3, <1>4 DEF Families
    <2>2. \A i \in Members(Paths[m]) : key'[i] = key[i]
      BY <1>2, <1>3
    <2> QED
      BY <2>1, <2>2, RecordsKept
  <1>5. Records(Paths'[l], key') = View[l] \o <<it>>
    <2>1. Paths'[l] = Append(Paths[l], n)
      BY <1>1, <1>3 DEF Families
    <2>2. n \notin Members(Paths[l]) /\ Paths[l] \in Seq(Nodes)
      BY <1>2, <1>3
    <2>5. key \in [Nodes -> Keys] /\ key' = [key EXCEPT ![n] = k] /\ n \in Nodes /\ k \in Keys
      BY <1>2, <1>3
    <2>7. key' \in [Nodes -> Keys] /\ key'[n] = k /\ \A m \in Nodes : m # n => key'[m] = key[m]
      BY <2>5
    <2>6. Records(Append(Paths[l], n), key') = Append(Records(Paths[l], key), it)
      <3> SUFFICES ASSUME NEW s, s = Paths[l], NEW ky, ky = key, NEW ky2, ky2 = key'
                   PROVE  Records(Append(s, n), ky2) = Append(Records(s, ky), it)
        OBVIOUS
      <3>1. /\ s \in Seq(Nodes) /\ n \notin Members(s) /\ n \in Nodes /\ k \in Keys
            /\ ky \in [Nodes -> Keys] /\ ky2 \in [Nodes -> Keys] /\ ky2[n] = k
            /\ \A m \in Nodes : m # n => ky2[m] = ky[m]
        BY <2>2, <2>5, <2>7
      <3> QED
        BY ONLY <3>1, RecordsAppend
    <2>3. Records(Paths'[l], key') = Append(Records(Paths[l], key), it)
      BY ONLY <2>1, <2>6
    <2>4. Records(Paths[l], key) \in Seq(Rec) /\ it \in Rec
      BY <1>3, RecordsAre DEF Rec
    <2> HIDE DEF it
    <2> QED
      BY <2>3, <2>4, AppendIsConcat, ViewIs
  <1> HIDE DEF it
  <1>6. View' = [View EXCEPT ![l] = View[l] \o <<it>>]
    <2>1. \A m \in Lists : m # l => Records(Paths'[m], key') = View[m]
      BY <1>4, ViewIs
    <2> QED
      BY ONLY <1>5, <2>1, ViewIs
  <1>7. Abstract!Ids(<<it>>) = {n} /\ Len(<<it>>) = 1 /\ <<it>> # <<>> /\ <<it>>[1].id = n
    BY DEF Abstract!Ids, it
  <1>8. next' = IF View[l] = <<>> THEN [next EXCEPT ![l] = n] ELSE next
    <2>1. View[l] = <<>> <=> Paths[l] = <<>>
      BY <1>3, ViewIs, RecordsAre
    <2>2. Linked(Paths[l], first[l], nxt, prev)
      BY Facts
    <2>3. first[l] = Null <=> Paths[l] = <<>>
      BY <2>2, EndOfLinked, ListAssumption DEF Linked
    <2> QED
      BY <1>2, <2>1, <2>3 DEF AppendFirst, AppendLast
  <1>9. it \in Abstract!Item
    BY DEF Abstract!Item, it
  <1>10. \A i, j \in DOMAIN <<it>> : i = j
    OBVIOUS
  <1>11. Abstract!Extend(l, <<it>>)
    <2>1. AbstractItems = View /\ AbstractItems' = View' /\ AbstractCursor = next /\ AbstractCursor' = next'
      BY <1>1, <1>2, IdleView, IdleViewNext
    <2>2. Abstract!Used = live
      BY <1>2, UsedIs
    <2>3. {n} \cap live = {}
      BY <1>2
    <2>4. /\ AbstractItems' = [AbstractItems EXCEPT ![l] = @ \o <<it>>]
          /\ AbstractCursor' = IF AbstractItems[l] = <<>> /\ <<it>> # <<>>
                               THEN [AbstractCursor EXCEPT ![l] = <<it>>[1].id] ELSE AbstractCursor
      BY <1>6, <1>7, <1>8, <2>1
    <2> QED
      BY ONLY <1>7, <1>10, <2>2, <2>3, <2>4 DEF Abstract!Extend
  <1> QED
    BY <1>1, <1>2, <1>9, <1>11, IdleView, IdleViewNext DEF Abstract!Add

LEMMA DeleteSim ==
  ASSUME IInv, NEW l \in Lists, NEW n \in Nodes, list_delete(l, n)
  PROVE  Abstract!Delete(l)
  <1>1. PICK q \in DOMAIN Paths[l] : /\ IInv' /\ n = Paths[l][q]
                                     /\ Paths' = [Paths EXCEPT ![l] = Removed(@, q)]
    BY DeleteNext
  <1>2. /\ Idle /\ Idle' /\ l \in made /\ made' = made
        /\ key' = [m \in Nodes |-> IF m = n THEN NoKey ELSE key[m]]
        /\ next' = [next EXCEPT ![l] = IF @ = n THEN nxt[n] ELSE @]
    BY DEF list_delete, loop, Idle, Free, Unlink
  <1>3. /\ Paths \in Families /\ key \in [Nodes -> Keys] /\ next = [m \in Lists |-> next[m]]
        /\ \A m \in Lists : Paths[m] \in Seq(Nodes) /\ Members(Paths[m]) \subseteq live
        /\ live \subseteq Nodes
        /\ \A m \in Lists : m # l => Members(Paths[l]) \cap Members(Paths[m]) = {}
        /\ Linked(Paths[l], first[l], nxt, prev)
    BY Facts
  <1>4. n \in Members(Paths[l]) /\ NoKey \in Keys
    BY <1>1, ListAssumption DEF Members, NoKey
  <1>5. key' \in [Nodes -> Keys] /\ \A m \in Nodes : m # n => key'[m] = key[m]
    BY <1>2, <1>3, <1>4
  <1>6. ASSUME NEW m \in Lists, m # l PROVE Records(Paths'[m], key') = View[m]
    <2>1. Paths'[m] = Paths[m]
      BY <1>1, <1>3, <1>6 DEF Families
    <2>2. \A i \in Members(Paths[m]) : key'[i] = key[i]
      BY <1>3, <1>4, <1>5, <1>6
    <2> QED
      BY <2>1, <2>2, RecordsKept, ViewIs
  <1>7. Records(Paths'[l], key') = Abstract!RemoveAt(View[l], q)
    <2> SUFFICES ASSUME NEW s, s = Paths[l], NEW ky, ky = key, NEW ky2, ky2 = key'
                 PROVE  Records(Removed(s, q), ky2) = Abstract!RemoveAt(Records(s, ky), q)
      BY <1>1, <1>3, ViewIs DEF Families
    <2>1. s \in Seq(Nodes) /\ q \in DOMAIN s /\ ky \in [Nodes -> Keys] /\ ky2 \in [Nodes -> Keys]
      BY <1>1, <1>3, <1>5
    <2>2. \A i \in Members(Removed(s, q)) : i \in Nodes /\ i # n
      <3>1. /\ Len(s) \in Nat /\ q \in 1..Len(s) /\ \A i, j \in 1..Len(s) : s[i] = s[j] => i = j
            /\ n = s[q] /\ \A i \in 1..Len(s) : s[i] \in Nodes
        BY <1>1, <1>3, <2>1, LenProperties, ElementOfSeq DEF Linked
      <3> SUFFICES ASSUME NEW j \in 1 .. Len(s) - 1
                   PROVE  Removed(s, q)[j] \in Nodes /\ Removed(s, q)[j] # n
        BY DEF Removed, Members
      <3>2. CASE j < q
        BY <3>1, <3>2 DEF Removed
      <3>3. CASE ~(j < q)
        BY <3>1, <3>3 DEF Removed
      <3> QED
        BY <3>2, <3>3
    <2>3. \A i \in Members(Removed(s, q)) : ky2[i] = ky[i]
      BY <1>5, <2>2
    <2> QED
      BY ONLY <2>1, <2>3, RecordsRemove
  <1>8. View' = [View EXCEPT ![l] = Abstract!RemoveAt(View[l], q)]
    BY ONLY <1>6, <1>7, ViewIs
  <1>9. q \in DOMAIN View[l] /\ View[l][q].id = n
    <2>1. View[l] = Records(Paths[l], key)
      BY ViewIs
    <2> QED
      BY <1>1, <2>1 DEF Records
  <1>10. Abstract!Following(View[l], n) = nxt[n]
    BY <1>3, <1>4, ViewIs, FollowingIs
  <1>11. next' = IF next[l] = n THEN [next EXCEPT ![l] = nxt[n]] ELSE next
    BY <1>2, <1>3
  <1>12. /\ AbstractMade = made /\ AbstractItems = View /\ AbstractCursor = next
         /\ AbstractMade' = made' /\ AbstractItems' = View' /\ AbstractCursor' = next'
    BY <1>1, <1>2, IdleView, IdleViewNext
  <1> QED
    BY ONLY <1>2, <1>8, <1>9, <1>10, <1>11, <1>12 DEF Abstract!Delete

LEMMA CursorSim ==
  ASSUME IInv, NEW l \in Lists
  PROVE  /\ list_get_next(l) => Abstract!GetNext(l)
         /\ list_reset(l) => Abstract!Reset(l)
  <1>1. ASSUME list_get_next(l) \/ list_reset(l)
        PROVE  /\ AbstractMade = made /\ AbstractItems = View /\ AbstractCursor = next
               /\ AbstractMade' = made /\ AbstractItems' = View /\ AbstractCursor' = next'
    <2>1. IInv' /\ Paths' = Paths
      BY <1>1, CursorNext
    <2>2. Idle /\ Idle' /\ UNCHANGED <<made, key>>
      BY <1>1 DEF list_get_next, list_reset, heap, loop, Idle
    <2>3. View' = View
      BY <2>1, <2>2 DEF View
    <2> QED
      BY <2>1, <2>2, <2>3, IdleView, IdleViewNext
  <1>2. /\ Linked(Paths[l], first[l], nxt, prev) /\ HeaderFits(l, Paths[l]) /\ Paths[l] \in Seq(Nodes)
        /\ key \in [Nodes -> Keys]
    BY Facts
  <1>3. ASSUME list_get_next(l) PROVE Abstract!GetNext(l)
    <2>1. l \in made /\ next[l] # Null /\ next' = [next EXCEPT ![l] = nxt[next[l]]]
      BY <1>3 DEF list_get_next
    <2>2. next[l] \in Members(Paths[l])
      BY <1>2, <2>1 DEF HeaderFits
    <2>3. Abstract!Following(View[l], next[l]) = nxt[next[l]]
      BY <1>2, <2>2, ViewIs, FollowingIs
    <2> QED
      BY <1>1, <1>3, <2>1, <2>3 DEF Abstract!GetNext
  <1>4. ASSUME list_reset(l) PROVE Abstract!Reset(l)
    <2>1. l \in made /\ next' = [next EXCEPT ![l] = first[l]]
      BY <1>4 DEF list_reset
    <2>2. View[l] = <<>> <=> Paths[l] = <<>>
      BY <1>2, ViewIs, RecordsAre
    <2>3. Paths[l] # <<>> => View[l][1].id = Paths[l][1]
      <3>1. Paths[l] # <<>> => 1 \in DOMAIN Paths[l]
        BY <1>2
      <3> QED
        BY <3>1, ViewIs DEF Records
    <2>4. first[l] = IF View[l] = <<>> THEN Null ELSE View[l][1].id
      BY <1>2, <2>2, <2>3 DEF Linked
    <2> QED
      BY <1>1, <1>4, <2>1, <2>4 DEF Abstract!Reset
  <1> QED
    BY <1>3, <1>4

(* A loop begins: nothing has happened to the lists yet.                     *)
LEMMA BeginSim ==
  ASSUME ~AddAfterSort, IInv, NEW l \in Lists, NEW m \in Lists,
         list_sort(l) \/ list_add_list(l, m) \/ list_dup(m, l)
  PROVE  UNCHANGED Abstract!vars
  <1>1. Paths' = Paths
    BY SortBegins, CopyBegins
  <1>2. /\ Idle /\ lp' = l /\ before' = Contents(l) /\ UNCHANGED <<key, next, headers>>
        /\ op' \in {"sort", "append", "dup"} /\ made' = (IF op' = "dup" THEN made \cup {l} ELSE made)
        /\ op' = "dup" => l \notin made
        /\ op' # "dup" => l \in made
    BY DEF list_sort, list_add_list, list_dup, BeginLoop, heap, headers, Idle
  <1>3. AbstractMade = made /\ AbstractItems = View /\ AbstractCursor = next
    BY <1>2, IdleView
  <1>4. AbstractMade' = made
    <2>1. AbstractMade' = IF op' = "dup" THEN made' \ {lp'} ELSE made'
      BY DEF AbstractMade
    <2> QED
      BY <1>2, <2>1
  <1>5. \A i \in Lists : Contents(i) = View[i] /\ Contents(i)' = View[i]
    <2>1. \A i \in Lists : Contents(i) = Records(Paths[i], key)
      BY DEF Contents, Paths, Records
    <2>2. \A i \in Lists : Contents(i)' = Records(Paths'[i], key')
      BY DEF Contents, Paths, Records
    <2> QED
      BY <1>1, <1>2, <2>1, <2>2, ViewIs
  <1>6. AbstractItems' = View
    <2>1. AbstractItems' = [i \in Lists |-> IF ~Idle' /\ i = lp' THEN before' ELSE Contents(i)']
      BY DEF AbstractItems
    <2>2. \A i \in Lists : (IF ~Idle' /\ i = lp' THEN before' ELSE Contents(i)') = View[i]
      BY <1>2, <1>5
    <2> QED
      BY <2>1, <2>2, ViewIs
  <1>7. View[l] = <<>> => next[l] = Null
    <2>1. /\ Paths[l] \in Seq(Nodes) /\ key \in [Nodes -> Keys] /\ HeaderFits(l, Paths[l])
      BY Facts
    <2>2. View[l] = <<>> <=> Paths[l] = <<>>
      BY <2>1, ViewIs, RecordsAre
    <2> QED
      BY <2>1, <2>2, EmptyLinked DEF HeaderFits
  <1>8. AbstractCursor' = next
    <2>1. AbstractCursor' = [i \in Lists |-> IF op' \in {"append", "dup"} /\ i = lp' /\ before' = <<>>
                                             THEN Null ELSE next'[i]]
      BY DEF AbstractCursor
    <2>2. \A i \in Lists : (IF op' \in {"append", "dup"} /\ i = lp' /\ before' = <<>>
                            THEN Null ELSE next'[i]) = next[i]
      BY <1>2, <1>5, <1>7
    <2> QED
      BY <2>1, <2>2, Facts
  <1> QED
    BY <1>3, <1>4, <1>6, <1>8 DEF Abstract!vars

-----------------------------------------------------------------------------
(* The loops: each iteration keeps what was there before, and what the loop  *)
(* has done so far is part of what it promises.                              *)

LEMMA IterationSim ==
  ASSUME IInv, ~Idle, UNCHANGED <<made, op, lp, before>>,
         \A m \in Lists : m # lp => Records(Paths'[m], key') = Records(Paths[m], key),
         \A m \in Lists : \/ next'[m] = next[m]
                          \/ m = lp /\ op \in {"append", "dup"} /\ before = <<>>
  PROVE  UNCHANGED Abstract!vars
  <1>1. AbstractMade' = AbstractMade
    BY DEF AbstractMade
  <1>2. /\ \A i \in Lists : Contents(i) = Records(Paths[i], key)
        /\ \A i \in Lists : Contents(i)' = Records(Paths'[i], key')
    BY DEF Contents, Paths, Records
  <1>3. AbstractItems' = AbstractItems
    <2>1. AbstractItems' = [i \in Lists |-> IF ~Idle' /\ i = lp' THEN before' ELSE Contents(i)']
      BY DEF AbstractItems
    <2>2. Idle' <=> Idle
      BY DEF Idle
    <2>3. \A i \in Lists : (IF ~Idle' /\ i = lp' THEN before' ELSE Contents(i)')
                           = (IF ~Idle /\ i = lp THEN before ELSE Contents(i))
      BY <1>2, <2>2
    <2> QED
      BY <2>1, <2>3 DEF AbstractItems
  <1>4. AbstractCursor' = AbstractCursor
    <2>1. AbstractCursor' = [i \in Lists |-> IF op' \in {"append", "dup"} /\ i = lp' /\ before' = <<>>
                                             THEN Null ELSE next'[i]]
      BY DEF AbstractCursor
    <2>2. \A i \in Lists : (IF op' \in {"append", "dup"} /\ i = lp' /\ before' = <<>>
                            THEN Null ELSE next'[i])
                           = (IF op \in {"append", "dup"} /\ i = lp /\ before = <<>>
                              THEN Null ELSE next[i])
      OBVIOUS
    <2> QED
      BY <2>1, <2>2 DEF AbstractCursor
  <1> QED
    BY <1>1, <1>3, <1>4 DEF Abstract!vars

(* The place of a pointer into a walk, and the next one.                     *)
LEMMA PlaceOf ==
  ASSUME NEW s, NEW head, NEW nx, NEW pr, Linked(s, head, nx, pr),
         NEW k \in 1 .. Len(s) + 1
  PROVE  /\ Len(s) \in Nat /\ DOMAIN s = 1..Len(s)
         /\ At(s, k) = Null => k = Len(s) + 1
         /\ At(s, k) # Null => /\ k \in DOMAIN s /\ At(s, k) = s[k] /\ s[k] \in Nodes
                               /\ k + 1 \in 1 .. Len(s) + 1 /\ nx[s[k]] = At(s, k + 1)
                               /\ \A j \in DOMAIN s : s[j] = s[k] => j = k
  <1>1. /\ Len(s) \in Nat /\ DOMAIN s = 1..Len(s) /\ \A j \in 1..Len(s) : s[j] \in Nodes /\ s[j] # Null
    BY ListAssumption, LenProperties, ElementOfSeq DEF Linked
  <1>2. At(s, k) = Null => k = Len(s) + 1
    BY <1>1 DEF At
  <1>3. ASSUME At(s, k) # Null
        PROVE  /\ k \in DOMAIN s /\ At(s, k) = s[k] /\ s[k] \in Nodes
               /\ k + 1 \in 1 .. Len(s) + 1 /\ nx[s[k]] = At(s, k + 1)
               /\ \A j \in DOMAIN s : s[j] = s[k] => j = k
    <2>1. k \in DOMAIN s /\ At(s, k) = s[k] /\ s[k] \in Nodes
      BY <1>1, <1>3 DEF At
    <2>2. k + 1 \in 1 .. Len(s) + 1 /\ (k # Len(s) <=> k + 1 \in 1..Len(s))
      BY <1>1, <2>1
    <2>3. nx[s[k]] = At(s, k + 1)
      BY <1>1, <2>1, <2>2 DEF Linked, At
    <2> QED
      BY <2>1, <2>2, <2>3 DEF Linked
  <1> QED
    BY <1>1, <1>2, <1>3

(* list_sort begins with nothing in its place.                               *)
LEMMA SortStart ==
  ASSUME IInv, NEW l \in Lists, list_sort(l)
  PROVE  SortProgress(Paths)' /\ CopyProgress(Paths)'
  <1>1. Paths' = Paths
    BY SortBegins
  <1>2. /\ Idle /\ op' = "sort" /\ lp' = l /\ ip' = first[l] /\ before' = Contents(l) /\ key' = key
    BY DEF list_sort, BeginLoop, heap, Idle
  <1>3. CopyProgress(Paths)'
    BY <1>2 DEF CopyProgress
  <1>4. /\ Linked(Paths[l], first[l], nxt, prev) /\ Paths[l] \in Seq(Nodes) /\ key \in [Nodes -> Keys]
    BY Facts
  <1> DEFINE t == Records(Paths[l], key)
  <1>5. before' = t
    BY <1>2 DEF Contents, Paths, Records
  <1>6. Abstract!Rearranged(t, t)
    BY DEF Abstract!Rearranged
  <1>7. /\ t \in Seq(Rec) /\ Len(t) = Len(Paths[l]) /\ Len(t) \in Nat
        /\ DOMAIN t = 1..Len(t) /\ DOMAIN Paths[l] = 1..Len(t)
        /\ \A i \in 1..Len(t) : t[i].id = Paths[l][i]
        /\ \A i, j \in 1..Len(t) : Paths[l][i] = Paths[l][j] => i = j
    <2>1. /\ t \in Seq(Rec) /\ Len(t) = Len(Paths[l]) /\ Len(Paths[l]) \in Nat
          /\ DOMAIN t = 1..Len(Paths[l]) /\ DOMAIN Paths[l] = 1..Len(Paths[l])
          /\ \A i \in 1..Len(Paths[l]) : t[i].id = Paths[l][i]
      BY <1>4, RecordsAre
    <2>2. \A i, j \in DOMAIN Paths[l] : Paths[l][i] = Paths[l][j] => i = j
      BY <1>4 DEF Linked
    <2> HIDE DEF t
    <2> QED
      BY <2>1, <2>2
  <1>8. Abstract!Stable(t, t)
    <2> HIDE DEF t
    <2> SUFFICES ASSUME NEW i \in 1..Len(t), NEW j \in 1..Len(t), NEW m \in 1..Len(t), NEW n \in 1..Len(t),
                        i < j, t[m] = t[i], t[n] = t[j]
                 PROVE  m < n
      BY <1>7 DEF Abstract!Stable
    <2>1. m = i /\ n = j
      BY <1>7
    <2> QED
      BY <2>1
  <1>9. first[l] = At(Paths[l], 1)
    <2>1. first[l] = IF Paths[l] = <<>> THEN Null ELSE Paths[l][1]
      BY <1>4 DEF Linked
    <2>2. Paths[l] = <<>> <=> 1 \notin DOMAIN Paths[l]
      BY <1>4
    <2> QED
      BY <2>1, <2>2 DEF At
  <1>10. 1 \in 1 .. Len(t) + 1
    BY <1>7
  <1> HIDE DEF t
  <1>11. \A i, j \in DOMAIN t : ~(i < 1)
    BY <1>7
  <1>12. /\ Abstract!Rearranged(t, before') /\ Abstract!Stable(t, before')
         /\ \E k \in 1 .. Len(t) + 1 :
              /\ ip' = At(Paths'[lp'], k)
              /\ \A i, j \in DOMAIN t : i < k /\ i < j => Abstract!InOrder(t, i, j, descending')
    BY <1>1, <1>2, <1>5, <1>6, <1>8, <1>9, <1>10, <1>11
  <1>13. t = Records(Paths'[lp'], key')
    BY <1>1, <1>2 DEF t
  <1>14. SortProgress(Paths)'
    BY <1>12, <1>13 DEF SortProgress, At
  <1> QED
    BY <1>3, <1>14

LEMMA SortSwapSim ==
  ASSUME RInv, SortSwap
  PROVE  UNCHANGED Abstract!vars /\ SortProgress(Paths)' /\ CopyProgress(Paths)'
  <1>0. IInv /\ SortProgress(Paths)
    BY DEF RInv
  <1>1. PICK i \in DOMAIN Paths[lp], q \in DOMAIN Paths[lp] :
          /\ i < q /\ ip = Paths[lp][i] /\ ip' = Paths[lp][q]
          /\ Paths' = [Paths EXCEPT ![lp] = Moved(@, i, q)]
          /\ compare(ip, Paths[lp][q])
          /\ \A j \in DOMAIN Paths[lp] : i < j /\ j < q => ~compare(ip, Paths[lp][j])
    BY <1>0, SortSwapNext
  <1>2. /\ op = "sort" /\ UNCHANGED <<made, last, next, key, live, op, lp, descending, before>>
    BY DEF SortSwap
  <1>3. lp \in Lists /\ descending \in BOOLEAN
    BY <1>0, <1>2, ListAssumption DEF IInv, TypeOK, LoopFits, Idle
  <1>4. Paths \in Families /\ key \in [Nodes -> Keys] /\ Linked(Paths[lp], first[lp], nxt, prev)
        /\ Paths[lp] \in Seq(Nodes)
    BY <1>0, <1>3, Facts
  <1>5. UNCHANGED Abstract!vars
    <2>1. \A m \in Lists : m # lp => Paths'[m] = Paths[m]
      BY <1>1, <1>4 DEF Families
    <2> QED
      BY <1>0, <1>2, <2>1, IterationSim DEF Idle
  <1>6. CopyProgress(Paths)'
    BY <1>2 DEF CopyProgress
  <1> DEFINE s == Paths[lp]
             t == Records(s, key)
  <1>7. /\ t \in Seq(Rec) /\ Len(t) = Len(s) /\ Len(s) \in Nat /\ DOMAIN s = 1..Len(s) /\ DOMAIN t = DOMAIN s
        /\ \A j \in DOMAIN s : t[j].key = key[s[j]] /\ key[s[j]] \in Nat
    <2>1. /\ t \in Seq(Rec) /\ Len(t) = Len(s) /\ Len(s) \in Nat /\ DOMAIN s = 1..Len(s) /\ DOMAIN t = DOMAIN s
          /\ \A j \in 1..Len(s) : t[j].key = key[s[j]]
      BY <1>4, RecordsAre
    <2>2. \A j \in 1..Len(s) : s[j] \in Nodes
      BY <1>4, ElementOfSeq
    <2> QED
      BY <1>4, <2>1, <2>2, ListAssumption
  <1>8. /\ Abstract!Rearranged(t, before) /\ Abstract!Stable(t, before)
        /\ \A m, n \in DOMAIN t : m < i /\ m < n => Abstract!InOrder(t, m, n, descending)
    <2>1. PICK k \in 1 .. Len(t) + 1 :
            /\ ip = At(s, k)
            /\ \A m, n \in DOMAIN t : m < k /\ m < n => Abstract!InOrder(t, m, n, descending)
      BY <1>0, <1>2 DEF SortProgress
    <2>2. ip # Null
      BY <1>1, <1>4, <1>7, ListAssumption, ElementOfSeq
    <2>3. k = i
      <3>1. k \in 1 .. Len(s) + 1 /\ At(s, k) # Null
        BY <1>7, <2>1, <2>2
      <3>2. At(s, k) = s[k] /\ \A j \in DOMAIN s : s[j] = s[k] => j = k
        BY <1>4, <3>1, PlaceOf
      <3> QED
        BY <1>1, <2>1, <3>2
    <2> QED
      BY <1>0, <1>2, <2>1, <2>3 DEF SortProgress
  <1> HIDE DEF t
  <1>9. /\ ~Abstract!InOrder(t, i, q, descending)
        /\ \A j \in DOMAIN t : i < j /\ j < q => Abstract!InOrder(t, i, j, descending)
    BY <1>1, <1>3, <1>7 DEF compare, Abstract!InOrder
  <1> DEFINE u == Moved(t, i, q)
  <1>10. /\ Abstract!Rearranged(u, before) /\ Abstract!Stable(u, before)
         /\ \A m, n \in DOMAIN u : m < i /\ m < n => Abstract!InOrder(u, m, n, descending)
    <2> SUFFICES ASSUME NEW r, r = t, NEW b, b = before, NEW d, d = descending
                 PROVE  /\ Abstract!Rearranged(Moved(r, i, q), b) /\ Abstract!Stable(Moved(r, i, q), b)
                        /\ \A m, n \in DOMAIN Moved(r, i, q) :
                             m < i /\ m < n => Abstract!InOrder(Moved(r, i, q), m, n, d)
      OBVIOUS
    <2>1. /\ r \in Seq(Rec) /\ d \in BOOLEAN /\ i \in DOMAIN r /\ q \in DOMAIN r /\ i < q
          /\ ~Abstract!InOrder(r, i, q, d)
          /\ \A j \in DOMAIN r : i < j /\ j < q => Abstract!InOrder(r, i, j, d)
          /\ \A m, n \in DOMAIN r : m < i /\ m < n => Abstract!InOrder(r, m, n, d)
          /\ Abstract!Rearranged(r, b) /\ Abstract!Stable(r, b)
      BY <1>1, <1>3, <1>7, <1>8, <1>9
    <2> QED
      BY ONLY <2>1, MoveSorts
  <1>11. Paths'[lp] = Moved(s, i, q)
    BY <1>1, <1>3, <1>4 DEF Families
  <1>12. Records(Paths'[lp'], key') = u
    <2> SUFFICES ASSUME NEW w, w = s, NEW ky, ky = key
                 PROVE  Records(Moved(w, i, q), ky) = Moved(Records(w, ky), i, q)
      BY <1>2, <1>11 DEF t
    <2>1. w \in Seq(Nodes) /\ ky \in [Nodes -> Keys] /\ i \in DOMAIN w /\ q \in DOMAIN w /\ i < q
      BY <1>1, <1>4
    <2> QED
      BY ONLY <2>1, RecordsMove
  <1>13. ip' = At(Paths'[lp'], i) /\ i \in 1 .. Len(u) + 1
    <2>1. i \in 1..Len(s) /\ Moved(s, i, q)[i] = s[q] /\ i \in DOMAIN Moved(s, i, q)
      BY <1>1, <1>7 DEF Moved
    <2>2. Len(u) = Len(s)
      BY <1>7 DEF Moved
    <2>3. i \in 1 .. Len(u) + 1
      BY <1>7, <2>1, <2>2
    <2> QED
      BY <1>1, <1>2, <1>11, <2>1, <2>3 DEF At
  <1> HIDE DEF u
  <1>14. SortProgress(Paths)'
    BY <1>2, <1>10, <1>12, <1>13 DEF SortProgress, At
  <1> QED
    BY <1>5, <1>6, <1>14

LEMMA SortNextSim ==
  ASSUME RInv, SortNext
  PROVE  UNCHANGED Abstract!vars /\ SortProgress(Paths)' /\ CopyProgress(Paths)'
  <1>0. IInv /\ SortProgress(Paths)
    BY DEF RInv
  <1>1. Paths' = Paths
    BY <1>0, LoopStepNext
  <1>2. /\ op = "sort" /\ ip # Null /\ Misplaced = {} /\ ip' = nxt[ip]
        /\ UNCHANGED <<made, first, last, next, prev, nxt, key, live, op, lp, descending, before>>
    BY DEF SortNext, headers, heap
  <1>3. lp \in Lists /\ descending \in BOOLEAN
    BY <1>0, <1>2, ListAssumption DEF IInv, TypeOK, LoopFits, Idle
  <1>4. Paths \in Families /\ key \in [Nodes -> Keys] /\ Linked(Paths[lp], first[lp], nxt, prev)
        /\ Paths[lp] \in Seq(Nodes)
    BY <1>0, <1>3, Facts
  <1>5. UNCHANGED Abstract!vars
    BY <1>0, <1>1, <1>2, IterationSim DEF Idle
  <1>6. CopyProgress(Paths)'
    BY <1>2 DEF CopyProgress
  <1> DEFINE s == Paths[lp]
             t == Records(s, key)
  <1>7. /\ t \in Seq(Rec) /\ Len(t) = Len(s) /\ Len(s) \in Nat /\ DOMAIN s = 1..Len(s) /\ DOMAIN t = DOMAIN s
        /\ \A j \in DOMAIN s : t[j].key = key[s[j]] /\ key[s[j]] \in Nat
    <2>1. /\ t \in Seq(Rec) /\ Len(t) = Len(s) /\ Len(s) \in Nat /\ DOMAIN s = 1..Len(s) /\ DOMAIN t = DOMAIN s
          /\ \A j \in 1..Len(s) : t[j].key = key[s[j]]
      BY <1>4, RecordsAre
    <2>2. \A j \in 1..Len(s) : s[j] \in Nodes
      BY <1>4, ElementOfSeq
    <2> QED
      BY <1>4, <2>1, <2>2, ListAssumption
  <1>8. PICK k \in 1 .. Len(t) + 1 :
          /\ ip = At(s, k)
          /\ \A m, n \in DOMAIN t : m < k /\ m < n => Abstract!InOrder(t, m, n, descending)
    BY <1>0, <1>2 DEF SortProgress
  <1>9. k \in DOMAIN s /\ ip = s[k] /\ k + 1 \in 1 .. Len(t) + 1 /\ ip' = At(s, k + 1)
    <2>1. k \in 1 .. Len(s) + 1 /\ At(s, k) # Null
      BY <1>2, <1>7, <1>8
    <2>2. k \in DOMAIN s /\ At(s, k) = s[k] /\ k + 1 \in 1 .. Len(s) + 1 /\ nxt[s[k]] = At(s, k + 1)
      BY <1>4, <2>1, PlaceOf
    <2> QED
      BY <1>2, <1>7, <1>8, <2>2
  <1>10. \A n \in DOMAIN s : k < n => ~compare(ip, s[n])
    <2> SUFFICES ASSUME NEW r, r = s, NEW h, h = first[lp]
                 PROVE  \A n \in DOMAIN r : k < n => ~compare(ip, r[n])
      OBVIOUS
    <2>1. TypeOK /\ Linked(r, h, nxt, prev) /\ k \in DOMAIN r /\ ip = r[k] /\ Misplaced = {}
      BY <1>0, <1>2, <1>4, <1>9 DEF IInv
    <2> QED
      BY ONLY <2>1, NoneMisplaced
  <1> HIDE DEF t
  <1>11. \A m, n \in DOMAIN t : m < k + 1 /\ m < n => Abstract!InOrder(t, m, n, descending)
    <2> SUFFICES ASSUME NEW n \in DOMAIN t, k < n PROVE Abstract!InOrder(t, k, n, descending)
      BY <1>7, <1>8, <1>9
    <2>1. ~compare(ip, s[n])
      BY <1>7, <1>10
    <2> QED
      BY <1>3, <1>7, <1>9, <2>1 DEF compare, Abstract!InOrder
  <1>12. Abstract!Rearranged(t, before) /\ Abstract!Stable(t, before)
    BY <1>0, <1>2 DEF SortProgress, t
  <1>13. t = Records(Paths'[lp'], key')
    BY <1>1, <1>2 DEF t
  <1>14. SortProgress(Paths)'
    BY <1>1, <1>2, <1>9, <1>11, <1>12, <1>13 DEF SortProgress, At
  <1> QED
    BY <1>5, <1>6, <1>14

(* A copying loop begins with nothing copied.                                *)
LEMMA SubSeqAll ==
  ASSUME NEW s \in Seq(Rec)
  PROVE  s = SubSeq(s, 1, Len(s))
  BY SubSeqFull

LEMMA CopyStart ==
  ASSUME ~AddAfterSort, IInv, NEW l \in Lists, NEW m \in Lists, list_add_list(l, m) \/ list_dup(m, l)
  PROVE  SortProgress(Paths)' /\ CopyProgress(Paths)'
  <1>1. Paths' = Paths
    BY CopyBegins
  <1>2. /\ Idle /\ op' \in {"append", "dup"} /\ lp' = l /\ ip' = first[m] /\ before' = Contents(l)
        /\ source' = Contents(m) /\ m \in made' /\ m # l
        /\ UNCHANGED <<first, last, next, prev, nxt, key, live>>
        /\ op' = "dup" => l \notin made
    BY DEF list_add_list, list_dup, BeginLoop, heap, headers, Idle
  <1>3. SortProgress(Paths)'
    BY <1>2 DEF SortProgress
  <1>4. /\ \A i \in Lists : /\ Linked(Paths[i], first[i], nxt, prev) /\ Paths[i] \in Seq(Nodes)
                            /\ HeaderFits(i, Paths[i])
        /\ key \in [Nodes -> Keys]
    BY Facts
  <1>5. /\ before' = Records(Paths[l], key) /\ source' = Records(Paths[m], key)
    BY <1>2 DEF Contents, Paths, Records
  <1>6. /\ before' \in Seq(Rec) /\ Len(before') = Len(Paths[l]) /\ Len(Paths[l]) \in Nat
        /\ before' = <<>> <=> Paths[l] = <<>>
    BY <1>4, <1>5, RecordsAre
  <1>7. before' = SubSeq(before', 1, Len(Paths[l]))
    BY <1>6, SubSeqAll
  <1>8. ip' = At(Paths[m], 1) /\ 1 \in 1 .. Len(Paths[m]) + 1
    <2>1. first[m] = IF Paths[m] = <<>> THEN Null ELSE Paths[m][1]
      BY <1>4 DEF Linked
    <2>2. (Paths[m] = <<>> <=> 1 \notin DOMAIN Paths[m]) /\ Len(Paths[m]) \in Nat
      BY <1>4
    <2> QED
      BY <1>2, <2>1, <2>2 DEF At
  <1>9. before' = <<>> => next[l] = Null /\ first[l] = Null
    BY <1>4, <1>6, EmptyLinked DEF HeaderFits, Linked
  <1>10. op' = "dup" => before' = <<>>
    BY <1>2, <1>4, <1>6 DEF HeaderFits
  <1>11. Len(Paths[l]) - 0 = Len(Paths[l]) /\ Len(Paths[l]) >= 0 /\ 0 \in 0 .. 1 - 1 /\ ~(0 < 1 - 1)
         /\ 1..0 = {}
    BY <1>6
  <1>12. CopyProgress(Paths)'
    <2>1. Copied(Paths, m, 1, 0)'
      BY <1>1, <1>2, <1>5, <1>7, <1>8, <1>9, <1>10, <1>11 DEF Copied, At
    <2>2. m \in made' \ {lp'} /\ 1 \in 1 .. Len(Paths'[m]) + 1 /\ 0 \in 0 .. Len(Paths'[m]) /\ 0 < 1
      BY <1>1, <1>2, <1>4, <1>8
    <2> QED
      BY <2>1, <2>2 DEF CopyProgress
  <1> QED
    BY <1>3, <1>12

(* The first items of a sequence stay when one is appended.                  *)
LEMMA PrefixKept ==
  ASSUME NEW r \in Seq(Rec), NEW e \in Rec, NEW h \in 0..Len(r)
  PROVE  SubSeq(Append(r, e), 1, h) = SubSeq(r, 1, h)
  <1>1. Len(r) \in Nat /\ \A i \in 1..h : r[i] \in Rec /\ Append(r, e)[i] = r[i]
    <2>1. Len(r) \in Nat /\ \A i \in 1..Len(r) : r[i] \in Rec /\ Append(r, e)[i] = r[i]
      BY LenProperties, ElementOfSeq, AppendProperties
    <2> QED
      BY <2>1
  <1>2. h \in Int /\ 1 \in Int /\ (\A i \in 1..h : 1 + i - 1 = i) /\ h - 1 + 1 = h
        /\ (IF 1 <= h THEN h - 1 + 1 ELSE 0) = h
    BY <1>1
  <1> DEFINE a == SubSeq(Append(r, e), 1, h)
             b == SubSeq(r, 1, h)
  <1>3. a \in Seq(Rec) /\ Len(a) = (IF 1 <= h THEN h - 1 + 1 ELSE 0)
        /\ \A i \in 1 .. h - 1 + 1 : a[i] = Append(r, e)[1 + i - 1]
    <2> SUFFICES ASSUME NEW w, w = Append(r, e)
                 PROVE  LET v == SubSeq(w, 1, h) IN
                        v \in Seq(Rec) /\ Len(v) = (IF 1 <= h THEN h - 1 + 1 ELSE 0)
                        /\ \A i \in 1 .. h - 1 + 1 : v[i] = w[1 + i - 1]
      OBVIOUS
    <2>1. \A i \in 1..h : w[i] \in Rec
      BY <1>1
    <2> QED
      BY ONLY <1>2, <2>1, SubSeqProperties
  <1>4. b \in Seq(Rec) /\ Len(b) = (IF 1 <= h THEN h - 1 + 1 ELSE 0)
        /\ \A i \in 1 .. h - 1 + 1 : b[i] = r[1 + i - 1]
    BY ONLY <1>1, <1>2, SubSeqProperties
  <1> HIDE DEF a, b
  <1>5. Len(a) = Len(b) /\ \A i \in 1..Len(a) : a[i] = b[i]
    BY <1>1, <1>2, <1>3, <1>4
  <1>6. a = b
    BY ONLY <1>3, <1>4, <1>5, SeqEqual
  <1> QED
    BY <1>6 DEF a, b

LEMMA CopyFailsSim ==
  ASSUME RInv, CopyFails
  PROVE  UNCHANGED Abstract!vars /\ SortProgress(Paths)' /\ CopyProgress(Paths)'
  <1>0. IInv /\ CopyProgress(Paths)
    BY DEF RInv
  <1>1. Paths' = Paths
    BY <1>0, LoopStepNext
  <1>2. /\ op \in {"append", "dup"} /\ ip # Null /\ live = Nodes /\ ip' = nxt[ip]
        /\ UNCHANGED <<made, first, last, next, prev, nxt, key, live, op, lp, before, source>>
    BY DEF CopyFails, headers, heap
  <1>3. UNCHANGED Abstract!vars
    BY <1>0, <1>1, <1>2, IterationSim DEF Idle
  <1>4. SortProgress(Paths)'
    BY <1>2 DEF SortProgress
  <1>5a. PICK l \in made \ {lp} : \E k \in 1 .. Len(Paths[l]) + 1, n \in 0 .. Len(Paths[l]) :
          n < k /\ Copied(Paths, l, k, n)
    BY <1>0, <1>2 DEF CopyProgress
  <1>5. PICK k \in 1 .. Len(Paths[l]) + 1, n \in 0 .. Len(Paths[l]) :
          l \in made \ {lp} /\ n < k /\ Copied(Paths, l, k, n)
    BY <1>5a
  <1>6. /\ source = Records(Paths[l], key) /\ ip = At(Paths[l], k)
        /\ Len(Paths[lp]) - n >= 0 /\ before = SubSeq(Records(Paths[lp], key), 1, Len(Paths[lp]) - n)
        /\ \A i \in 1..n : key[Paths[lp][Len(Paths[lp]) - n + i]] = source[i].key
        /\ before = <<>> => next[lp] = first[lp]
        /\ op = "dup" => before = <<>>
    BY <1>5 DEF Copied
  <1>7. l \in Lists /\ Linked(Paths[l], first[l], nxt, prev)
    BY <1>0, <1>5, Facts
  <1>8. k + 1 \in 1 .. Len(Paths[l]) + 1 /\ ip' = At(Paths[l], k + 1)
    <2>1. /\ k \in DOMAIN Paths[l] /\ At(Paths[l], k) = Paths[l][k] /\ k + 1 \in 1 .. Len(Paths[l]) + 1
          /\ nxt[Paths[l][k]] = At(Paths[l], k + 1)
      BY <1>2, <1>6, <1>7, PlaceOf
    <2> QED
      BY <1>2, <1>6, <2>1
  <1>9. n < k + 1
    <2>1. Len(Paths[l]) \in Nat
      BY <1>7, PlaceOf
    <2> QED
      BY <1>5, <2>1
  <1>10. CopyProgress(Paths)'
    <2>1. Copied(Paths, l, k + 1, n)'
      BY <1>1, <1>2, <1>6, <1>8 DEF Copied, At
    <2>2. l \in made' \ {lp'} /\ k + 1 \in 1 .. Len(Paths'[l]) + 1 /\ n \in 0 .. Len(Paths'[l])
      BY <1>1, <1>2, <1>5, <1>8
    <2> QED
      BY <1>9, <2>1, <2>2 DEF CopyProgress
  <1> QED
    BY <1>3, <1>4, <1>10

LEMMA CopyItemSim ==
  ASSUME RInv, CopyItem
  PROVE  UNCHANGED Abstract!vars /\ SortProgress(Paths)' /\ CopyProgress(Paths)'
  <1>0. IInv /\ CopyProgress(Paths)
    BY DEF RInv
  <1>1. PICK e \in Nodes : Append1(lp, e, key[ip])
    BY DEF CopyItem
  <1>2. Paths' = [Paths EXCEPT ![lp] = Append(@, e)] /\ IInv'
    BY <1>0, <1>1, CopyItemNext
  <1>3. /\ op \in {"append", "dup"} /\ ip # Null /\ ip' = nxt[ip]
        /\ UNCHANGED <<made, op, lp, before, source>>
        /\ e \notin live /\ key' = [key EXCEPT ![e] = key[ip]]
        /\ AppendFirst(lp, e) \/ AppendLast(lp, e)
    BY <1>1 DEF CopyItem, Append1, _newitem
  <1>4. lp \in Lists /\ ip \in Nodes
    BY <1>0, <1>3, ListAssumption DEF IInv, TypeOK, LoopFits, Idle
  <1>5. /\ Paths \in Families /\ key \in [Nodes -> Keys] /\ next = [m \in Lists |-> next[m]]
        /\ \A m \in Lists : /\ Paths[m] \in Seq(Nodes) /\ Members(Paths[m]) \subseteq live
                            /\ Linked(Paths[m], first[m], nxt, prev)
        /\ live \subseteq Nodes /\ made \subseteq Lists
    BY <1>0, Facts
  <1>6a. PICK l \in made \ {lp} : \E k \in 1 .. Len(Paths[l]) + 1, n \in 0 .. Len(Paths[l]) :
          n < k /\ Copied(Paths, l, k, n)
    BY <1>0, <1>3 DEF CopyProgress
  <1>6. PICK k \in 1 .. Len(Paths[l]) + 1, n \in 0 .. Len(Paths[l]) :
          l \in made \ {lp} /\ n < k /\ Copied(Paths, l, k, n)
    BY <1>6a
  <1>7. /\ source = Records(Paths[l], key) /\ ip = At(Paths[l], k)
        /\ Len(Paths[lp]) - n >= 0 /\ before = SubSeq(Records(Paths[lp], key), 1, Len(Paths[lp]) - n)
        /\ \A i \in 1..n : key[Paths[lp][Len(Paths[lp]) - n + i]] = source[i].key
        /\ n < k - 1 => live = Nodes
        /\ before = <<>> => next[lp] = first[lp]
        /\ op = "dup" => before = <<>>
    BY <1>6 DEF Copied
  <1>8. /\ key' \in [Nodes -> Keys] /\ key'[e] = key[ip]
        /\ \A m \in Nodes : m # e => key'[m] = key[m]
    BY <1>3, <1>4, <1>5
  <1>9. \A m \in Lists : m # lp => Paths'[m] = Paths[m] /\ Records(Paths'[m], key') = Records(Paths[m], key)
    <2> SUFFICES ASSUME NEW m \in Lists, m # lp
                 PROVE  Paths'[m] = Paths[m] /\ Records(Paths'[m], key') = Records(Paths[m], key)
      OBVIOUS
    <2>1. Paths'[m] = Paths[m]
      BY <1>2, <1>5 DEF Families
    <2>2. \A i \in Members(Paths[m]) : key'[i] = key[i]
      BY <1>3, <1>5, <1>8
    <2> QED
      BY <2>1, <2>2, RecordsKept
  <1>10. Paths'[lp] = Append(Paths[lp], e)
    BY <1>2, <1>4, <1>5 DEF Families
  <1> DEFINE s == Paths[lp]
             r == Records(s, key)
             h == Len(s) - n
             it == [id |-> e, key |-> key[ip]]
  <1>11. /\ r \in Seq(Rec) /\ Len(r) = Len(s) /\ Len(s) \in Nat /\ DOMAIN s = 1..Len(s)
         /\ r = <<>> <=> s = <<>>
         /\ h \in 0..Len(r) /\ it \in Rec
    <2>1. /\ r \in Seq(Rec) /\ Len(r) = Len(s) /\ Len(s) \in Nat /\ DOMAIN s = 1..Len(s)
          /\ r = <<>> <=> s = <<>>
      BY <1>4, <1>5, RecordsAre
    <2>2. n \in Nat
      BY <1>5, <1>6
    <2>3. it \in Rec
      BY <1>4, <1>5 DEF Rec
    <2> QED
      BY <1>7, <2>1, <2>2, <2>3
  <1>12. Records(Paths'[lp], key') = Append(r, it)
    <2> SUFFICES ASSUME NEW w, w = s, NEW ky, ky = key, NEW ky2, ky2 = key', NEW k2, k2 = key[ip]
                 PROVE  Records(Append(w, e), ky2) = Append(Records(w, ky), [id |-> e, key |-> k2])
      BY <1>10
    <2>1. /\ w \in Seq(Nodes) /\ e \notin Members(w) /\ e \in Nodes /\ k2 \in Keys
          /\ ky \in [Nodes -> Keys] /\ ky2 \in [Nodes -> Keys] /\ ky2[e] = k2
          /\ \A m \in Nodes : m # e => ky2[m] = ky[m]
      BY <1>3, <1>4, <1>5, <1>8
    <2> QED
      BY ONLY <2>1, RecordsAppend
  <1> HIDE DEF r, it
  <1>13. SubSeq(Append(r, it), 1, h) = before
    <2>1. SubSeq(Append(r, it), 1, h) = SubSeq(r, 1, h)
      BY ONLY <1>11, PrefixKept
    <2> QED
      BY <1>7, <2>1 DEF r
  <1>14. (first[lp] = Null => before = <<>>) /\ (before = <<>> => next'[lp] = first'[lp])
    <2>1. first[lp] = Null => s = <<>>
      BY <1>4, <1>5, EndOfLinked, ListAssumption
    <2>2. first[lp] = Null => h < 1
      <3>1. s = <<>> => Len(s) = 0
        OBVIOUS
      <3> QED
        BY <1>11, <2>1, <3>1
    <2>3. first[lp] = Null => before = <<>>
      <3>1. first[lp] = Null => SubSeq(r, 1, h) = <<>>
        <4>1. h \in Int /\ 1 \in Int
          BY <1>11
        <4> QED
          BY ONLY <2>2, <4>1, SubSeqEmpty
      <3> QED
        BY <1>7, <3>1 DEF r
    <2>4. before = <<>> => next'[lp] = first'[lp]
      <3>0. DOMAIN first = Lists /\ DOMAIN next = Lists
        BY <1>0, TypeIsBase DEF IInv, Base
      <3> QED
        BY <1>3, <1>4, <1>7, <3>0 DEF AppendFirst, AppendLast
    <2> QED
      BY <2>3, <2>4
  <1>15. UNCHANGED Abstract!vars
    <2>1. \A m \in Lists : next'[m] = next[m] \/ (m = lp /\ op \in {"append", "dup"} /\ before = <<>>)
      BY <1>3, <1>5, <1>14 DEF AppendFirst, AppendLast
    <2> QED
      BY <1>0, <1>3, <1>9, <2>1, IterationSim DEF Idle
  <1>16. SortProgress(Paths)'
    BY <1>3 DEF SortProgress
  <1>17. l \in Lists /\ l # lp
    BY <1>5, <1>6
  <1>18. /\ k \in 1..Len(Paths[l]) /\ ip = Paths[l][k] /\ k + 1 \in 1 .. Len(Paths[l]) + 1
         /\ ip' = At(Paths[l], k + 1) /\ Len(Paths[l]) \in Nat
    <2>1. /\ k \in DOMAIN Paths[l] /\ At(Paths[l], k) = Paths[l][k] /\ k + 1 \in 1 .. Len(Paths[l]) + 1
          /\ nxt[Paths[l][k]] = At(Paths[l], k + 1)
          /\ Len(Paths[l]) \in Nat /\ DOMAIN Paths[l] = 1..Len(Paths[l])
      BY <1>3, <1>5, <1>7, <1>17, PlaceOf
    <2> QED
      BY <1>3, <1>7, <2>1
  <1>19. n + 1 = k
    <2>1. ~(n < k - 1)
      BY <1>1, <1>3, <1>7
    <2> QED
      BY <1>6, <1>18, <2>1
  <1>20. /\ Len(Paths'[lp]) = Len(s) + 1 /\ Len(Paths'[lp]) - (n + 1) = h
         /\ \A i \in 1..Len(s) : Paths'[lp][i] = s[i]
         /\ Paths'[lp][Len(s) + 1] = e
    <2>1. /\ Len(Append(s, e)) = Len(s) + 1
          /\ \A i \in 1..Len(s) : Append(s, e)[i] = s[i]
          /\ Append(s, e)[Len(s) + 1] = e
      <3>1. s \in Seq(Nodes) /\ e \in Nodes
        BY <1>4, <1>5
      <3> QED
        BY ONLY <3>1, AppendProperties
    <2>3. Len(s) \in Int /\ n \in Int
      BY <1>11, <1>18
    <2>2. Len(s) + 1 - (n + 1) = h
      <3> SUFFICES ASSUME NEW L \in Int, NEW x \in Int PROVE L + 1 - (x + 1) = L - x
        BY <2>3
      <3> QED
        OBVIOUS
    <2> QED
      BY <1>10, <2>1, <2>2
  <1>21. \A i \in 1 .. n + 1 : key'[Paths'[lp][h + i]] = source[i].key
    <2> SUFFICES ASSUME NEW i \in 1 .. n + 1 PROVE key'[Paths'[lp][h + i]] = source[i].key
      OBVIOUS
    <2>1. CASE i \in 1..n
      <3>1. h + i \in 1..Len(s)
        <4>1. Len(s) \in Int /\ n \in Int /\ Len(s) - n >= 0
          BY <1>11, <1>18
        <4> SUFFICES ASSUME NEW L \in Int, NEW x \in Int, NEW j \in 1..x, L - x >= 0
                     PROVE  (L - x) + j \in 1..L
          BY <2>1, <4>1
        <4> QED
          OBVIOUS
      <3>2. s[h + i] \in Members(s) /\ s[h + i] \in Nodes
        BY <1>4, <1>5, <1>11, <3>1, ElementOfSeq DEF Members
      <3>3. key'[s[h + i]] = key[s[h + i]]
        BY <1>3, <1>4, <1>5, <1>8, <3>2
      <3> QED
        BY <1>7, <1>20, <2>1, <3>1, <3>3
    <2>2. CASE i = n + 1
      <3>1. h + i = Len(s) + 1
        BY <1>11, <1>18, <1>19, <2>2
      <3>2. source[k].key = key[Paths[l][k]]
        BY <1>7, <1>18 DEF Records
      <3> QED
        BY <1>8, <1>18, <1>19, <1>20, <2>2, <3>1, <3>2
    <2> QED
      BY <1>18, <1>19, <2>1, <2>2
  <1>22. CopyProgress(Paths)'
    <2>1. Copied(Paths, l, k + 1, n + 1)'
      <3>1. source' = Records(Paths'[l], key') /\ ip' = At(Paths'[l], k + 1)
        BY <1>3, <1>7, <1>9, <1>17, <1>18
      <3>2. h >= 0 /\ before' = SubSeq(Records(Paths'[lp'], key'), 1, h)
        <4>1. h >= 0
          BY <1>7
        <4> HIDE DEF h
        <4> QED
          BY <1>3, <1>12, <1>13, <4>1
      <3>3. ~(n + 1 < (k + 1) - 1)
        BY <1>18, <1>19
      <3> HIDE DEF h
      <3> QED
        BY <1>3, <1>7, <1>14, <1>20, <1>21, <3>1, <3>2, <3>3 DEF Copied, At
    <2>2. l \in made' \ {lp'} /\ k + 1 \in 1 .. Len(Paths'[l]) + 1 /\ n + 1 \in 0 .. Len(Paths'[l])
          /\ n + 1 < k + 1
      BY <1>3, <1>6, <1>9, <1>17, <1>18, <1>19
    <2> QED
      BY <2>1, <2>2 DEF CopyProgress
  <1> QED
    BY <1>15, <1>16, <1>22

(* The loops end: now the list is what the operation promises.               *)
LEMMA EndView ==
  ASSUME IInv, LoopEnds
  PROVE  /\ AbstractMade' = made /\ AbstractItems' = View /\ AbstractCursor' = next
         /\ DOMAIN AbstractItems = Lists
         /\ \A l \in Lists : AbstractItems[l] = IF l = lp THEN before ELSE View[l]
         /\ SortProgress(Paths)' /\ CopyProgress(Paths)'
  <1>1. IInv' /\ Paths' = Paths
    BY LoopStepNext
  <1>2. ~Idle /\ Idle' /\ op' = "none" /\ UNCHANGED <<made, next, key>>
    BY DEF LoopEnds, EndLoop, headers, heap, Idle
  <1>3. View' = View
    BY <1>1, <1>2 DEF View
  <1>4. AbstractMade' = made /\ AbstractItems' = View /\ AbstractCursor' = next
    BY <1>1, <1>2, <1>3, IdleViewNext
  <1>5. \A l \in Lists : Contents(l) = View[l]
    BY ViewIs DEF Contents, Paths, Records
  <1>6. /\ DOMAIN AbstractItems = Lists
        /\ \A l \in Lists : AbstractItems[l] = IF l = lp THEN before ELSE View[l]
    BY <1>2, <1>5 DEF AbstractItems
  <1>7. SortProgress(Paths)' /\ CopyProgress(Paths)'
    BY <1>2 DEF SortProgress, CopyProgress
  <1> QED
    BY <1>4, <1>6, <1>7

LEMMA SortEnds ==
  ASSUME RInv, LoopEnds, op = "sort"
  PROVE  Abstract!Sort(lp) /\ lp \in Lists
  <1>0. IInv /\ SortProgress(Paths) /\ ip = Null
    BY DEF RInv, LoopEnds
  <1>1. lp \in made /\ lp \in Lists /\ descending \in BOOLEAN
    BY <1>0, ListAssumption DEF IInv, TypeOK, LoopFits, Idle
  <1>2. /\ AbstractMade' = made /\ AbstractItems' = View /\ AbstractCursor' = next
        /\ DOMAIN AbstractItems = Lists
        /\ \A l \in Lists : AbstractItems[l] = IF l = lp THEN before ELSE View[l]
    BY <1>0, EndView
  <1>3. AbstractMade = made /\ AbstractCursor = next
    BY <1>0, Facts DEF AbstractMade, AbstractCursor
  <1> DEFINE s == Paths[lp]
             t == Records(s, key)
  <1>4. /\ t = View[lp] /\ DOMAIN t = 1..Len(s) /\ Len(t) = Len(s) /\ Len(s) \in Nat
        /\ Linked(s, first[lp], nxt, prev)
    <2>1. s \in Seq(Nodes) /\ key \in [Nodes -> Keys] /\ Linked(s, first[lp], nxt, prev)
      BY <1>0, <1>1, Facts
    <2> QED
      BY <1>1, <2>1, ViewIs, RecordsAre
  <1>5. PICK k \in 1 .. Len(t) + 1 :
          /\ ip = At(s, k)
          /\ \A i, j \in DOMAIN t : i < k /\ i < j => Abstract!InOrder(t, i, j, descending)
    BY <1>0 DEF SortProgress
  <1>6. k = Len(s) + 1
    BY <1>0, <1>4, <1>5, PlaceOf
  <1>7. Abstract!Rearranged(t, before) /\ Abstract!Stable(t, before)
    BY <1>0 DEF SortProgress
  <1> HIDE DEF t, s
  <1>8. Abstract!Ordered(t, descending)
    <2>1. \A i \in DOMAIN t : i < k
      BY <1>4, <1>6
    <2> QED
      BY <1>5, <2>1 DEF Abstract!Ordered
  <1>9. Abstract!StablySorted(AbstractItems'[lp], AbstractItems[lp], descending)
    BY <1>1, <1>2, <1>4, <1>7, <1>8 DEF Abstract!StablySorted
  <1>10. AbstractItems' = [AbstractItems EXCEPT ![lp] = AbstractItems'[lp]]
    <2>1. View = [l \in Lists |-> View[l]]
      BY ViewIs
    <2>2. AbstractItems = [l \in Lists |-> AbstractItems[l]]
      BY DEF AbstractItems
    <2> QED
      BY <1>1, <1>2, <2>1, <2>2
  <1> QED
    BY <1>1, <1>2, <1>3, <1>9, <1>10 DEF Abstract!Sort

(* A sequence is its first h items and then the others.                      *)
LEMMA Split ==
  ASSUME NEW r \in Seq(Rec), NEW h \in 0..Len(r)
  PROVE  LET b == SubSeq(r, 1, h) g == SubSeq(r, h + 1, Len(r)) IN
         /\ r = b \o g
         /\ Len(b) = h /\ DOMAIN b = 1..h /\ \A i \in 1..h : b[i] = r[i]
         /\ Len(g) = Len(r) - h /\ DOMAIN g = 1 .. Len(r) - h
         /\ \A i \in 1 .. Len(r) - h : g[i] = r[h + i]
         /\ b = <<>> <=> h = 0
         /\ g = <<>> <=> h = Len(r)
  <1> DEFINE L == Len(r)
             b == SubSeq(r, 1, h)
             g == SubSeq(r, h + 1, L)
  <1>1. L \in Nat /\ h \in Nat /\ h <= L /\ \A i \in 1..L : r[i] \in Rec
    BY LenProperties, ElementOfSeq
  <1> HIDE DEF L
  <1>2. /\ b \in Seq(Rec) /\ Len(b) = (IF 1 <= h THEN h - 1 + 1 ELSE 0)
        /\ \A i \in 1 .. h - 1 + 1 : b[i] = r[1 + i - 1]
    <2>1. 1 \in Int /\ h \in Int /\ \A i \in 1..h : r[i] \in Rec
      BY <1>1
    <2> QED
      BY ONLY <2>1, SubSeqProperties
  <1>3. /\ g \in Seq(Rec) /\ Len(g) = (IF h + 1 <= L THEN L - (h + 1) + 1 ELSE 0)
        /\ \A i \in 1 .. L - (h + 1) + 1 : g[i] = r[(h + 1) + i - 1]
    <2>1. h + 1 \in Int /\ L \in Int /\ \A i \in h + 1 .. L : r[i] \in Rec
      BY <1>1
    <2> QED
      BY ONLY <2>1, SubSeqProperties
  <1>4. b \o g = r
    <2>1. /\ r \in Seq(Rec) /\ 1 \in 1 .. Len(r) + 1 /\ h \in 1 - 1 .. Len(r) /\ Len(r) \in h .. Len(r)
      BY <1>1 DEF L
    <2>2. SubSeq(r, 1, h) \o SubSeq(r, h + 1, Len(r)) = SubSeq(r, 1, Len(r))
      BY ONLY <2>1, ConcatAdjacentSubSeq
    <2>3. SubSeq(r, 1, Len(r)) = r
      BY SubSeqFull
    <2> QED
      BY <2>2, <2>3 DEF L
  <1> HIDE DEF b, g
  <1>5. Len(b) = h /\ DOMAIN b = 1..h /\ \A i \in 1..h : b[i] = r[i]
    <2>1. Len(b) = h /\ DOMAIN b = 1..Len(b)
      BY <1>1, <1>2
    <2>2. ASSUME NEW i \in 1..h PROVE b[i] = r[i]
      <3>1. i \in 1 .. h - 1 + 1 /\ 1 + i - 1 = i
        BY <1>1
      <3> QED
        BY <1>2, <3>1
    <2> QED
      BY <2>1, <2>2
  <1>6. Len(g) = L - h /\ DOMAIN g = 1 .. L - h /\ \A i \in 1 .. L - h : g[i] = r[h + i]
    <2>1. Len(g) = L - h /\ DOMAIN g = 1..Len(g)
      BY <1>1, <1>3
    <2>2. ASSUME NEW i \in 1 .. L - h PROVE g[i] = r[h + i]
      <3>1. i \in 1 .. L - (h + 1) + 1 /\ (h + 1) + i - 1 = h + i
        BY <1>1
      <3> QED
        BY <1>3, <3>1
    <2> QED
      BY <2>1, <2>2
  <1>7. (b = <<>> <=> h = 0) /\ (g = <<>> <=> h = L)
    <2>1. (b = <<>> <=> Len(b) = 0) /\ (g = <<>> <=> Len(g) = 0)
      BY ONLY <1>2, <1>3
    <2>2. L - h = 0 <=> h = L
      BY <1>1
    <2> QED
      BY <1>5, <1>6, <2>1, <2>2
  <1> QED
    BY <1>4, <1>5, <1>6, <1>7 DEF b, g, L

LEMMA CopyEnds ==
  ASSUME RInv, LoopEnds, op \in {"append", "dup"}
  PROVE  /\ lp \in Lists
         /\ \E l \in Lists : \/ op = "append" /\ Abstract!AddList(lp, l)
                             \/ op = "dup" /\ Abstract!Dup(l, lp)
  <1>0. IInv /\ CopyProgress(Paths) /\ ip = Null
    BY DEF RInv, LoopEnds
  <1>1. lp \in made /\ lp \in Lists
    BY <1>0, ListAssumption DEF IInv, TypeOK, LoopFits, Idle
  <1>2. /\ AbstractMade' = made /\ AbstractItems' = View /\ AbstractCursor' = next
        /\ DOMAIN AbstractItems = Lists
        /\ \A m \in Lists : AbstractItems[m] = IF m = lp THEN before ELSE View[m]
    BY <1>0, EndView
  <1>3. /\ key \in [Nodes -> Keys] /\ next = [m \in Lists |-> next[m]] /\ made \subseteq Lists
        /\ \A m \in Lists : /\ Paths[m] \in Seq(Nodes) /\ Linked(Paths[m], first[m], nxt, prev)
                            /\ HeaderFits(m, Paths[m])
        /\ \A m, i \in Lists : m # i => Members(Paths[m]) \cap Members(Paths[i]) = {}
        /\ live = UNION { Members(Paths[m]) : m \in Lists }
    BY <1>0, Facts
  <1>4a. PICK l \in made \ {lp} : \E k \in 1 .. Len(Paths[l]) + 1, n \in 0 .. Len(Paths[l]) :
          n < k /\ Copied(Paths, l, k, n)
    BY <1>0 DEF CopyProgress
  <1>4. PICK k \in 1 .. Len(Paths[l]) + 1, n \in 0 .. Len(Paths[l]) :
          l \in made \ {lp} /\ n < k /\ Copied(Paths, l, k, n)
    BY <1>4a
  <1>5. l \in Lists /\ l # lp /\ l \in made
    BY <1>3, <1>4
  <1> DEFINE s == Paths[lp]
             r == Records(s, key)
             h == Len(s) - n
             b == SubSeq(r, 1, h)
             g == SubSeq(r, h + 1, Len(r))
  <1>6. /\ source = Records(Paths[l], key) /\ ip = At(Paths[l], k)
        /\ h >= 0 /\ before = b
        /\ \A i \in 1..n : key[s[h + i]] = source[i].key
        /\ n < k - 1 => live = Nodes
        /\ before = <<>> => next[lp] = first[lp]
        /\ op = "dup" => before = <<>>
    BY <1>4 DEF Copied
  <1>7. /\ r \in Seq(Rec) /\ Len(r) = Len(s) /\ Len(s) \in Nat /\ DOMAIN s = 1..Len(s)
        /\ \A i \in 1..Len(s) : r[i].id = s[i] /\ r[i].key = key[s[i]]
        /\ r = View[lp]
    <2>1. s \in Seq(Nodes) /\ key \in [Nodes -> Keys]
      BY <1>1, <1>3
    <2>2. r = View[lp]
      BY <1>1, ViewIs
    <2>3. /\ r \in Seq(Rec) /\ Len(r) = Len(s) /\ Len(s) \in Nat /\ DOMAIN s = 1..Len(s)
          /\ \A i \in 1..Len(s) : r[i].id = s[i] /\ r[i].key = key[s[i]]
      BY ONLY <2>1, RecordsAre
    <2> QED
      BY ONLY <2>2, <2>3
  <1>8. /\ source = View[l] /\ Len(source) = Len(Paths[l]) /\ Len(Paths[l]) \in Nat
        /\ k = Len(source) + 1
    <2>1. /\ Len(Records(Paths[l], key)) = Len(Paths[l]) /\ Len(Paths[l]) \in Nat
      BY <1>3, <1>5, RecordsAre
    <2>2. k = Len(Paths[l]) + 1
      BY <1>0, <1>3, <1>5, <1>6, PlaceOf
    <2> QED
      BY <1>5, <1>6, <2>1, <2>2, ViewIs
  <1>9. h \in 0..Len(r) /\ Len(r) - h = n /\ n \in Nat /\ Len(s) = h + n
    <2>1. n \in Nat
      BY <1>4, <1>8
    <2>2. Len(s) - n >= 0
      BY <1>6
    <2> SUFFICES ASSUME NEW L \in Nat, NEW x \in Nat, L - x >= 0
                 PROVE  L - x \in 0..L /\ L - (L - x) = x /\ x \in Nat /\ L = (L - x) + x
      BY <1>7, <2>1, <2>2
    <2> QED
      OBVIOUS
  <1>10. /\ r = b \o g
         /\ Len(b) = h /\ DOMAIN b = 1..h /\ \A i \in 1..h : b[i] = r[i]
         /\ Len(g) = n /\ DOMAIN g = 1..n /\ \A i \in 1..n : g[i] = r[h + i]
         /\ b = <<>> <=> h = 0
         /\ g = <<>> <=> h = Len(r)
    <2> HIDE DEF r, h
    <2>1. /\ r = b \o g
          /\ Len(b) = h /\ DOMAIN b = 1..h /\ \A i \in 1..h : b[i] = r[i]
          /\ Len(g) = Len(r) - h /\ DOMAIN g = 1 .. Len(r) - h /\ \A i \in 1 .. Len(r) - h : g[i] = r[h + i]
          /\ b = <<>> <=> h = 0
          /\ g = <<>> <=> h = Len(r)
      <3> SUFFICES ASSUME NEW w, w = r, NEW x, x = h
                   PROVE  LET f == SubSeq(w, 1, x) e == SubSeq(w, x + 1, Len(w)) IN
                          /\ w = f \o e
                          /\ Len(f) = x /\ DOMAIN f = 1..x /\ \A i \in 1..x : f[i] = w[i]
                          /\ Len(e) = Len(w) - x /\ DOMAIN e = 1 .. Len(w) - x
                          /\ \A i \in 1 .. Len(w) - x : e[i] = w[x + i]
                          /\ f = <<>> <=> x = 0
                          /\ e = <<>> <=> x = Len(w)
        OBVIOUS
      <3>1. w \in Seq(Rec) /\ x \in 0..Len(w)
        BY <1>7, <1>9
      <3> QED
        BY ONLY <3>1, Split
    <2> HIDE DEF b, g
    <2> QED
      BY ONLY <1>9, <2>1
  <1> HIDE DEF r, h, b, g
  <1>11. \A i \in 1..n : h + i \in 1..Len(s) /\ g[i].id = s[h + i] /\ g[i].key = source[i].key
    <2> SUFFICES ASSUME NEW i \in 1..n
                 PROVE  h + i \in 1..Len(s) /\ g[i].id = s[h + i] /\ g[i].key = source[i].key
      OBVIOUS
    <2>1. h + i \in 1..Len(s)
      BY ONLY <1>7, <1>9, i \in 1..n
    <2>2. g[i] = r[h + i] /\ r[h + i].id = s[h + i] /\ r[h + i].key = key[s[h + i]]
      BY <1>7, <1>10, <2>1
    <2> QED
      BY <1>6, <2>1, <2>2
  <1>12. \A i \in 1..h : i \in 1..Len(s) /\ b[i].id = s[i]
    BY <1>7, <1>9, <1>10
  <1>13. \A i, j \in 1..Len(s) : s[i] = s[j] => i = j
    BY <1>1, <1>3, <1>7 DEF Linked
  <1>14. AbstractItems[lp] = b /\ AbstractItems[l] = source /\ AbstractItems'[lp] = r
    BY <1>1, <1>2, <1>5, <1>6, <1>7, <1>8
  <1>15. Abstract!Gained(lp) = g
    <2>1. Abstract!Gained(lp) = SubSeq(r, h + 1, Len(r))
      BY <1>10, <1>14 DEF Abstract!Gained
    <2> QED
      BY <2>1 DEF g
  <1>16. Abstract!Ids(g) = { s[h + i] : i \in 1..n } /\ Abstract!Ids(b) = { s[i] : i \in 1..h }
    <2>1. { g[i].id : i \in DOMAIN g } = { s[h + i] : i \in 1..n }
      <3>1. DOMAIN g = 1..n /\ \A i \in 1..n : g[i].id = s[h + i]
        BY ONLY <1>10, <1>11
      <3> QED
        BY ONLY <3>1
    <2>2. { b[i].id : i \in DOMAIN b } = { s[i] : i \in 1..h }
      <3>1. DOMAIN b = 1..h /\ \A i \in 1..h : b[i].id = s[i]
        BY ONLY <1>10, <1>12
      <3> QED
        BY ONLY <3>1
    <2> QED
      BY <2>1, <2>2 DEF Abstract!Ids
  <1>17. AbstractMade = IF op = "dup" THEN made \ {lp} ELSE made
    BY DEF AbstractMade
  <1>18. \A m \in made : m # lp => Abstract!Ids(AbstractItems[m]) = Members(Paths[m])
    BY <1>2, <1>3, ViewIs, IdsOfRecords
  <1>19. Abstract!Ids(g) \cap Abstract!Used = {}
    <2> SUFFICES ASSUME NEW i \in 1..n, NEW m \in AbstractMade, s[h + i] \in Abstract!Ids(AbstractItems[m])
                 PROVE  FALSE
      BY <1>16 DEF Abstract!Used
    <2>1. s[h + i] \in Members(s)
      BY <1>7, <1>11 DEF Members
    <2>2. CASE m = lp
      <3>1. PICK j \in 1..h : s[h + i] = s[j]
        BY <1>14, <1>16, <2>2
      <3>2. h + i = j
        BY <1>11, <1>12, <1>13, <3>1
      <3> QED
        BY <1>9, <3>2
    <2>3. CASE m # lp
      <3>1. m \in made /\ m \in Lists
        BY <1>3, <1>17
      <3>2. s[h + i] \in Members(Paths[m])
        BY <1>18, <2>3, <3>1
      <3> QED
        BY <1>1, <1>3, <2>1, <2>3, <3>1, <3>2
    <2> QED
      BY <2>2, <2>3
  <1>20. \A i, j \in DOMAIN g : g[i].id = g[j].id => i = j
    <2> SUFFICES ASSUME NEW i \in 1..n, NEW j \in 1..n, g[i].id = g[j].id PROVE i = j
      BY <1>10
    <2>1. h + i = h + j
      BY <1>11, <1>13
    <2> QED
      BY <1>9, <2>1
  <1>21. AbstractItems' = [AbstractItems EXCEPT ![lp] = @ \o g]
    <2>1. View = [m \in Lists |-> View[m]]
      BY ViewIs
    <2>2. AbstractItems = [m \in Lists |-> AbstractItems[m]]
      BY DEF AbstractItems
    <2>3. AbstractItems'[lp] = AbstractItems[lp] \o g
      BY <1>10, <1>14
    <2> QED
      BY <1>1, <1>2, <2>1, <2>2, <2>3
  <1>22. AbstractCursor' = IF AbstractItems[lp] = <<>> /\ g # <<>>
                           THEN [AbstractCursor EXCEPT ![lp] = g[1].id] ELSE AbstractCursor
    <2>1. AbstractCursor = [m \in Lists |-> IF m = lp /\ b = <<>> THEN Null ELSE next[m]]
      BY <1>6 DEF AbstractCursor
    <2>2. first[lp] = IF s = <<>> THEN Null ELSE s[1]
      BY <1>1, <1>3 DEF Linked
    <2>3. CASE b # <<>>
      BY <1>2, <1>3, <1>14, <2>1, <2>3
    <2>4. CASE b = <<>> /\ g = <<>>
      <3>1. s = <<>>
        <4>1. Len(s) = 0
          BY <1>7, <1>9, <1>10, <2>4
        <4> QED
          BY <1>1, <1>3, <4>1
      <3>2. next[lp] = Null
        BY <1>6, <2>2, <2>4, <3>1
      <3>3. AbstractCursor = next
        BY <1>3, <2>1, <3>2
      <3> QED
        BY <1>2, <2>4, <3>3
    <2>5. CASE b = <<>> /\ g # <<>>
      <3>1. h = 0 /\ 1 \in 1..n
        BY <1>7, <1>9, <1>10, <2>5
      <3>2. g[1].id = s[1] /\ s # <<>>
        BY <1>7, <1>11, <3>1
      <3>3. next[lp] = g[1].id
        BY <1>6, <2>2, <2>5, <3>2
      <3>4. next = [AbstractCursor EXCEPT ![lp] = g[1].id]
        BY <1>1, <1>3, <2>1, <2>5, <3>3
      <3> QED
        BY <1>2, <1>14, <2>5, <3>4
    <2> QED
      BY <2>3, <2>4, <2>5
  <1>23. Abstract!Extend(lp, Abstract!Gained(lp))
    BY ONLY <1>15, <1>19, <1>20, <1>21, <1>22 DEF Abstract!Extend
  <1>24. ASSUME Len(g) < Len(source) PROVE Abstract!Used \cup Abstract!Ids(g) = Nodes
    <2>1. live = Nodes
      BY <1>6, <1>8, <1>9, <1>10, <1>24
    <2>2. ASSUME NEW x \in Nodes PROVE x \in Abstract!Used \cup Abstract!Ids(g)
      <3>1. PICK m \in Lists : x \in Members(Paths[m])
        BY <1>3, <2>1
      <3>2. CASE m # lp
        <4>1. m \in made
          BY <1>3, <3>1, EmptyLinked DEF HeaderFits
        <4>2. x \in Abstract!Ids(AbstractItems[m]) /\ m \in AbstractMade
          BY <1>17, <1>18, <3>1, <3>2, <4>1
        <4> QED
          BY <4>2 DEF Abstract!Used
      <3>3. CASE m = lp
        <4>1. PICK i \in 1..Len(s) : x = s[i]
          BY <1>7, <3>1, <3>3 DEF Members
        <4>2. CASE i \in 1..h
          <5>1. b # <<>>
            BY <1>9, <1>10, <4>2
          <5>2. lp \in AbstractMade
            BY <1>1, <1>6, <1>17, <5>1
          <5>3. x \in Abstract!Ids(AbstractItems[lp])
            BY <1>14, <1>16, <4>1, <4>2
          <5> QED
            BY <5>2, <5>3 DEF Abstract!Used
        <4>3. CASE i \notin 1..h
          <5>1. i - h \in 1..n /\ h + (i - h) = i
            BY <1>7, <1>9, <4>3
          <5> QED
            BY <1>16, <4>1, <5>1
        <4> QED
          BY <4>2, <4>3
      <3> QED
        BY <3>2, <3>3
    <2>3. Abstract!Used \cup Abstract!Ids(g) \subseteq Nodes
      <3>1. \A m \in Lists : Members(Paths[m]) \subseteq Nodes
        BY <1>3, Neighbours
      <3>2. \A i \in 1..Len(s) : s[i] \in Nodes
        BY <1>1, <1>3, <1>7, ElementOfSeq
      <3>3. Abstract!Ids(g) \subseteq Nodes /\ Abstract!Ids(b) \subseteq Nodes
        BY <1>11, <1>12, <1>16, <3>2
      <3>4. ASSUME NEW m \in AbstractMade PROVE Abstract!Ids(AbstractItems[m]) \subseteq Nodes
        <4>1. m \in made /\ m \in Lists
          BY <1>3, <1>17
        <4> QED
          BY <1>14, <1>18, <3>1, <3>3, <4>1
      <3> QED
        BY <3>3, <3>4 DEF Abstract!Used
    <2> QED
      BY <2>2, <2>3
  <1>25. Abstract!Copies(Abstract!Gained(lp), AbstractItems[l])
    <2>1. Len(g) <= Len(source)
      BY <1>4, <1>8, <1>9, <1>10
    <2>2. \A i \in DOMAIN g : g[i].key = source[i].key
      BY <1>10, <1>11
    <2> QED
      BY <1>14, <1>15, <1>24, <2>1, <2>2 DEF Abstract!Copies
  <1>26. CASE op = "append"
    <2>1. lp \in AbstractMade /\ l \in AbstractMade /\ AbstractMade' = AbstractMade
      BY <1>1, <1>2, <1>5, <1>17, <1>26
    <2> QED
      BY <1>1, <1>5, <1>23, <1>25, <1>26, <2>1 DEF Abstract!AddList
  <1>27. CASE op = "dup"
    <2>1. lp \notin AbstractMade /\ l \in AbstractMade /\ AbstractMade' = AbstractMade \cup {lp}
      BY <1>1, <1>2, <1>5, <1>17, <1>27
    <2> QED
      BY <1>1, <1>5, <1>23, <1>25, <1>27, <2>1 DEF Abstract!Dup
  <1> QED
    BY <1>26, <1>27

-----------------------------------------------------------------------------
(* Everything else ends or begins with no loop running.                      *)
LEMMA NoProgress ==
  ASSUME op' = "none"
  PROVE  SortProgress(Paths)' /\ CopyProgress(Paths)'
  BY DEF SortProgress, CopyProgress

LEMMA StutterSim ==
  ASSUME RInv, UNCHANGED vars
  PROVE  RInv' /\ UNCHANGED Abstract!vars
  <1>1. IInv' /\ IInv
    BY StutterNext DEF RInv
  <1>2. Paths' = Paths
    BY FromIsWalk DEF Paths, vars, headers, heap
  <1>3. SortProgress(Paths)' /\ CopyProgress(Paths)'
    BY <1>2 DEF RInv, SortProgress, CopyProgress, Copied, At, vars, headers, heap, loop
  <1>4. UNCHANGED Abstract!vars
    <2>1. \A i \in Lists : Contents(i)' = Contents(i)
      BY <1>2 DEF Contents, vars, headers, heap, Paths
    <2>2. AbstractItems' = AbstractItems
      BY <2>1 DEF AbstractItems, vars, loop, Idle
    <2> QED
      BY <2>2 DEF Abstract!vars, AbstractMade, AbstractCursor, vars, loop, headers, Idle
  <1> QED
    BY <1>1, <1>3, <1>4 DEF RInv

LEMMA StepSim ==
  ASSUME ~AddAfterSort, RInv, Next
  PROVE  RInv' /\ [Abstract!Next]_(Abstract!vars)
  <1>1. IInv /\ IInv'
    BY StepNext DEF RInv
  <1>2. CASE SortSwap \/ SortNext \/ CopyItem \/ CopyFails
    BY <1>1, <1>2, SortSwapSim, SortNextSim, CopyItemSim, CopyFailsSim DEF RInv
  <1>3. CASE LoopEnds
    <2>1. SortProgress(Paths)' /\ CopyProgress(Paths)'
      BY <1>1, <1>3, EndView
    <2>2. op \in {"sort", "append", "dup"}
      BY <1>1, <1>3 DEF LoopEnds, Idle, IInv, TypeOK
    <2>3. Abstract!Next
      BY <1>3, <2>2, SortEnds, CopyEnds DEF Abstract!Next
    <2> QED
      BY <1>1, <2>1, <2>3 DEF RInv
  <1>4. ASSUME NEW l \in Lists, list_create(l) \/ list_destroy(l) \/ list_get_next(l) \/ list_reset(l)
        PROVE  RInv' /\ Abstract!Next
    <2>1. op' = "none"
      BY <1>4 DEF list_create, list_destroy, list_get_next, list_reset, loop, Idle
    <2>2. Abstract!Create(l) \/ Abstract!Destroy(l) \/ Abstract!GetNext(l) \/ Abstract!Reset(l)
      BY <1>1, <1>4, CreateSim, DestroySim, CursorSim
    <2> QED
      BY <1>1, <2>1, <2>2, NoProgress DEF RInv, Abstract!Next
  <1>5. ASSUME NEW l \in Lists, NEW n \in Nodes, NEW k \in Keys, list_add(l, n, k) \/ list_delete(l, n)
        PROVE  RInv' /\ Abstract!Next
    <2>1. op' = "none"
      BY <1>5 DEF list_add, list_delete, loop, Idle
    <2>2. Abstract!Add(l) \/ Abstract!Delete(l)
      BY <1>1, <1>5, AddSim, DeleteSim
    <2> QED
      BY <1>1, <2>1, <2>2, NoProgress DEF RInv, Abstract!Next
  <1>6. ASSUME NEW l \in Lists, NEW m \in Lists, list_sort(l) \/ list_add_list(l, m) \/ list_dup(m, l)
        PROVE  RInv' /\ UNCHANGED Abstract!vars
    <2>1. UNCHANGED Abstract!vars
      BY <1>1, <1>6, BeginSim
    <2>2. SortProgress(Paths)' /\ CopyProgress(Paths)'
      BY <1>1, <1>6, SortStart, CopyStart
    <2> QED
      BY <1>1, <2>1, <2>2 DEF RInv
  <1>7. CASE \E l \in Lists : list_create(l) \/ list_destroy(l) \/ list_get_next(l) \/ list_reset(l)
    BY <1>4, <1>7
  <1>8. CASE \E l \in Lists : \E n \in Nodes, k \in Keys : list_add(l, n, k)
    BY <1>5, <1>8
  <1>9. CASE \E l \in Lists : \E n \in Nodes : list_delete(l, n)
    <2>1. \E k \in Keys : TRUE
      BY ListAssumption
    <2> QED
      BY <1>5, <1>9, <2>1
  <1>10. CASE \E l \in Lists : list_sort(l)
    BY <1>6, <1>10
  <1>11. CASE \E l \in Lists : \E l2 \in Lists : list_add_list(l, l2) \/ list_dup(l2, l)
    BY <1>6, <1>11
  <1> QED
    BY <1>2, <1>3, <1>7, <1>8, <1>9, <1>10, <1>11 DEF Next, LoopStep

LEMMA InitSim == Init => RInv /\ Abstract!Init
  <1> SUFFICES ASSUME Init PROVE RInv /\ Abstract!Init
    OBVIOUS
  <1>1. IInv
    BY InitIInv
  <1>2. RInv
    BY <1>1 DEF Init, RInv, SortProgress, CopyProgress
  <1>3. AbstractMade = made /\ AbstractItems = View /\ AbstractCursor = next
    BY <1>1, IdleView DEF Init, Idle
  <1>4. \A l \in Lists : Paths[l] = <<>>
    BY <1>1, Facts DEF Init, HeaderFits
  <1>5. View = [l \in Lists |-> <<>>]
    BY <1>4, ViewIs DEF Records
  <1> QED
    BY <1>2, <1>3, <1>5 DEF Init, Abstract!Init

(* However list_sort's and the copying loops run, whatever malloc refuses,   *)
(* every operation of src/util/list.c does to the list as a sequence what    *)
(* ListSeq says of it: add appends, delete removes that item and moves only  *)
(* a cursor that was on it, sort is a stable sort, add_list and dup copy the *)
(* items in order and stop only for want of memory.                          *)
THEOREM Refinement ==
  ASSUME ~AddAfterSort
  PROVE  Spec => ImplementsListSeq
  <1>1. Init => RInv /\ Abstract!Init
    BY InitSim
  <1>2. RInv /\ [Next]_vars => RInv' /\ [Abstract!Next]_(Abstract!vars)
    BY StepSim, StutterSim
  <1> QED
    BY <1>1, <1>2, PTL DEF Spec, ImplementsListSeq, Abstract!Spec
-----------------------------------------------------------------------------
(* Why the loops end.  An iteration either takes ip one place on along its   *)
(* list, which the iteration leaves as it is; or, in list_sort, it stays at  *)
(* its place on the list, whose nodes are the same, and the node found there *)
(* belongs strictly before the one that was there: no list holds an endless  *)
(* descent.                                                                  *)

MovesOn(l, k) == Paths'[l] = Paths[l] /\ ip' = At(Paths[l], k + 1)
Improves(l, k) ==
  /\ op = "sort" /\ ip' = Paths'[l][k] /\ compare(ip, ip') /\ UNCHANGED <<key, descending>>
  /\ Len(Paths'[l]) = Len(Paths[l]) /\ Members(Paths'[l]) = Members(Paths[l])
IterationAdvances ==
  ~Idle /\ ip # Null =>
    /\ UNCHANGED <<op, lp>>
    /\ \E l \in Lists : \E k \in DOMAIN Paths[l] :
         ip = Paths[l][k] /\ (MovesOn(l, k) \/ Improves(l, k))

LEMMA MovedIs ==
  ASSUME NEW s \in Seq(Nodes), NEW i \in DOMAIN s, NEW q \in DOMAIN s, i < q
  PROVE  /\ Len(Moved(s, i, q)) = Len(s) /\ Moved(s, i, q)[i] = s[q]
         /\ Members(Moved(s, i, q)) = Members(s)
  <1> DEFINE L == Len(s)
             u == Moved(s, i, q)
  <1>1. L \in Nat /\ DOMAIN s = 1..L /\ i \in 1..L /\ q \in 1..L
    BY LenProperties
  <1>2. /\ DOMAIN u = 1..L
        /\ \A j \in 1..L : u[j] = IF j = i THEN s[q] ELSE IF i < j /\ j <= q THEN s[j - 1] ELSE s[j]
    BY <1>1 DEF Moved
  <1>3. Len(u) = L
    BY <1>1 DEF Moved
  <1> HIDE DEF L, u
  <1>4. u[i] = s[q]
    BY ONLY <1>1, <1>2
  <1>5. ASSUME NEW j \in 1..L PROVE \E k \in 1..L : u[j] = s[k]
    <2>1. CASE j = i
      BY <1>1, <1>2, <2>1
    <2>2. CASE j # i /\ i < j /\ j <= q
      <3>1. j - 1 \in 1..L
        BY <1>1, <2>2
      <3> QED
        BY <1>2, <2>2, <3>1
    <2>3. CASE j # i /\ ~(i < j /\ j <= q)
      BY <1>2, <2>3
    <2> QED
      BY <2>1, <2>2, <2>3
  <1>6. ASSUME NEW j \in 1..L PROVE \E k \in 1..L : s[j] = u[k]
    <2>1. CASE j = q
      BY <1>1, <1>4, <2>1
    <2>2. CASE i <= j /\ j < q
      <3>1. /\ j + 1 \in 1..L /\ j + 1 # i /\ i < j + 1 /\ j + 1 <= q
        BY <1>1, <2>2
      <3>2. j + 1 - 1 = j
        BY <1>1
      <3> QED
        BY <1>2, <3>1, <3>2
    <2>3. CASE j < i \/ q < j
      <3>1. j # i /\ ~(i < j /\ j <= q)
        BY <1>1, <2>3, i < q
      <3> QED
        BY <1>2, <3>1
    <2> QED
      BY <1>1, <2>1, <2>2, <2>3
  <1>7. { u[j] : j \in 1..L } = { s[j] : j \in 1..L }
    <2> DEFINE U == { u[j] : j \in 1..L }
               S == { s[j] : j \in 1..L }
    <2>1. ASSUME NEW x \in U PROVE x \in S
      BY <1>5
    <2>2. ASSUME NEW x \in S PROVE x \in U
      BY <1>6
    <2> QED
      BY <2>1, <2>2
  <1> QED
    BY <1>1, <1>2, <1>3, <1>4, <1>7 DEF Members, u, L

(* Where an iteration leaves its list alone, nxt takes ip one place on.      *)
LEMMA OneOn ==
  ASSUME IInv, NEW l \in Lists, NEW k \in 1 .. Len(Paths[l]) + 1,
         ip # Null, ip = At(Paths[l], k), ip' = nxt[ip], Paths'[l] = Paths[l]
  PROVE  k \in DOMAIN Paths[l] /\ ip = Paths[l][k] /\ MovesOn(l, k)
  <1>1. Linked(Paths[l], first[l], nxt, prev)
    BY Facts
  <1>2. k \in DOMAIN Paths[l] /\ At(Paths[l], k) = Paths[l][k] /\ nxt[Paths[l][k]] = At(Paths[l], k + 1)
    BY <1>1, PlaceOf
  <1> QED
    BY <1>2 DEF MovesOn

LEMMA IterationStep == ~AddAfterSort /\ RInv /\ [Next]_vars => [IterationAdvances]_vars
  <1> SUFFICES ASSUME RInv, Next, ~Idle, ip # Null PROVE IterationAdvances
    BY DEF IterationAdvances
  <1>1. IInv /\ SortProgress(Paths) /\ CopyProgress(Paths)
    BY DEF RInv
  <1>2. SortSwap \/ SortNext \/ CopyItem \/ CopyFails
    BY DEF Next, LoopStep, LoopEnds, list_create, list_destroy, list_add, Append1, list_delete, list_get_next,
           list_reset, list_sort, list_add_list, list_dup, _newitem
  <1>3. lp \in Lists /\ lp \in made /\ made \subseteq Lists
    BY <1>1, ListAssumption DEF IInv, TypeOK, LoopFits
  <1>4. CASE SortSwap
    <2>1. PICK i \in DOMAIN Paths[lp], q \in DOMAIN Paths[lp] :
            /\ i < q /\ ip = Paths[lp][i] /\ ip' = Paths[lp][q]
            /\ Paths' = [Paths EXCEPT ![lp] = Moved(@, i, q)]
            /\ compare(ip, Paths[lp][q])
      BY <1>1, <1>4, SortSwapNext
    <2>2. op = "sort" /\ UNCHANGED <<key, op, lp, descending>>
      BY <1>4 DEF SortSwap
    <2>3. Paths[lp] \in Seq(Nodes) /\ Paths'[lp] = Moved(Paths[lp], i, q)
      BY <1>1, <1>3, <2>1, Facts DEF Families
    <2>4. /\ Len(Moved(Paths[lp], i, q)) = Len(Paths[lp]) /\ Moved(Paths[lp], i, q)[i] = Paths[lp][q]
          /\ Members(Moved(Paths[lp], i, q)) = Members(Paths[lp])
      BY <2>1, <2>3, MovedIs
    <2>5. Improves(lp, i)
      BY <2>1, <2>2, <2>3, <2>4 DEF Improves
    <2> QED
      BY <1>3, <2>1, <2>2, <2>5 DEF IterationAdvances
  <1>5. CASE SortNext
    <2>1. Paths' = Paths /\ op = "sort" /\ ip' = nxt[ip] /\ UNCHANGED <<op, lp>>
      BY <1>1, <1>5, LoopStepNext DEF SortNext
    <2>2. PICK k \in 1 .. Len(Records(Paths[lp], key)) + 1 : ip = At(Paths[lp], k)
      BY <1>1, <2>1 DEF SortProgress
    <2>3. Len(Records(Paths[lp], key)) = Len(Paths[lp])
      BY <1>1, <1>3, Facts, RecordsAre
    <2> QED
      BY <1>1, <1>3, <2>1, <2>2, <2>3, OneOn DEF IterationAdvances
  <1>6. CASE CopyItem \/ CopyFails
    <2>1. op \in {"append", "dup"} /\ ip' = nxt[ip] /\ UNCHANGED <<op, lp>>
      BY <1>6 DEF CopyItem, CopyFails
    <2>2. PICK l \in made \ {lp} : \E k \in 1 .. Len(Paths[l]) + 1, n \in 0 .. Len(Paths[l]) :
                                     n < k /\ Copied(Paths, l, k, n)
      BY <1>1, <2>1 DEF CopyProgress
    <2>3. PICK k \in 1 .. Len(Paths[l]) + 1 : ip = At(Paths[l], k)
      BY <2>2 DEF Copied
    <2>4. Paths'[l] = Paths[l]
      <3>1. CASE CopyFails
        BY <1>1, <3>1, LoopStepNext
      <3>2. CASE CopyItem
        <4>1. PICK e \in Nodes : Append1(lp, e, key[ip])
          BY <3>2 DEF CopyItem
        <4>2. Paths' = [Paths EXCEPT ![lp] = Append(@, e)] /\ Paths \in Families
          BY <1>1, <3>2, <4>1, CopyItemNext, Facts
        <4> QED
          BY <1>3, <2>2, <4>2 DEF Families
      <3> QED
        BY <1>6, <3>1, <3>2
    <2> QED
      BY <1>1, <1>3, <2>1, <2>2, <2>3, <2>4, OneOn DEF IterationAdvances
  <1> QED
    BY <1>2, <1>4, <1>5, <1>6

(* For any number of lists, nodes and keys, every iteration of list_sort,    *)
(* list_add_list and list_dup brings the loop nearer to its end: list_sort,  *)
(* which starts over from the node it moved forward, meets no node twice at  *)
(* one place of the list, and copying does not lengthen the list copied.     *)
THEOREM IterationsAdvance ==
  ASSUME ~AddAfterSort
  PROVE  Spec => [][IterationAdvances]_vars
  <1>1. Init => RInv
    BY InitSim
  <1>2. RInv /\ [Next]_vars => RInv'
    BY StepSim, StutterSim
  <1>3. RInv /\ [Next]_vars => [IterationAdvances]_vars
    BY IterationStep
  <1> QED
    BY <1>1, <1>2, <1>3, PTL DEF Spec
=============================================================================
