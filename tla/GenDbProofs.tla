---------------------------- MODULE GenDbProofs ----------------------------
(* Theorems about the functions gendb writes, for every table, command line  *)
(* and database that the assumptions of GenCalls allow: that the program is  *)
(* whole, that a call changes the table as it is called, that a record read  *)
(* is a row, and what is left of a cursor.                                   *)
EXTENDS MCGenDb, SequenceTheorems, WellFoundedInduction, TLAPS

LEMMA LeastElement ==
  ASSUME NEW T \in SUBSET Nat, T # {}
  PROVE  \E m \in T : \A n \in T : m <= n
  <1> DEFINE Less == {r \in Nat \X Nat : r[1] < r[2]}
  <1>1. IsWellFoundedOn(Less, Nat)
    BY NatLessThanWellFounded DEF OpToRel
  <1>2. PICK m \in T : \A n \in T : <<n, m>> \notin Less
    BY ONLY <1>1, WFMin, T \in SUBSET Nat, T # {}
  <1>3. \A n \in T : <<n, m>> \notin Less => m <= n
    OBVIOUS
  <1> HIDE DEF Less
  <1> QED
    BY <1>2, <1>3

LEMMA SetInduction ==
  ASSUME NEW S, 0 \in S, \A n \in Nat : n \in S => n + 1 \in S
  PROVE  Nat \subseteq S
  <1> SUFFICES ASSUME Nat \ S # {} PROVE FALSE
    OBVIOUS
  <1>1. PICK m \in Nat \ S : \A n \in Nat \ S : m <= n
    BY LeastElement
  <1>2. m - 1 \in Nat
    BY <1>1
  <1> QED
    BY <1>1, <1>2

-----------------------------------------------------------------------------
(* Kept keeps the elements at some places, in their order.                   *)

Keeping(s, I, n, F) ==
  F = [k \in 0..n |->
         IF k = 0 THEN <<>> ELSE IF k \in I THEN Append(F[k - 1], s[k]) ELSE F[k - 1]]

LEMMA KeepingSteps ==
  ASSUME NEW s, NEW I, NEW n \in Nat, NEW F, Keeping(s, I, n, F)
  PROVE  /\ F[0] = <<>>
         /\ \A k \in 1..n : F[k] = IF k \in I THEN Append(F[k - 1], s[k]) ELSE F[k - 1]
  <1>1. \A k \in 0..n : F[k] = IF k = 0 THEN <<>>
                               ELSE IF k \in I THEN Append(F[k - 1], s[k]) ELSE F[k - 1]
    BY Zenon DEF Keeping
  <1> QED
    BY <1>1

LEMMA KeepingExists ==
  ASSUME NEW s, NEW I, NEW m \in Nat
  PROVE  \E F : Keeping(s, I, m, F)
  <1> DEFINE Good == {n \in Nat : \E F : Keeping(s, I, n, F)}
  <1>1. 0 \in Good
    <2>1. Keeping(s, I, 0, [k \in 0..0 |-> <<>>])
      BY DEF Keeping
    <2> QED
      BY <2>1
  <1>2. ASSUME NEW n \in Nat, n \in Good PROVE n + 1 \in Good
    <2>1. PICK F : Keeping(s, I, n, F)
      BY <1>2
    <2> DEFINE At(f, k) == IF k = 0 THEN <<>>
                             ELSE IF k \in I THEN Append(f[k - 1], s[k]) ELSE f[k - 1]
               G == [k \in 0 .. n + 1 |-> At(F, k)]
    <2>2. F = [k \in 0..n |-> At(F, k)]
      BY <2>1 DEF Keeping
    <2> HIDE DEF At
    <2>3. \A k \in 0..n : G[k] = F[k]
      BY <2>2
    <2> HIDE DEF G
    <2>4. \A k \in 0 .. n + 1 : At(F, k) = At(G, k)
      <3>1. \A k \in 0 .. n + 1 : k # 0 => k - 1 \in 0..n /\ F[k - 1] = G[k - 1]
        BY <2>3
      <3> QED
        BY <3>1 DEF At
    <2>5. G = [k \in 0 .. n + 1 |-> At(G, k)]
      BY <2>4 DEF G
    <2>6. Keeping(s, I, n + 1, G)
      BY ONLY <2>5 DEF Keeping, At
    <2> QED
      BY ONLY <2>6, n \in Nat, n + 1 \in Nat DEF Good
  <1> HIDE DEF Good
  <1>3. m \in Good
    BY <1>1, <1>2, SetInduction
  <1> QED
    BY <1>3 DEF Good

(* r has what is at the places of I among the first n of s, and no more.     *)
Keeps(s, I, n, r) ==
  /\ Len(r) <= n
  /\ \A j \in DOMAIN r : \E k \in 1..n : k \in I /\ r[j] = s[k]
  /\ \A k \in 1..n : k \in I => \E j \in DOMAIN r : r[j] = s[k]
  /\ IsInjective(s) => IsInjective(r)

LEMMA KeepsNone ==
  ASSUME NEW s, NEW I
  PROVE  Keeps(s, I, 0, <<>>)
  <1>1. DOMAIN <<>> = {} /\ 1..0 = {} /\ Len(<<>>) = 0
    OBVIOUS
  <1> QED
    BY <1>1 DEF Keeps, IsInjective

LEMMA KeepsOut ==
  ASSUME NEW s, NEW I, NEW n \in Nat, NEW S, NEW q \in Seq(S), Keeps(s, I, n, q), n + 1 \notin I
  PROVE  Keeps(s, I, n + 1, q)
  <1>1. \A k \in 1 .. n + 1 : k \in 1..n \/ k = n + 1
    OBVIOUS
  <1>2. Len(q) <= n + 1 /\ \A k \in 1..n : k \in 1 .. n + 1
    BY DEF Keeps
  <1>3. \A j \in DOMAIN q : \E k \in 1 .. n + 1 : k \in I /\ q[j] = s[k]
    BY <1>2 DEF Keeps
  <1>4. \A k \in 1 .. n + 1 : k \in I => \E j \in DOMAIN q : q[j] = s[k]
    BY <1>1 DEF Keeps
  <1> QED
    BY <1>2, <1>3, <1>4 DEF Keeps

LEMMA KeepsIn ==
  ASSUME NEW S, NEW s \in Seq(S), NEW I, NEW n \in Nat, n + 1 \in DOMAIN s,
         NEW q \in Seq(S), Keeps(s, I, n, q), n + 1 \in I
  PROVE  Keeps(s, I, n + 1, Append(q, s[n + 1]))
  <1> DEFINE r == Append(q, s[n + 1])
  <1>0. s[n + 1] \in S /\ \A k \in 1..n : k \in DOMAIN s /\ k # n + 1
    OBVIOUS
  <1>1. r \in Seq(S) /\ Len(r) = Len(q) + 1 /\ r[Len(q) + 1] = s[n + 1]
        /\ \A j \in DOMAIN q : j \in DOMAIN r /\ r[j] = q[j]
    BY <1>0
  <1> HIDE DEF r
  <1>2. (\A j \in DOMAIN r : j \in DOMAIN q \/ j = Len(q) + 1) /\ Len(q) + 1 \in DOMAIN r
    BY <1>1
  <1>3. Len(r) <= n + 1
    BY <1>1 DEF Keeps
  <1>4. \A j \in DOMAIN r : \E k \in 1 .. n + 1 : k \in I /\ r[j] = s[k]
    <2>1. ASSUME NEW j \in DOMAIN q PROVE \E k \in 1 .. n + 1 : k \in I /\ r[j] = s[k]
      <3>1. PICK k \in 1..n : k \in I /\ q[j] = s[k]
        BY DEF Keeps
      <3> QED
        BY <1>1, <3>1
    <2> QED
      BY <1>1, <1>2, <2>1
  <1>5. \A k \in 1 .. n + 1 : k \in I => \E j \in DOMAIN r : r[j] = s[k]
    <2>1. ASSUME NEW k \in 1..n, k \in I PROVE \E j \in DOMAIN r : r[j] = s[k]
      <3>1. PICK j \in DOMAIN q : q[j] = s[k]
        BY <2>1 DEF Keeps
      <3> QED
        BY <1>1, <3>1
    <2>2. \A k \in 1 .. n + 1 : k \in 1..n \/ k = n + 1
      OBVIOUS
    <2> QED
      BY <1>1, <1>2, <2>1, <2>2
  <1>6. IsInjective(s) => IsInjective(r)
    <2> SUFFICES ASSUME IsInjective(s), NEW i \in DOMAIN r, NEW j \in DOMAIN r, r[i] = r[j]
                 PROVE  i = j
      BY DEF IsInjective
    <2>1. \A m \in DOMAIN q : r[m] # s[n + 1]
      <3>1. \A m \in DOMAIN q : \E k \in 1..n : q[m] = s[k]
        BY DEF Keeps
      <3>2. \A k \in 1..n : s[k] # s[n + 1]
        BY <1>0 DEF IsInjective
      <3> QED
        BY <1>1, <3>1, <3>2
    <2>2. IsInjective(q)
      BY DEF Keeps
    <2>3. i \in DOMAIN q /\ j \in DOMAIN q => i = j
      BY <1>1, <2>2 DEF IsInjective
    <2> QED
      BY <1>1, <1>2, <2>1, <2>3
  <1>7. Keeps(s, I, n + 1, r)
    BY <1>3, <1>4, <1>5, <1>6 DEF Keeps
  <1> QED
    BY <1>7 DEF r

LEMMA KeptIs ==
  ASSUME NEW S, NEW s \in Seq(S), NEW I
  PROVE  Kept(s, I) \in Seq(S) /\ Keeps(s, I, Len(s), Kept(s, I))
  <1> DEFINE F == CHOOSE f : Keeping(s, I, Len(s), f)
             Good == {n \in Nat : n <= Len(s) => F[n] \in Seq(S) /\ Keeps(s, I, n, F[n])}
  <1>1. Kept(s, I) = F[Len(s)]
    BY Zenon DEF Kept, Keeping
  <1>2. Keeping(s, I, Len(s), F)
    <2>1. \E f : Keeping(s, I, Len(s), f)
      BY KeepingExists, Len(s) \in Nat
    <2> QED
      BY <2>1
  <1> HIDE DEF F
  <1>3. /\ Len(s) \in Nat /\ F[0] = <<>>
        /\ \A k \in 1..Len(s) : F[k] = IF k \in I THEN Append(F[k - 1], s[k]) ELSE F[k - 1]
    BY <1>2, KeepingSteps, Len(s) \in Nat
  <1>4. 0 \in Good
    <2>1. F[0] \in Seq(S) /\ Keeps(s, I, 0, F[0])
      BY <1>3, KeepsNone
    <2> QED
      BY <2>1
  <1>5. ASSUME NEW n \in Nat, n \in Good PROVE n + 1 \in Good
    <2> SUFFICES ASSUME n + 1 <= Len(s)
                 PROVE  F[n + 1] \in Seq(S) /\ Keeps(s, I, n + 1, F[n + 1])
      OBVIOUS
    <2>1. F[n] \in Seq(S) /\ Keeps(s, I, n, F[n])
      BY <1>3, <1>5
    <2>2. n + 1 \in 1..Len(s) /\ n + 1 - 1 = n /\ n + 1 \in DOMAIN s /\ s[n + 1] \in S
      BY <1>3
    <2>3. F[n + 1] = IF n + 1 \in I THEN Append(F[n], s[n + 1]) ELSE F[n]
      BY <1>3, <2>2
    <2>4. CASE n + 1 \in I
      BY <2>1, <2>2, <2>3, <2>4, KeepsIn
    <2>5. CASE n + 1 \notin I
      BY <2>1, <2>3, <2>5, KeepsOut
    <2> QED
      BY <2>4, <2>5
  <1> HIDE DEF Good
  <1>6. Len(s) \in Good
    BY <1>3, <1>4, <1>5, SetInduction
  <1> QED
    BY <1>1, <1>3, <1>6 DEF Good

-----------------------------------------------------------------------------
(* FlattenSeq puts sequences behind each other.                              *)

Flattening(ss, n, F) == F = [i \in 1..n |-> IF i = 1 THEN ss[i] ELSE F[i - 1] \o ss[i]]

LEMMA FlatteningExists ==
  ASSUME NEW ss, NEW m \in Nat
  PROVE  \E F : Flattening(ss, m, F)
  <1> DEFINE Good == {n \in Nat : \E F : Flattening(ss, n, F)}
  <1>1. 0 \in Good
    <2>1. Flattening(ss, 0, [i \in 1..0 |-> <<>>])
      BY DEF Flattening
    <2> QED
      BY <2>1
  <1>2. ASSUME NEW n \in Nat, n \in Good PROVE n + 1 \in Good
    <2>1. PICK F : Flattening(ss, n, F)
      BY <1>2
    <2> DEFINE At(f, i) == IF i = 1 THEN ss[i] ELSE f[i - 1] \o ss[i]
               G == [i \in 1 .. n + 1 |-> At(F, i)]
    <2>2. F = [i \in 1..n |-> At(F, i)]
      BY <2>1 DEF Flattening
    <2> HIDE DEF At
    <2>3. \A i \in 1..n : G[i] = F[i]
      BY <2>2
    <2> HIDE DEF G
    <2>4. \A i \in 1 .. n + 1 : At(F, i) = At(G, i)
      <3>1. \A i \in 1 .. n + 1 : i # 1 => i - 1 \in 1..n /\ F[i - 1] = G[i - 1]
        BY <2>3
      <3> QED
        BY <3>1 DEF At
    <2>5. G = [i \in 1 .. n + 1 |-> At(G, i)]
      BY <2>4 DEF G
    <2>6. Flattening(ss, n + 1, G)
      BY ONLY <2>5 DEF Flattening, At
    <2> QED
      BY ONLY <2>6, n \in Nat, n + 1 \in Nat DEF Good
  <1> HIDE DEF Good
  <1>3. m \in Good
    BY <1>1, <1>2, SetInduction
  <1> QED
    BY <1>3 DEF Good

(* F holds what has been put together after each of them.                    *)
Flattened(ss, F) ==
  /\ F[1] = ss[1]
  /\ \A i \in 2..Len(ss) : F[i] = F[i - 1] \o ss[i]

LEMMA FlattenIs ==
  ASSUME NEW T, NEW ss \in Seq(T)
  PROVE  /\ ss = <<>> => FlattenSeq(ss) = <<>>
         /\ ss # <<>> => \E F : Flattened(ss, F) /\ FlattenSeq(ss) = F[Len(ss)]
  <1>1. ASSUME ss = <<>> PROVE FlattenSeq(ss) = <<>>
    BY <1>1 DEF FlattenSeq
  <1>2. ASSUME ss # <<>> PROVE \E F : Flattened(ss, F) /\ FlattenSeq(ss) = F[Len(ss)]
    <2> DEFINE F == CHOOSE f : Flattening(ss, Len(ss), f)
    <2>1. Len(ss) \in Nat /\ Len(ss) # 0
      BY <1>2
    <2>2. FlattenSeq(ss) = F[Len(ss)]
      BY <2>1 DEF FlattenSeq, Flattening
    <2>3. Flattening(ss, Len(ss), F)
      <3>1. \E f : Flattening(ss, Len(ss), f)
        BY <2>1, FlatteningExists
      <3> QED
        BY <3>1
    <2> HIDE DEF F
    <2>4. \A i \in 1..Len(ss) : F[i] = IF i = 1 THEN ss[i] ELSE F[i - 1] \o ss[i]
      BY Zenon, <2>3 DEF Flattening
    <2>5. 1 \in 1..Len(ss) /\ \A i \in 2..Len(ss) : i \in 1..Len(ss) /\ i # 1
      BY <2>1
    <2>6. Flattened(ss, F)
      BY <2>4, <2>5 DEF Flattened
    <2> QED
      BY <2>2, <2>6
  <1> QED
    BY <1>1, <1>2

(* q has the elements of the first n of ss; their names are different if the *)
(* names in each are, and no two have one in common.                         *)
NamedApart(ss) ==
  /\ \A i \in DOMAIN ss : \A j, k \in DOMAIN ss[i] : ss[i][j].name = ss[i][k].name => j = k
  /\ \A h, i \in DOMAIN ss : \A j \in DOMAIN ss[h], k \in DOMAIN ss[i] :
       ss[h][j].name = ss[i][k].name => h = i
Named(q) == \A j, k \in DOMAIN q : q[j].name = q[k].name => j = k
Joins(ss, n, q) ==
  /\ \A j \in DOMAIN q : \E i \in 1..n : \E k \in DOMAIN ss[i] : q[j] = ss[i][k]
  /\ \A i \in 1..n : \A k \in DOMAIN ss[i] : \E j \in DOMAIN q : q[j] = ss[i][k]
  /\ NamedApart(ss) => Named(q)

LEMMA JoinsOne ==
  ASSUME NEW T, NEW ss \in Seq(T), ss # <<>>
  PROVE  Joins(ss, 1, ss[1])
  <1>1. 1 \in DOMAIN ss /\ \A i \in 1..1 : i = 1
    OBVIOUS
  <1> QED
    BY <1>1 DEF Joins, NamedApart, Named

LEMMA JoinsMore ==
  ASSUME NEW S, NEW ss \in Seq(Seq(S)), NEW n \in Nat, n + 1 \in DOMAIN ss,
         NEW q \in Seq(S), Joins(ss, n, q)
  PROVE  Joins(ss, n + 1, q \o ss[n + 1])
  <1> DEFINE t == ss[n + 1]
             r == q \o t
  <1>1. t \in Seq(S) /\ \A i \in 1..n : i \in DOMAIN ss /\ i # n + 1
    OBVIOUS
  <1>2. /\ r \in Seq(S) /\ Len(r) = Len(q) + Len(t)
        /\ \A j \in DOMAIN q : j \in DOMAIN r /\ r[j] = q[j]
        /\ \A k \in DOMAIN t : Len(q) + k \in DOMAIN r /\ r[Len(q) + k] = t[k]
    BY <1>1
  <1>3. \A j \in DOMAIN r : j \in DOMAIN q \/ \E k \in DOMAIN t : j = Len(q) + k
    <2> SUFFICES ASSUME NEW j \in DOMAIN r, j \notin DOMAIN q
                 PROVE  j - Len(q) \in DOMAIN t /\ j = Len(q) + (j - Len(q))
      OBVIOUS
    <2> QED
      BY <1>1, <1>2
  <1>4. \A i \in 1 .. n + 1 : i \in 1..n \/ i = n + 1
    OBVIOUS
  <1> HIDE DEF r
  <1>5. \A j \in DOMAIN r : \E i \in 1 .. n + 1 : \E k \in DOMAIN ss[i] : r[j] = ss[i][k]
    <2>1. ASSUME NEW j \in DOMAIN q
          PROVE  \E i \in 1 .. n + 1 : \E k \in DOMAIN ss[i] : r[j] = ss[i][k]
      <3>1. PICK i \in 1..n : \E k \in DOMAIN ss[i] : q[j] = ss[i][k]
        BY DEF Joins
      <3> QED
        BY <1>2, <3>1
    <2>2. ASSUME NEW k \in DOMAIN t
          PROVE  \E i \in 1 .. n + 1 : \E m \in DOMAIN ss[i] : r[Len(q) + k] = ss[i][m]
      BY <1>2
    <2> SUFFICES ASSUME NEW j \in DOMAIN r
                 PROVE  \E i \in 1 .. n + 1 : \E m \in DOMAIN ss[i] : r[j] = ss[i][m]
      OBVIOUS
    <2>3. CASE j \in DOMAIN q
      BY <2>1, <2>3
    <2>4. CASE j \notin DOMAIN q
      <3>1. PICK k \in DOMAIN t : j = Len(q) + k
        BY <1>3, <2>4
      <3> QED
        BY <2>2, <3>1
    <2> QED
      BY <2>3, <2>4
  <1>6. \A i \in 1 .. n + 1 : \A k \in DOMAIN ss[i] : \E j \in DOMAIN r : r[j] = ss[i][k]
    <2>1. ASSUME NEW i \in 1..n, NEW k \in DOMAIN ss[i] PROVE \E j \in DOMAIN r : r[j] = ss[i][k]
      <3>1. PICK j \in DOMAIN q : q[j] = ss[i][k]
        BY DEF Joins
      <3> QED
        BY <1>2, <3>1
    <2>2. ASSUME NEW k \in DOMAIN t PROVE \E j \in DOMAIN r : r[j] = t[k]
      BY <1>2
    <2> QED
      BY <1>4, <2>1, <2>2
  <1>7. ASSUME NamedApart(ss) PROVE Named(r)
    <2>1. Named(q)
      BY <1>7 DEF Joins
    <2>2. ASSUME NEW j \in DOMAIN q, NEW k \in DOMAIN t PROVE q[j].name # t[k].name
      <3>1. PICK i \in 1..n : \E m \in DOMAIN ss[i] : q[j] = ss[i][m]
        BY DEF Joins
      <3>2. PICK m \in DOMAIN ss[i] : q[j] = ss[i][m]
        BY <3>1
      <3>3. i \in DOMAIN ss /\ i # n + 1
        BY <1>1
      <3> QED
        BY <1>7, <3>2, <3>3 DEF NamedApart
    <2>3. \A j, k \in DOMAIN t : t[j].name = t[k].name => j = k
      BY <1>7 DEF NamedApart
    <2> SUFFICES ASSUME NEW i \in DOMAIN r, NEW j \in DOMAIN r, r[i].name = r[j].name
                 PROVE  i = j
      BY DEF Named
    <2>4. CASE i \in DOMAIN q /\ j \in DOMAIN q
      BY <1>2, <2>1, <2>4 DEF Named
    <2>5. CASE i \in DOMAIN q /\ j \notin DOMAIN q
      BY <1>2, <1>3, <2>2, <2>5
    <2>6. CASE i \notin DOMAIN q /\ j \in DOMAIN q
      BY <1>2, <1>3, <2>2, <2>6
    <2>7. CASE i \notin DOMAIN q /\ j \notin DOMAIN q
      <3>1. PICK a \in DOMAIN t : i = Len(q) + a
        BY <1>3, <2>7
      <3>2. PICK b \in DOMAIN t : j = Len(q) + b
        BY <1>3, <2>7
      <3>3. r[i] = t[a] /\ r[j] = t[b]
        BY <1>2, <3>1, <3>2
      <3>4. a = b
        BY <2>3, <3>3
      <3> QED
        BY <3>1, <3>2, <3>4
    <2> QED
      BY <2>4, <2>5, <2>6, <2>7
  <1>8. Joins(ss, n + 1, r)
    BY <1>5, <1>6, <1>7 DEF Joins
  <1> QED
    BY <1>8 DEF r

LEMMA FlattenJoins ==
  ASSUME NEW S, NEW ss \in Seq(Seq(S))
  PROVE  FlattenSeq(ss) \in Seq(S) /\ Joins(ss, Len(ss), FlattenSeq(ss))
  <1>1. CASE ss = <<>>
    <2>1. FlattenSeq(ss) = <<>>
      BY <1>1, FlattenIs
    <2>2. DOMAIN <<>> = {} /\ 1 .. Len(ss) = {} /\ <<>> \in Seq(S)
      BY <1>1
    <2> QED
      BY <2>1, <2>2 DEF Joins, Named
  <1>2. CASE ss # <<>>
    <2>1. PICK F : Flattened(ss, F) /\ FlattenSeq(ss) = F[Len(ss)]
      BY <1>2, FlattenIs
    <2> DEFINE Good == {n \in Nat : n + 1 <= Len(ss) => F[n + 1] \in Seq(S)
                                                        /\ Joins(ss, n + 1, F[n + 1])}
    <2>0. \A i \in 2..Len(ss) : F[i] = F[i - 1] \o ss[i]
      BY <2>1 DEF Flattened
    <2>2. Len(ss) \in Nat /\ Len(ss) # 0 /\ 1 \in DOMAIN ss
      BY <1>2
    <2>3. 0 \in Good
      <3>1. F[1] = ss[1]
        BY <2>1 DEF Flattened
      <3>2. F[1] \in Seq(S) /\ Joins(ss, 1, F[1])
        BY <1>2, <2>2, <3>1, JoinsOne
      <3> QED
        BY <3>2
    <2>4. ASSUME NEW n \in Nat, n \in Good PROVE n + 1 \in Good
      <3> SUFFICES ASSUME n + 2 <= Len(ss)
                   PROVE  F[n + 2] \in Seq(S) /\ Joins(ss, n + 2, F[n + 2])
        OBVIOUS
      <3>1. F[n + 1] \in Seq(S) /\ Joins(ss, n + 1, F[n + 1])
        BY <2>2, <2>4
      <3>2. n + 2 \in 2..Len(ss) /\ n + 2 - 1 = n + 1 /\ n + 2 \in DOMAIN ss /\ n + 1 + 1 = n + 2
        BY <2>2
      <3>3. F[n + 2] = F[n + 1] \o ss[n + 2]
        <4>1. PICK m \in 2..Len(ss) : m = n + 2 /\ m - 1 = n + 1
          BY <3>2
        <4>2. F[m] = F[m - 1] \o ss[m]
          BY <2>0
        <4> QED
          BY <4>1, <4>2
      <3>4. Joins(ss, n + 2, F[n + 1] \o ss[n + 2])
        BY <3>1, <3>2, JoinsMore, n + 1 \in Nat
      <3> QED
        BY <3>1, <3>2, <3>3, <3>4
    <2> HIDE DEF Good
    <2>5. Len(ss) - 1 \in Good
      <3>1. Nat \subseteq Good
        BY ONLY <2>3, <2>4, SetInduction
      <3>2. Len(ss) - 1 \in Nat
        BY <2>2
      <3> QED
        BY <3>1, <3>2
    <2>6. F[Len(ss)] \in Seq(S) /\ Joins(ss, Len(ss), F[Len(ss)])
      <3>1. Len(ss) - 1 + 1 = Len(ss) /\ Len(ss) <= Len(ss)
        BY <2>2
      <3> QED
        BY <2>5, <3>1 DEF Good
    <2> QED
      BY <2>1, <2>6
  <1> QED
    BY <1>1, <1>2

LEMMA SubSeqJoins ==
  ASSUME NEW S, NEW s \in Seq(S), NEW p \in 0..Len(s), NEW b \in p..Len(s)
  PROVE  SubSeq(s, 1, p) \o SubSeq(s, p + 1, b) = SubSeq(s, 1, b)
  <1>1. 1 \in 1 .. Len(s) + 1 /\ p \in 1 - 1 .. Len(s) /\ b \in p .. Len(s)
    OBVIOUS
  <1> QED
    BY <1>1, ConcatAdjacentSubSeq

(* The rows of the table that n pages of some size have, all when there are  *)
(* no more.                                                                  *)
UptoRow(m) == IF m < Len(rows) THEN m ELSE Len(rows)

LEMMA PageIs ==
  ASSUME NEW S, rows \in Seq(S), NEW n \in Nat \ {0}, NEW k \in Nat \ {0}
  PROVE  DoRead(IF k = 1 THEN -1 ELSE (k - 1) * n, n)
           = SubSeq(rows, (k - 1) * n + 1, UptoRow((k - 1) * n + n))
  <1> DEFINE p == (k - 1) * n
             page == Page(IF k = 1 THEN -1 ELSE p, n)
  <1>1. p \in Nat /\ (k = 1 => p = 0) /\ (k # 1 => p > 0)
    <2>1. ASSUME NEW a \in Nat, NEW b \in Nat \ {0}
          PROVE  a * b \in Nat /\ (a = 0 => a * b = 0) /\ (a # 0 => a * b > 0)
      OBVIOUS
    <2>2. k - 1 \in Nat /\ (k = 1 <=> k - 1 = 0)
      OBVIOUS
    <2> QED
      BY <2>1, <2>2
  <1> HIDE DEF p
  <1>2. page.from = p /\ page.many = n
    BY <1>1 DEF Page
  <1>3. DoRead(IF k = 1 THEN -1 ELSE p, n) = SubSeq(rows, p + 1, UptoRow(p + n))
    <2> DEFINE to == IF page.many > 0 THEN page.from + page.many ELSE Len(rows)
    <2>1. DoRead(IF k = 1 THEN -1 ELSE p, n)
            = SubSeq(rows, page.from + 1, IF to < Len(rows) THEN to ELSE Len(rows))
      BY DEF DoRead
    <2>2. to = p + n
      BY <1>2
    <2> HIDE DEF page, to
    <2> QED
      BY <1>2, <2>1, <2>2 DEF UptoRow
  <1> QED
    BY <1>3 DEF p

(* Page after page, as long as there may be rows, shows the table.           *)
LEMMA PagesAreRows ==
  ASSUME NEW S, rows \in Seq(S), Len(rows) <= MaxRows, NEW n \in 1..MaxRows
  PROVE  Pages(n) = rows
  <1> DEFINE ss == [k \in 1..MaxRows |-> DoRead(IF k = 1 THEN -1 ELSE (k - 1) * n, n)]
  <1>0. MaxRows \in Nat \ {0} /\ Len(rows) \in Nat /\ n \in Nat \ {0}
    BY BoundsAssumption
  <1>1. \A k \in 1..MaxRows : ss[k] = SubSeq(rows, (k - 1) * n + 1, UptoRow((k - 1) * n + n))
    BY <1>0, PageIs
  <1>2. ss \in Seq(Seq(S)) /\ Len(ss) = MaxRows /\ ss # <<>>
    <2>1. \A k \in 1..MaxRows : ss[k] \in Seq(S)
      <3> SUFFICES ASSUME NEW k \in 1..MaxRows PROVE ss[k] \in Seq(S)
        OBVIOUS
      <3> DEFINE p == (k - 1) * n
      <3>1. p \in Nat
        <4>1. \A a \in Nat, b \in Nat : a * b \in Nat
          OBVIOUS
        <4>2. k - 1 \in Nat
          OBVIOUS
        <4> QED
          BY <1>0, <4>1, <4>2
      <3> HIDE DEF p
      <3>2. \A m \in p + 1 .. UptoRow(p + n) : m \in DOMAIN rows
        BY <1>0, <3>1 DEF UptoRow
      <3>3. SubSeq(rows, p + 1, UptoRow(p + n)) \in Seq(S)
        BY <1>0, <3>1, <3>2 DEF UptoRow
      <3> QED
        BY <1>1, <3>3 DEF p
    <2> QED
      BY <1>0, <2>1
  <1>3. Pages(n) = FlattenSeq(ss)
    BY DEF Pages
  <1> HIDE DEF ss
  <1>4. PICK F : Flattened(ss, F) /\ FlattenSeq(ss) = F[MaxRows]
    BY <1>2, FlattenIs
  <1> DEFINE Good == {k \in Nat : k + 1 <= MaxRows => F[k + 1] = SubSeq(rows, 1, UptoRow(k * n + n))}
  <1>5. 0 \in Good
    <2>1. F[1] = ss[1] /\ 1 \in 1..MaxRows
      BY <1>0, <1>4 DEF Flattened
    <2>2. (1 - 1) * n + 1 = 1 /\ (1 - 1) * n + n = n /\ 0 * n + n = n
      BY <1>0
    <2> QED
      BY <1>1, <2>1, <2>2
  <1>6. ASSUME NEW k \in Nat, k \in Good PROVE k + 1 \in Good
    <2> SUFFICES ASSUME k + 2 <= MaxRows
                 PROVE  F[k + 2] = SubSeq(rows, 1, UptoRow((k + 1) * n + n))
      BY k + 1 + 1 = k + 2
    <2> DEFINE p == (k + 1) * n
    <2>1. p \in Nat /\ k * n + n = p
      BY <1>0
    <2>2. F[k + 1] = SubSeq(rows, 1, UptoRow(p))
      BY <1>0, <1>6, <2>1
    <2>3. k + 2 \in 1..MaxRows /\ k + 2 \in 2..Len(ss) /\ k + 2 - 1 = k + 1
      BY <1>0, <1>2
    <2>4. ss[k + 2] = SubSeq(rows, p + 1, UptoRow(p + n))
      BY <1>1, <2>3
    <2>5. F[k + 2] = F[k + 1] \o ss[k + 2]
      <3>1. \A i \in 2..Len(ss) : F[i] = F[i - 1] \o ss[i]
        BY <1>4 DEF Flattened
      <3> QED
        <4>1. PICK m \in 2..Len(ss) : m = k + 2 /\ m - 1 = k + 1
          BY <2>3
        <4>2. F[m] = F[m - 1] \o ss[m]
          BY <3>1
        <4> QED
          BY <4>1, <4>2
    <2> HIDE DEF p
    <2>6. CASE p <= Len(rows)
      <3>1. UptoRow(p) = p /\ p \in 0..Len(rows) /\ UptoRow(p + n) \in p..Len(rows)
        BY <1>0, <2>1, <2>6 DEF UptoRow
      <3>2. SubSeq(rows, 1, p) \o SubSeq(rows, p + 1, UptoRow(p + n))
              = SubSeq(rows, 1, UptoRow(p + n))
        BY <3>1, SubSeqJoins
      <3>3. F[k + 2] = SubSeq(rows, 1, UptoRow(p + n))
        BY <2>2, <2>4, <2>5, <3>1, <3>2
      <3> QED
        BY <3>3 DEF p
    <2>7. CASE p > Len(rows)
      <3>1. UptoRow(p) = Len(rows) /\ UptoRow(p + n) = Len(rows)
        BY <1>0, <2>1, <2>7 DEF UptoRow
      <3>2. SubSeq(rows, p + 1, Len(rows)) = <<>> /\ SubSeq(rows, 1, Len(rows)) = rows
        BY <1>0, <2>1, <2>7
      <3>3. rows \o <<>> = rows
        BY ConcatEmptySeq
      <3>4. F[k + 2] = SubSeq(rows, 1, UptoRow(p + n))
        BY <2>2, <2>4, <2>5, <3>1, <3>2, <3>3
      <3> QED
        BY <3>4 DEF p
    <2> QED
      BY <1>0, <2>1, <2>6, <2>7
  <1> HIDE DEF Good
  <1>7. Nat \subseteq Good
    BY ONLY <1>5, <1>6, SetInduction
  <1>8. F[MaxRows] = SubSeq(rows, 1, UptoRow((MaxRows - 1) * n + n))
    <2>1. MaxRows - 1 \in Good /\ MaxRows - 1 + 1 = MaxRows
      BY <1>0, <1>7
    <2> QED
      BY <1>0, <2>1 DEF Good
  <1>9. UptoRow((MaxRows - 1) * n + n) = Len(rows)
    <2>1. \A a \in Nat, b \in Nat \ {0} : a * b >= a
      OBVIOUS
    <2>2. (MaxRows - 1) * n >= MaxRows - 1 /\ MaxRows - 1 \in Nat
      BY <1>0, <2>1
    <2> DEFINE p == (MaxRows - 1) * n
    <2>3. p \in Int
      BY <1>0
    <2> HIDE DEF p
    <2>4. p + n >= Len(rows)
      BY <1>0, <2>2, <2>3 DEF p
    <2> QED
      BY <1>0, <2>3, <2>4 DEF UptoRow, p
  <1> QED
    BY <1>3, <1>4, <1>8, <1>9

-----------------------------------------------------------------------------
(* What gendb makes of a table and a command line.                           *)

Types == {"STRING", "CHAR", "DATE", "BIN", "QUAD", "FLOAT", "INT", "SHORT", "DOUBLE", "UNK"}
Formats == {"%lld", "%x", "%d", "%f", "%s"}
Field == [name : STRING, letters : Nat, dtype : Int, type : Types, pfmt : Formats, len : Nat,
          noins : BOOLEAN, noupd : BOOLEAN]
InfoOf(call) == GetTableInfo(call.env, call.args.table, call.args.keys)
TableOf(call) == [InfoOf(call) EXCEPT !.fields =
                    Marked(InfoOf(call).fields, call.args.noins, call.args.noupd)]
FuncsOf(call) == ReqFuncs("c", call.args.funcs)

LEMMA Written ==
  ASSUME NEW call, Proper(call)
  PROVE  /\ InFormat(call, "c").table = TableOf(call)
         /\ InFormat(call, "c").src = WriteCSrc(TableOf(call), FuncsOf(call))
         /\ InFormat(call, "php").script
              = WritePhpSrc(TableOf(call), ReqFuncs("php", call.args.funcs))
  <1>1. /\ call.args \in [help : {FALSE}, list : {FALSE}, table : STRING \ {""}, format : STRING,
                          keys : Seq(Seq(Name)), funcs : Seq(STRING), noins : Seq(Name),
                          noupd : Seq(Name)]
        /\ call.env.connect /\ call.env.alloc
    BY DEF Proper
  <1>2. ASSUME NEW format \in {"c", "php"}
        PROVE  LET args == [call.args EXCEPT !.format = format]
               IN  /\ ~args.help /\ ~args.list /\ args.table # "" /\ args.format = format
                   /\ args.table = call.args.table /\ args.keys = call.args.keys
                   /\ args.funcs = call.args.funcs
                   /\ args.noins = call.args.noins /\ args.noupd = call.args.noupd
    BY <1>1
  <1>3. InFormat(call, "c") =
          [end |-> "c", exit |-> 0, table |-> TableOf(call),
           inc |-> WriteCInc(TableOf(call), FuncsOf(call)),
           src |-> WriteCSrc(TableOf(call), FuncsOf(call))]
    BY <1>1, <1>2 DEF InFormat, Gendb, TableOf, InfoOf, FuncsOf
  <1>4. InFormat(call, "php").script
              = WritePhpSrc(TableOf(call), ReqFuncs("php", call.args.funcs))
    BY <1>1, <1>2 DEF InFormat, Gendb, TableOf, InfoOf
  <1> QED
    BY <1>3, <1>4

LEMMA FieldInfoIs ==
  ASSUME NEW column \in Listed
  PROVE  /\ FieldInfo(column) \in Field
         /\ FieldInfo(column).name = column.name
         /\ FieldInfo(column).dtype = column.dtype
         /\ FieldInfo(column).pfmt = Format(column.dtype)
         /\ FieldInfo(column).len > 0 \/ FieldInfo(column).pfmt # "%s"
  <1>1. FieldType(column.dtype) \in Types /\ Format(column.dtype) \in Formats
    <2>1. FieldType(column.dtype) \in Types
      BY DEF FieldType, Types
    <2>2. Format(column.dtype) \in Formats
      BY DEF Format, Formats
    <2> QED
      BY <2>1, <2>2
  <1>2. Cut(column.length) \in Nat
    BY DEF Cut, Listed
  <1> QED
    BY <1>1, <1>2 DEF FieldInfo, Field, Listed

(* The fields of the table and those that are keys.                          *)
TableIs(call, t) ==
  /\ t.fields \in Seq(Field) /\ t.keys \in Seq(Field)
  /\ \A j, k \in DOMAIN t.fields : t.fields[j].name = t.fields[k].name => j = k
  /\ \A m \in DOMAIN t.keys :
       /\ \E k \in DOMAIN t.fields : t.fields[k].name = t.keys[m].name
       /\ \E k \in DOMAIN call.env.columns : t.keys[m] = FieldInfo(call.env.columns[k])

LEMMA InfoIs ==
  ASSUME NEW call, Proper(call)
  PROVE  LET info == InfoOf(call) columns == call.env.columns
             wanted == Kept(call.args.keys, {k \in DOMAIN call.args.keys :
                                               IsKey(info.fields, call.args.keys[k])})
         IN  /\ info.fields \in Seq(Field) /\ DOMAIN info.fields = DOMAIN columns
             /\ \A k \in DOMAIN columns : info.fields[k] = FieldInfo(columns[k])
             /\ wanted \in Seq(Seq(Name))
             /\ \A m \in DOMAIN wanted : IsKey(info.fields, wanted[m])
             /\ info.keys = [m \in DOMAIN wanted |-> KeyField(info.fields, wanted[m])]
             /\ IsInjective(call.args.keys) => IsInjective(wanted)
  <1> DEFINE columns == call.env.columns
             fields == [k \in DOMAIN columns |-> FieldInfo(columns[k])]
             keys == call.args.keys
             I == {k \in DOMAIN keys : IsKey(fields, keys[k])}
             wanted == Kept(keys, I)
  <1>1. columns \in Seq(Listed)
        /\ keys \in Seq(Seq(Name))
    BY DEF Proper
  <1>2. /\ InfoOf(call).fields = fields
        /\ InfoOf(call).keys = [m \in DOMAIN wanted |-> KeyField(fields, wanted[m])]
    BY DEF InfoOf, GetTableInfo
  <1>3. fields \in Seq(Field) /\ DOMAIN fields = DOMAIN columns
    <2>1. DOMAIN columns = 1..Len(columns) /\ Len(columns) \in Nat
      BY <1>1
    <2>2. ASSUME NEW k \in 1..Len(columns) PROVE FieldInfo(columns[k]) \in Field
      <3>1. columns[k] \in Listed
        BY <1>1, <2>1
      <3> QED
        BY <3>1, FieldInfoIs
    <2>3. fields = [k \in 1..Len(columns) |-> FieldInfo(columns[k])]
      BY <2>1
    <2> HIDE DEF fields
    <2>4. DOMAIN fields = 1..Len(columns) /\ \A k \in 1..Len(columns) : fields[k] \in Field
      BY <2>2, <2>3
    <2> QED
      BY <2>1, <2>3, <2>4
  <1>4. wanted \in Seq(Seq(Name)) /\ Keeps(keys, I, Len(keys), wanted)
    BY <1>1, KeptIs
  <1>5. \A m \in DOMAIN wanted : IsKey(fields, wanted[m])
    <2> SUFFICES ASSUME NEW m \in DOMAIN wanted PROVE IsKey(fields, wanted[m])
      OBVIOUS
    <2>1. PICK k \in 1..Len(keys) : k \in I /\ wanted[m] = keys[k]
      BY <1>4 DEF Keeps
    <2> QED
      BY <2>1
  <1>6. IsInjective(keys) => IsInjective(wanted)
    BY <1>4 DEF Keeps
  <1> QED
    BY <1>2, <1>3, <1>4, <1>5, <1>6

LEMMA KeyFieldIs ==
  ASSUME NEW fields \in Seq(Field), NEW key \in Seq(Name), IsKey(fields, key)
  PROVE  /\ KeyField(fields, key) \in Field
         /\ \E k \in DOMAIN fields : KeyField(fields, key) = fields[k]
         /\ key = <<key[1]>> /\ key[1] \in Name /\ ~key[1].upper
         /\ KeyField(fields, key).name = key[1].base
  <1>1. Len(key) = 1 /\ GetColumn(fields, key[1]) # {}
    BY DEF IsKey
  <1>2. key = <<key[1]>> /\ key[1] \in Name
    BY <1>1
  <1>3. PICK k \in GetColumn(fields, key[1]) : KeyField(fields, key) = fields[k]
    BY <1>1 DEF KeyField
  <1>4. ~key[1].upper /\ k \in DOMAIN fields /\ fields[k].name = key[1].base
    BY <1>1, <1>3 DEF GetColumn
  <1>5. fields[k] \in Field
    BY <1>4
  <1> QED
    BY <1>2, <1>3, <1>4, <1>5

(* No letter of -f and no key of -k is asked for twice.                      *)
AskedOnce(call) == IsInjective(call.args.funcs) /\ IsInjective(call.args.keys)

LEMMA MarkedIs ==
  ASSUME NEW fields \in Seq(Field), NEW noins, NEW noupd
  PROVE  /\ Marked(fields, noins, noupd) \in Seq(Field)
         /\ DOMAIN Marked(fields, noins, noupd) = DOMAIN fields
         /\ \A k \in DOMAIN fields : Marked(fields, noins, noupd)[k].name = fields[k].name
  <1> DEFINE ins(k) == \E n \in Range(noins) : k \in GetColumn(fields, n)
             upd(k) == \E n \in Range(noupd) : k \in GetColumn(fields, n)
             new(k) == [fields[k] EXCEPT !.noins = ins(k), !.noupd = upd(k)]
             marked == Marked(fields, noins, noupd)
  <1>1. marked = [k \in DOMAIN fields |-> new(k)]
    BY DEF Marked
  <1>2. \A k \in DOMAIN fields : ins(k) \in BOOLEAN /\ upd(k) \in BOOLEAN
    OBVIOUS
  <1> HIDE DEF ins, upd
  <1>3. ASSUME NEW k \in DOMAIN fields PROVE new(k) \in Field /\ new(k).name = fields[k].name
    <2>1. fields[k] \in Field
      OBVIOUS
    <2> QED
      BY <1>2, <2>1 DEF Field
  <1> HIDE DEF new, marked
  <1>4. DOMAIN fields = 1..Len(fields) /\ Len(fields) \in Nat
    OBVIOUS
  <1> QED
    BY <1>1, <1>3, <1>4 DEF marked

LEMMA TableOfIs ==
  ASSUME NEW call, Proper(call)
  PROVE  /\ TableIs(call, TableOf(call))
         /\ AskedOnce(call) => Named(TableOf(call).keys)
  <1> DEFINE info == InfoOf(call)
             columns == call.env.columns
             wanted == Kept(call.args.keys, {k \in DOMAIN call.args.keys :
                                               IsKey(info.fields, call.args.keys[k])})
             t == TableOf(call)
  <1>1. /\ info.fields \in Seq(Field) /\ DOMAIN info.fields = DOMAIN columns
        /\ \A k \in DOMAIN columns : info.fields[k] = FieldInfo(columns[k])
        /\ wanted \in Seq(Seq(Name))
        /\ \A m \in DOMAIN wanted : IsKey(info.fields, wanted[m])
        /\ info.keys = [m \in DOMAIN wanted |-> KeyField(info.fields, wanted[m])]
        /\ IsInjective(call.args.keys) => IsInjective(wanted)
    BY InfoIs
  <1>2. /\ t.fields = Marked(info.fields, call.args.noins, call.args.noupd)
        /\ t.keys = info.keys
    BY DEF TableOf, InfoOf, GetTableInfo
  <1>3. /\ columns \in Seq(Listed)
        /\ \A j, k \in DOMAIN columns : columns[j].name = columns[k].name => j = k
    BY DEF Proper
  <1> HIDE DEF info, wanted, t, columns
  <1>4. \A k \in DOMAIN columns : info.fields[k].name = columns[k].name
    <2>1. \A k \in DOMAIN columns : columns[k] \in Listed
      BY <1>3
    <2> QED
      BY <1>1, <2>1, FieldInfoIs
  <1>5. /\ t.fields \in Seq(Field) /\ DOMAIN t.fields = DOMAIN columns
        /\ \A k \in DOMAIN columns : t.fields[k].name = columns[k].name
    BY <1>1, <1>2, <1>4, MarkedIs
  <1>6. \A j, k \in DOMAIN t.fields : t.fields[j].name = t.fields[k].name => j = k
    BY <1>3, <1>5
  <1>7. ASSUME NEW m \in DOMAIN wanted
        PROVE  /\ t.keys[m] = KeyField(info.fields, wanted[m])
               /\ t.keys[m] \in Field
               /\ wanted[m] = <<wanted[m][1]>> /\ wanted[m][1] \in Name /\ ~wanted[m][1].upper
               /\ t.keys[m].name = wanted[m][1].base
               /\ \E k \in DOMAIN t.fields : t.fields[k].name = t.keys[m].name
               /\ \E k \in DOMAIN columns : t.keys[m] = FieldInfo(columns[k])
    <2>1. wanted[m] \in Seq(Name) /\ IsKey(info.fields, wanted[m])
      BY <1>1
    <2>2. t.keys[m] = KeyField(info.fields, wanted[m])
      BY <1>1, <1>2
    <2>3. PICK k \in DOMAIN columns : t.keys[m] = info.fields[k]
      BY <1>1, <2>1, <2>2, KeyFieldIs
    <2>4. t.fields[k].name = t.keys[m].name /\ k \in DOMAIN t.fields
      BY <1>4, <1>5, <2>3
    <2>5. t.keys[m] = FieldInfo(columns[k])
      BY <1>1, <2>3
    <2>6. /\ KeyField(info.fields, wanted[m]) \in Field
          /\ wanted[m] = <<wanted[m][1]>> /\ wanted[m][1] \in Name /\ ~wanted[m][1].upper
          /\ KeyField(info.fields, wanted[m]).name = wanted[m][1].base
      BY <1>1, <2>1, KeyFieldIs
    <2>7. m \in DOMAIN wanted /\ k \in DOMAIN columns
      OBVIOUS
    <2> QED
      BY Zenon, <2>2, <2>4, <2>5, <2>6, <2>7
  <1>8. DOMAIN t.keys = DOMAIN wanted /\ t.keys \in Seq(Field)
    <2>1. DOMAIN wanted = 1..Len(wanted) /\ Len(wanted) \in Nat
      BY <1>1
    <2>2. t.keys = [m \in 1..Len(wanted) |-> t.keys[m]]
      BY <1>1, <1>2, <2>1
    <2>3. \A m \in 1..Len(wanted) : t.keys[m] \in Field
      BY <1>7, <2>1
    <2> QED
      BY <2>1, <2>2, <2>3
  <1>9. TableIs(call, t)
    BY <1>5, <1>6, <1>7, <1>8 DEF TableIs, columns
  <1>10. ASSUME AskedOnce(call) PROVE Named(t.keys)
    <2> SUFFICES ASSUME NEW j \in DOMAIN t.keys, NEW k \in DOMAIN t.keys,
                        t.keys[j].name = t.keys[k].name
                 PROVE  j = k
      BY DEF Named
    <2>1. \A a, b \in Name : ~a.upper /\ ~b.upper /\ a.base = b.base => a = b
      BY DEF Name
    <2>2. wanted[j][1] = wanted[k][1]
      BY <1>7, <1>8, <2>1
    <2>3. wanted[j] = wanted[k]
      BY <1>7, <1>8, <2>2
    <2>4. IsInjective(wanted)
      BY <1>1, <1>10 DEF AskedOnce
    <2> QED
      BY <1>8, <2>3, <2>4 DEF IsInjective
  <1> QED
    BY <1>9, <1>10 DEF t

-----------------------------------------------------------------------------
(* The functions that each letter stands for, without a key and with one.    *)

Lone(t, f) ==
  CASE f = "b" -> {Plain(<<"bind_record">>, NamesOf(t.fields))}
    [] f = "f" -> {Plain(<<"fetch">>, <<>>),
                   Function(<<"fetch_record">>, NamesOf(t.fields), <<>>, <<>>, {<<"fetch">>})}
    [] f = "s" -> {Plain(<<"select">>, NamesOf(t.fields)),
                   Calling(<<"select_record">>, {<<"select">>, <<"fetch_record">>})}
    [] f = "i" -> {Function(<<"insert">>, NamesOf(FieldsIn(t.fields)),
                            FormatsOf(FieldsIn(t.fields)), NamesOf(FieldsIn(t.fields)), {})}
    [] f = "u" -> {Function(<<"update_record">>, NamesOf(FieldsSet(t.fields)),
                            FormatsOf(FieldsSet(t.fields)), NamesOf(FieldsSet(t.fields)), {})}
    [] f = "d" -> {Plain(<<"delete">>, <<>>)}
    [] OTHER -> {}
ByKey(field, f) ==
  CASE f = "s" -> {Keyed("select_by", field, "select_record")[1]}
    [] f = "u" -> {Keyed("update_by", field, "update_record")[1]}
    [] f = "d" -> {Keyed("delete_by", field, "delete")[1]}
    [] OTHER -> {}

(* q has the elements of E, under different names.                           *)
Lists(q, E) == /\ \A k \in DOMAIN q : q[k] \in E
               /\ \A e \in E : \E k \in DOMAIN q : q[k] = e
               /\ Named(q)

LEMMA Singles ==
  /\ \A a : DOMAIN <<a>> = {1} /\ <<a>>[1] = a
  /\ \A a, b : DOMAIN <<a, b>> = {1, 2} /\ <<a, b>>[1] = a /\ <<a, b>>[2] = b
  /\ DOMAIN <<>> = {}
  OBVIOUS

LEMMA PairOf ==
  ASSUME NEW a, NEW b
  PROVE  <<a>> \o <<b>> = <<a, b>>
  <1>1. <<a>> \in Seq({a, b}) /\ <<b>> \in Seq({a, b}) /\ b \in {a, b}
    OBVIOUS
  <1>2. Append(<<a>>, b) = <<a>> \o <<b>>
    BY <1>1, AppendIsConcat
  <1>3. Append(<<a>>, b) = <<a, b>>
    <2>1. /\ <<a, b>> \in Seq({a, b}) /\ Len(<<a, b>>) = 2
          /\ <<a, b>>[1] = a /\ <<a, b>>[2] = b
      OBVIOUS
    <2>2. Append(<<a>>, b) \in Seq({a, b}) /\ Len(Append(<<a>>, b)) = 2
      BY <1>1
    <2>3. Append(<<a>>, b)[1] = a /\ Append(<<a>>, b)[2] = b
      <3>1. Len(<<a>>) = 1 /\ <<a>>[1] = a
        OBVIOUS
      <3> QED
        BY <1>1, <3>1, AppendProperties
    <2>4. ASSUME NEW p \in Seq({a, b}), NEW q \in Seq({a, b}), Len(p) = 2, Len(q) = 2,
                 p[1] = q[1], p[2] = q[2]
          PROVE  p = q
      <3>1. \A k \in 1..2 : p[k] = q[k]
        BY <2>4
      <3> QED
        BY <2>4, <3>1
    <2> QED
      BY ONLY <2>1, <2>2, <2>3, <2>4
  <1> QED
    BY <1>2, <1>3

LEMMA ListsNone == \A S : <<>> \in Seq(S) /\ Lists(<<>>, {})
  BY Singles DEF Lists, Named

LEMMA ListsOne ==
  ASSUME NEW a
  PROVE  <<a>> \in Seq({a}) /\ Lists(<<a>>, {a})
  BY Singles DEF Lists, Named

LEMMA ListsTwo ==
  ASSUME NEW a, NEW b, a.name # b.name
  PROVE  <<a>> \o <<b>> \in Seq({a, b}) /\ Lists(<<a>> \o <<b>>, {a, b})
  <1>1. <<a, b>> \in Seq({a, b}) /\ Lists(<<a, b>>, {a, b})
    BY Singles DEF Lists, Named
  <1> QED
    BY <1>1, PairOf

LEMMA NonKeyedLists ==
  ASSUME NEW t, NEW f
  PROVE  NonKeyed(t, f) \in Seq(Lone(t, f)) /\ Lists(NonKeyed(t, f), Lone(t, f))
  <1>0. <<"fetch">> # <<"fetch_record">> /\ <<"select">> # <<"select_record">>
    OBVIOUS
  <1>1. CASE f = "b"
    BY <1>1, ListsOne DEF NonKeyed, Lone, WriteBind
  <1>2. CASE f = "f"
    <2> DEFINE a == Plain(<<"fetch">>, <<>>)
               b == Function(<<"fetch_record">>, NamesOf(t.fields), <<>>, <<>>, {<<"fetch">>})
    <2>1. a.name # b.name
      BY <1>0 DEF Plain, Function
    <2>2. NonKeyed(t, f) = <<a>> \o <<b>> /\ Lone(t, f) = {a, b}
      BY <1>2 DEF NonKeyed, Lone, WriteFetch, WriteFetchBase
    <2> HIDE DEF a, b
    <2> QED
      BY <2>1, <2>2, ListsTwo
  <1>3. CASE f = "s"
    <2> DEFINE a == Plain(<<"select">>, NamesOf(t.fields))
               b == Calling(<<"select_record">>, {<<"select">>, <<"fetch_record">>})
    <2>1. a.name # b.name
      BY <1>0 DEF Plain, Calling, Function
    <2>2. NonKeyed(t, f) = <<a>> \o <<b>> /\ Lone(t, f) = {a, b}
      BY <1>3 DEF NonKeyed, Lone, WriteSelect, WriteSelectBase
    <2> HIDE DEF a, b
    <2> QED
      BY <2>1, <2>2, ListsTwo
  <1>4. CASE f = "i"
    BY <1>4, ListsOne DEF NonKeyed, Lone, WriteInsert
  <1>5. CASE f = "u"
    BY <1>5, ListsOne DEF NonKeyed, Lone, WriteUpdate
  <1>6. CASE f = "d"
    BY <1>6, ListsOne DEF NonKeyed, Lone, WriteDelete
  <1>7. CASE f \notin {"b", "f", "s", "i", "u", "d"}
    BY <1>7, ListsNone DEF NonKeyed, Lone
  <1> QED
    BY <1>1, <1>2, <1>3, <1>4, <1>5, <1>6, <1>7

LEMMA WithKeyLists ==
  ASSUME NEW field, NEW f
  PROVE  WithKey(field, f) \in Seq(ByKey(field, f)) /\ Lists(WithKey(field, f), ByKey(field, f))
  <1>0. \A name, base : Keyed(name, field, base) = <<Keyed(name, field, base)[1]>>
    BY DEF Keyed
  <1>1. CASE f = "s"
    BY <1>0, <1>1, ListsOne DEF WithKey, ByKey, WriteSelectBy
  <1>2. CASE f = "u"
    BY <1>0, <1>2, ListsOne DEF WithKey, ByKey, WriteUpdateBy
  <1>3. CASE f = "d"
    BY <1>0, <1>3, ListsOne DEF WithKey, ByKey, WriteDeleteBy
  <1>4. CASE f \notin {"s", "u", "d"}
    BY <1>4, ListsNone DEF WithKey, ByKey
  <1> QED
    BY <1>1, <1>2, <1>3, <1>4

(* Which letter a name comes from.                                           *)
LEMMA LoneNames ==
  ASSUME NEW t, NEW f, NEW e \in Lone(t, f)
  PROVE  /\ f \in {"b", "f", "s", "i", "u", "d"}
         /\ e.name \in (CASE f = "b" -> {<<"bind_record">>}
                          [] f = "f" -> {<<"fetch">>, <<"fetch_record">>}
                          [] f = "s" -> {<<"select">>, <<"select_record">>}
                          [] f = "i" -> {<<"insert">>}
                          [] f = "u" -> {<<"update_record">>}
                          [] OTHER -> {<<"delete">>})
         /\ e.calls = {} \/ f \in {"f", "s"}
         /\ f = "f" => e.calls \subseteq {<<"fetch">>}
         /\ f = "s" => e.calls \subseteq {<<"select">>, <<"fetch_record">>}
         /\ Len(e.name) = 1
         /\ e.name = <<"fetch_record">> => e.cols = NamesOf(t.fields)
         /\ e.name = <<"insert">> => /\ e.cols = NamesOf(FieldsIn(t.fields)) /\ e.args = e.cols
                                     /\ e.fmts = FormatsOf(FieldsIn(t.fields))
         /\ e.name = <<"update_record">> => /\ e.cols = NamesOf(FieldsSet(t.fields))
                                            /\ e.args = e.cols
                                            /\ e.fmts = FormatsOf(FieldsSet(t.fields))
  <1>0. f \in {"b", "f", "s", "i", "u", "d"}
    BY DEF Lone
  <1>1. CASE f = "b"
    BY <1>1 DEF Lone, Plain, Function
  <1>2. CASE f = "f"
    BY <1>2 DEF Lone, Plain, Function
  <1>3. CASE f = "s"
    BY <1>3 DEF Lone, Plain, Calling, Function
  <1>4. CASE f = "i"
    BY <1>4 DEF Lone, Function
  <1>5. CASE f = "u"
    BY <1>5 DEF Lone, Function
  <1>6. CASE f = "d"
    BY <1>6 DEF Lone, Plain, Function
  <1> QED
    BY <1>0, <1>1, <1>2, <1>3, <1>4, <1>5, <1>6

LEMMA ByKeyNames ==
  ASSUME NEW field, NEW f, NEW e \in ByKey(field, f)
  PROVE  /\ f \in {"s", "u", "d"}
         /\ f = "s" => e.name = <<"select_by", field.name>> /\ e.calls = {<<"select_record">>}
         /\ f = "u" => e.name = <<"update_by", field.name>> /\ e.calls = {<<"update_record">>}
         /\ f = "d" => e.name = <<"delete_by", field.name>> /\ e.calls = {<<"delete">>}
         /\ Len(e.name) = 2 /\ e.name[2] = field.name
  <1>0. f \in {"s", "u", "d"}
    BY DEF ByKey
  <1>1. CASE f = "s"
    BY <1>1 DEF ByKey, Keyed, Function
  <1>2. CASE f = "u"
    BY <1>2 DEF ByKey, Keyed, Function
  <1>3. CASE f = "d"
    BY <1>3 DEF ByKey, Keyed, Function
  <1> QED
    BY <1>0, <1>1, <1>2, <1>3

LEMMA LoneApart ==
  ASSUME NEW t, NEW f, NEW g, NEW d \in Lone(t, f), NEW e \in Lone(t, g), d.name = e.name
  PROVE  f = g
  <1> DEFINE Title(h) == CASE h = "b" -> {<<"bind_record">>}
                           [] h = "f" -> {<<"fetch">>, <<"fetch_record">>}
                           [] h = "s" -> {<<"select">>, <<"select_record">>}
                           [] h = "i" -> {<<"insert">>}
                           [] h = "u" -> {<<"update_record">>}
                           [] OTHER -> {<<"delete">>}
             L == {"b", "f", "s", "i", "u", "d"}
  <1>1. f \in L /\ g \in L /\ d.name \in Title(f) /\ d.name \in Title(g)
    BY LoneNames
  <1>2. \A h \in L, n \in Title("b") : n \in Title(h) => h = "b"
    OBVIOUS
  <1>3. \A h \in L, n \in Title("f") : n \in Title(h) => h = "f"
    OBVIOUS
  <1>4. \A h \in L, n \in Title("s") : n \in Title(h) => h = "s"
    OBVIOUS
  <1>5. \A h \in L, n \in Title("i") : n \in Title(h) => h = "i"
    OBVIOUS
  <1>6. \A h \in L, n \in Title("u") : n \in Title(h) => h = "u"
    OBVIOUS
  <1>7. \A h \in L, n \in Title("d") : n \in Title(h) => h = "d"
    OBVIOUS
  <1>8. \/ f = "b" \/ f = "f" \/ f = "s" \/ f = "i" \/ f = "u" \/ f = "d"
    BY <1>1
  <1> HIDE DEF Title
  <1> QED
    BY <1>1, <1>2, <1>3, <1>4, <1>5, <1>6, <1>7, <1>8

LEMMA ByKeyApart ==
  ASSUME NEW c, NEW c2, NEW f, NEW g, NEW d \in ByKey(c, f), NEW e \in ByKey(c2, g), d.name = e.name
  PROVE  f = g /\ c.name = c2.name
  <1>1. /\ f = "s" => d.name = <<"select_by", c.name>>
        /\ f = "u" => d.name = <<"update_by", c.name>>
        /\ f = "d" => d.name = <<"delete_by", c.name>>
        /\ f \in {"s", "u", "d"} /\ d.name[2] = c.name
    BY ByKeyNames
  <1>2. /\ g = "s" => e.name = <<"select_by", c2.name>>
        /\ g = "u" => e.name = <<"update_by", c2.name>>
        /\ g = "d" => e.name = <<"delete_by", c2.name>>
        /\ g \in {"s", "u", "d"} /\ e.name[2] = c2.name
    BY ByKeyNames
  <1>3. \A a, b, x, y : <<a, x>> = <<b, y>> => a = b
    OBVIOUS
  <1> QED
    BY <1>1, <1>2, <1>3

-----------------------------------------------------------------------------
(* The functions of the program: all that a letter asks for, and no others.  *)
HasAll(t, funcs, src) ==
  /\ \A j \in DOMAIN src :
       \/ \E i \in DOMAIN funcs : src[j] \in Lone(t, funcs[i])
       \/ \E m \in DOMAIN t.keys, i \in DOMAIN funcs : src[j] \in ByKey(t.keys[m], funcs[i])
  /\ \A i \in DOMAIN funcs : \A e \in Lone(t, funcs[i]) : \E j \in DOMAIN src : src[j] = e

LEMMA LonePart ==
  ASSUME NEW t, NEW L, NEW funcs \in Seq(L)
  PROVE  LET A == FlattenSeq([k \in DOMAIN funcs |-> NonKeyed(t, funcs[k])])
         IN  /\ A \in Seq(UNION {Lone(t, funcs[k]) : k \in DOMAIN funcs})
             /\ \A j \in DOMAIN A : \E i \in DOMAIN funcs : A[j] \in Lone(t, funcs[i])
             /\ \A i \in DOMAIN funcs : \A e \in Lone(t, funcs[i]) : \E j \in DOMAIN A : A[j] = e
             /\ IsInjective(funcs) => Named(A)
  <1> DEFINE S == UNION {Lone(t, funcs[k]) : k \in DOMAIN funcs}
             ss == [k \in DOMAIN funcs |-> NonKeyed(t, funcs[k])]
             A == FlattenSeq(ss)
  <1>0. DOMAIN funcs = 1..Len(funcs) /\ Len(funcs) \in Nat
    OBVIOUS
  <1>1. ASSUME NEW k \in DOMAIN funcs
        PROVE  ss[k] \in Seq(S) /\ Lists(ss[k], Lone(t, funcs[k]))
    <2>1. NonKeyed(t, funcs[k]) \in Seq(Lone(t, funcs[k])) /\ Lists(NonKeyed(t, funcs[k]), Lone(t, funcs[k]))
      BY NonKeyedLists
    <2>2. Lone(t, funcs[k]) \subseteq S
      OBVIOUS
    <2> HIDE DEF S
    <2>3. NonKeyed(t, funcs[k]) \in Seq(S)
      BY <2>1, <2>2
    <2> QED
      BY <2>1, <2>3
  <1>2. DOMAIN ss = DOMAIN funcs /\ ss = [k \in DOMAIN funcs |-> ss[k]]
    OBVIOUS
  <1> HIDE DEF S, ss
  <1>3. ss \in Seq(Seq(S)) /\ Len(ss) = Len(funcs)
    BY <1>0, <1>1, <1>2
  <1>4. A \in Seq(S) /\ Joins(ss, Len(funcs), A)
    BY <1>3, FlattenJoins
  <1> HIDE DEF A
  <1>5. \A j \in DOMAIN A : \E i \in DOMAIN funcs : A[j] \in Lone(t, funcs[i])
    <2> SUFFICES ASSUME NEW j \in DOMAIN A PROVE \E i \in DOMAIN funcs : A[j] \in Lone(t, funcs[i])
      OBVIOUS
    <2>1. PICK i \in 1..Len(funcs) : \E k \in DOMAIN ss[i] : A[j] = ss[i][k]
      BY <1>4 DEF Joins
    <2> QED
      BY <1>0, <1>1, <2>1 DEF Lists
  <1>6. \A i \in DOMAIN funcs : \A e \in Lone(t, funcs[i]) : \E j \in DOMAIN A : A[j] = e
    <2> SUFFICES ASSUME NEW i \in DOMAIN funcs, NEW e \in Lone(t, funcs[i])
                 PROVE  \E j \in DOMAIN A : A[j] = e
      OBVIOUS
    <2>1. PICK k \in DOMAIN ss[i] : ss[i][k] = e
      BY <1>1 DEF Lists
    <2> QED
      BY <1>0, <1>4, <2>1 DEF Joins
  <1>7. ASSUME IsInjective(funcs) PROVE Named(A)
    <2>1. ASSUME NEW h \in DOMAIN funcs, NEW i \in DOMAIN funcs,
                 NEW j \in DOMAIN ss[h], NEW k \in DOMAIN ss[i], ss[h][j].name = ss[i][k].name
          PROVE  h = i
      <3>1. ss[h][j] \in Lone(t, funcs[h]) /\ ss[i][k] \in Lone(t, funcs[i])
        BY <1>1 DEF Lists
      <3>2. funcs[h] = funcs[i]
        BY <2>1, <3>1, LoneApart
      <3> QED
        BY <1>7, <3>2 DEF IsInjective
    <2>2. NamedApart(ss)
      BY <1>1, <1>2, <2>1 DEF NamedApart, Lists, Named
    <2> QED
      BY <1>4, <2>2 DEF Joins
  <1> QED
    BY <1>4, <1>5, <1>6, <1>7 DEF A, S, ss

LEMMA KeyPart ==
  ASSUME NEW c, NEW L, NEW funcs \in Seq(L)
  PROVE  LET B == FlattenSeq([k \in DOMAIN funcs |-> WithKey(c, funcs[k])])
         IN  /\ B \in Seq(UNION {ByKey(c, funcs[k]) : k \in DOMAIN funcs})
             /\ \A j \in DOMAIN B : \E i \in DOMAIN funcs : B[j] \in ByKey(c, funcs[i])
             /\ IsInjective(funcs) => Named(B)
  <1> DEFINE S == UNION {ByKey(c, funcs[k]) : k \in DOMAIN funcs}
             ss == [k \in DOMAIN funcs |-> WithKey(c, funcs[k])]
             B == FlattenSeq(ss)
  <1>0. DOMAIN funcs = 1..Len(funcs) /\ Len(funcs) \in Nat
    OBVIOUS
  <1>1. ASSUME NEW k \in DOMAIN funcs
        PROVE  ss[k] \in Seq(S) /\ Lists(ss[k], ByKey(c, funcs[k]))
    <2>1. WithKey(c, funcs[k]) \in Seq(ByKey(c, funcs[k])) /\ Lists(WithKey(c, funcs[k]), ByKey(c, funcs[k]))
      BY WithKeyLists
    <2>2. ByKey(c, funcs[k]) \subseteq S
      OBVIOUS
    <2> HIDE DEF S
    <2>3. WithKey(c, funcs[k]) \in Seq(S)
      BY <2>1, <2>2
    <2> QED
      BY <2>1, <2>3
  <1>2. DOMAIN ss = DOMAIN funcs /\ ss = [k \in DOMAIN funcs |-> ss[k]]
    OBVIOUS
  <1> HIDE DEF S, ss
  <1>3. ss \in Seq(Seq(S)) /\ Len(ss) = Len(funcs)
    BY <1>0, <1>1, <1>2
  <1>4. B \in Seq(S) /\ Joins(ss, Len(funcs), B)
    BY <1>3, FlattenJoins
  <1> HIDE DEF B
  <1>5. \A j \in DOMAIN B : \E i \in DOMAIN funcs : B[j] \in ByKey(c, funcs[i])
    <2> SUFFICES ASSUME NEW j \in DOMAIN B PROVE \E i \in DOMAIN funcs : B[j] \in ByKey(c, funcs[i])
      OBVIOUS
    <2>1. PICK i \in 1..Len(funcs) : \E k \in DOMAIN ss[i] : B[j] = ss[i][k]
      BY <1>4 DEF Joins
    <2> QED
      BY <1>0, <1>1, <2>1 DEF Lists
  <1>6. ASSUME IsInjective(funcs) PROVE Named(B)
    <2>1. ASSUME NEW h \in DOMAIN funcs, NEW i \in DOMAIN funcs,
                 NEW j \in DOMAIN ss[h], NEW k \in DOMAIN ss[i], ss[h][j].name = ss[i][k].name
          PROVE  h = i
      <3>1. ss[h][j] \in ByKey(c, funcs[h]) /\ ss[i][k] \in ByKey(c, funcs[i])
        BY <1>1 DEF Lists
      <3>2. funcs[h] = funcs[i]
        BY <2>1, <3>1, ByKeyApart
      <3> QED
        BY <1>6, <3>2 DEF IsInjective
    <2>2. NamedApart(ss)
      BY <1>1, <1>2, <2>1 DEF NamedApart, Lists, Named
    <2> QED
      BY <1>4, <2>2 DEF Joins
  <1> QED
    BY <1>4, <1>5, <1>6 DEF B, S, ss

LEMMA KeysPart ==
  ASSUME NEW t, t.keys \in Seq(Field), NEW L, NEW funcs \in Seq(L)
  PROVE  LET of(m) == FlattenSeq([k \in DOMAIN funcs |-> WithKey(t.keys[m], funcs[k])])
             B == FlattenSeq([m \in DOMAIN t.keys |-> of(m)])
         IN  /\ \E S : B \in Seq(S)
             /\ \A j \in DOMAIN B : \E m \in DOMAIN t.keys, i \in DOMAIN funcs :
                  B[j] \in ByKey(t.keys[m], funcs[i])
             /\ IsInjective(funcs) /\ Named(t.keys) => Named(B)
  <1> DEFINE of(m) == FlattenSeq([k \in DOMAIN funcs |-> WithKey(t.keys[m], funcs[k])])
             S == UNION {ByKey(t.keys[m], funcs[k]) : m \in DOMAIN t.keys, k \in DOMAIN funcs}
             ss == [m \in DOMAIN t.keys |-> of(m)]
             B == FlattenSeq(ss)
  <1>0. DOMAIN t.keys = 1..Len(t.keys) /\ Len(t.keys) \in Nat
    OBVIOUS
  <1>1. ASSUME NEW m \in DOMAIN t.keys
        PROVE  /\ ss[m] \in Seq(S)
               /\ \A j \in DOMAIN ss[m] : \E i \in DOMAIN funcs : ss[m][j] \in ByKey(t.keys[m], funcs[i])
               /\ IsInjective(funcs) => Named(ss[m])
    <2> DEFINE C == UNION {ByKey(t.keys[m], funcs[k]) : k \in DOMAIN funcs}
    <2>1. /\ of(m) \in Seq(C)
          /\ \A j \in DOMAIN of(m) : \E i \in DOMAIN funcs : of(m)[j] \in ByKey(t.keys[m], funcs[i])
          /\ IsInjective(funcs) => Named(of(m))
      BY KeyPart
    <2>2. C \subseteq S
      OBVIOUS
    <2>3. ss[m] = of(m)
      OBVIOUS
    <2> HIDE DEF S, C, of, ss
    <2>4. of(m) \in Seq(S)
      BY <2>1, <2>2
    <2> QED
      BY <2>1, <2>3, <2>4
  <1>2. DOMAIN ss = DOMAIN t.keys /\ ss = [m \in DOMAIN t.keys |-> ss[m]]
    OBVIOUS
  <1> HIDE DEF S, ss
  <1>3. ss \in Seq(Seq(S)) /\ Len(ss) = Len(t.keys)
    <2>1. ss \in [1..Len(t.keys) -> Seq(S)]
      BY <1>0, <1>1, <1>2
    <2> QED
      BY <1>0, <2>1
  <1>4. B \in Seq(S) /\ Joins(ss, Len(t.keys), B)
    BY <1>3, FlattenJoins
  <1> HIDE DEF B
  <1>5. ASSUME NEW j \in DOMAIN B
        PROVE  \E m \in DOMAIN t.keys, i \in DOMAIN funcs : B[j] \in ByKey(t.keys[m], funcs[i])
    <2>1. PICK m \in 1..Len(t.keys) : \E k \in DOMAIN ss[m] : B[j] = ss[m][k]
      BY <1>4 DEF Joins
    <2> QED
      BY <1>0, <1>1, <2>1
  <1>6. ASSUME IsInjective(funcs), Named(t.keys) PROVE Named(B)
    <2>1. ASSUME NEW h \in DOMAIN t.keys, NEW i \in DOMAIN t.keys,
                 NEW j \in DOMAIN ss[h], NEW k \in DOMAIN ss[i], ss[h][j].name = ss[i][k].name
          PROVE  h = i
      <3>1. PICK f \in DOMAIN funcs : ss[h][j] \in ByKey(t.keys[h], funcs[f])
        BY <1>1
      <3>2. PICK g \in DOMAIN funcs : ss[i][k] \in ByKey(t.keys[i], funcs[g])
        BY <1>1
      <3>3. t.keys[h].name = t.keys[i].name
        BY <2>1, <3>1, <3>2, ByKeyApart
      <3> QED
        BY <1>6, <3>3 DEF Named
    <2>2. NamedApart(ss)
      BY <1>1, <1>2, <1>6, <2>1 DEF NamedApart, Named
    <2> QED
      BY <1>4, <2>2 DEF Joins
  <1> QED
    BY <1>4, <1>5, <1>6 DEF B, ss

LEMMA SrcIs ==
  ASSUME NEW t, t.keys \in Seq(Field), NEW L, NEW funcs \in Seq(L)
  PROVE  /\ HasAll(t, funcs, WriteCSrc(t, funcs))
         /\ IsInjective(funcs) /\ Named(t.keys) => Named(WriteCSrc(t, funcs))
  <1> DEFINE A == FlattenSeq([k \in DOMAIN funcs |-> NonKeyed(t, funcs[k])])
             of(m) == FlattenSeq([k \in DOMAIN funcs |-> WithKey(t.keys[m], funcs[k])])
             B == FlattenSeq([m \in DOMAIN t.keys |-> of(m)])
             src == A \o B
  <1>1. WriteCSrc(t, funcs) = src
    BY DEF WriteCSrc
  <1>2. /\ \E S : A \in Seq(S)
        /\ \A j \in DOMAIN A : \E i \in DOMAIN funcs : A[j] \in Lone(t, funcs[i])
        /\ \A i \in DOMAIN funcs : \A e \in Lone(t, funcs[i]) : \E j \in DOMAIN A : A[j] = e
        /\ IsInjective(funcs) => Named(A)
    <2>1. /\ A \in Seq(UNION {Lone(t, funcs[k]) : k \in DOMAIN funcs})
          /\ \A j \in DOMAIN A : \E i \in DOMAIN funcs : A[j] \in Lone(t, funcs[i])
          /\ \A i \in DOMAIN funcs : \A e \in Lone(t, funcs[i]) : \E j \in DOMAIN A : A[j] = e
          /\ IsInjective(funcs) => Named(A)
      BY LonePart
    <2> HIDE DEF A
    <2> QED
      BY Zenon, <2>1
  <1>3. /\ \E S : B \in Seq(S)
        /\ \A j \in DOMAIN B : \E m \in DOMAIN t.keys, i \in DOMAIN funcs :
             B[j] \in ByKey(t.keys[m], funcs[i])
        /\ IsInjective(funcs) /\ Named(t.keys) => Named(B)
    BY Zenon, KeysPart
  <1> HIDE DEF A, B
  <1>4. PICK S : A \in Seq(S)
    BY <1>2
  <1>5. PICK T : B \in Seq(T)
    BY <1>3
  <1>6. A \in Seq(S \cup T) /\ B \in Seq(S \cup T)
    BY <1>4, <1>5
  <1>7. /\ \A j \in DOMAIN A : j \in DOMAIN src /\ src[j] = A[j]
        /\ \A j \in DOMAIN B : Len(A) + j \in DOMAIN src /\ src[Len(A) + j] = B[j]
    BY <1>6
  <1>8. ASSUME NEW j \in DOMAIN src
        PROVE  j \in DOMAIN A \/ (j - Len(A) \in DOMAIN B /\ j = Len(A) + (j - Len(A)))
    BY <1>6
  <1> HIDE DEF src
  <1>9. ASSUME NEW j \in DOMAIN src, j \notin DOMAIN A
        PROVE  \E k \in DOMAIN B : j = Len(A) + k /\ src[j] = B[k]
    BY <1>7, <1>8, <1>9
  <1>10. \A j \in DOMAIN src :
       \/ \E i \in DOMAIN funcs : src[j] \in Lone(t, funcs[i])
       \/ \E m \in DOMAIN t.keys, i \in DOMAIN funcs : src[j] \in ByKey(t.keys[m], funcs[i])
    <2> SUFFICES ASSUME NEW j \in DOMAIN src
                 PROVE
       \/ \E i \in DOMAIN funcs : src[j] \in Lone(t, funcs[i])
       \/ \E m \in DOMAIN t.keys, i \in DOMAIN funcs : src[j] \in ByKey(t.keys[m], funcs[i])
      OBVIOUS
    <2>1. CASE j \in DOMAIN A
      BY <1>2, <1>7, <2>1
    <2>2. CASE j \notin DOMAIN A
      <3>1. PICK k \in DOMAIN B : src[j] = B[k]
        BY <1>9, <2>2
      <3> QED
        BY <1>3, <3>1
    <2> QED
      BY <2>1, <2>2
  <1>11. \A i \in DOMAIN funcs : \A e \in Lone(t, funcs[i]) : \E j \in DOMAIN src : src[j] = e
    BY <1>2, <1>7
  <1>12. ASSUME IsInjective(funcs), Named(t.keys) PROVE Named(src)
    <2>1. ASSUME NEW j \in DOMAIN A, NEW k \in DOMAIN B PROVE A[j].name # B[k].name
      <3>1. PICK i \in DOMAIN funcs : A[j] \in Lone(t, funcs[i])
        BY <1>2
      <3>2. PICK m \in DOMAIN t.keys, h \in DOMAIN funcs : B[k] \in ByKey(t.keys[m], funcs[h])
        BY <1>3
      <3>3. Len(A[j].name) = 1
        BY <3>1, LoneNames
      <3>4. Len(B[k].name) = 2
        BY <3>2, ByKeyNames
      <3>5. 1 # 2
        OBVIOUS
      <3> QED
        BY Zenon, <3>3, <3>4, <3>5
    <2> SUFFICES ASSUME NEW i \in DOMAIN src, NEW j \in DOMAIN src, src[i].name = src[j].name
                 PROVE  i = j
      BY DEF Named
    <2>2. CASE i \in DOMAIN A /\ j \in DOMAIN A
      BY <1>2, <1>7, <1>12, <2>2 DEF Named
    <2>3. CASE i \in DOMAIN A /\ j \notin DOMAIN A
      BY <1>7, <1>9, <2>1, <2>3
    <2>4. CASE i \notin DOMAIN A /\ j \in DOMAIN A
      BY <1>7, <1>9, <2>1, <2>4
    <2>5. CASE i \notin DOMAIN A /\ j \notin DOMAIN A
      <3>1. PICK a \in DOMAIN B : i = Len(A) + a /\ src[i] = B[a]
        BY <1>9, <2>5
      <3>2. PICK b \in DOMAIN B : j = Len(A) + b /\ src[j] = B[b]
        BY <1>9, <2>5
      <3>3. a = b
        BY <1>3, <1>12, <3>1, <3>2 DEF Named
      <3> QED
        BY <3>1, <3>2, <3>3
    <2> QED
      BY <2>2, <2>3, <2>4, <2>5
  <1> QED
    BY <1>1, <1>10, <1>11, <1>12 DEF HasAll

-----------------------------------------------------------------------------
(* The letters of a program: a select brings the fetch that it calls.        *)
LEMMA FuncsOfIs ==
  ASSUME NEW call, Proper(call)
  PROVE  LET funcs == FuncsOf(call)
         IN  /\ \E L : funcs \in Seq(L)
             /\ \A i \in DOMAIN funcs : funcs[i] = "s" => \E j \in DOMAIN funcs : funcs[j] = "f"
             /\ AskedOnce(call) => IsInjective(funcs)
  <1> DEFINE given == call.args.funcs
             all == <<"f", "s", "i", "u", "d">>
             asked == IF given # <<>> THEN given ELSE all
             funcs == FuncsOf(call)
             L == STRING \cup {"b", "f", "s", "i", "u", "d"}
  <1>1. given \in Seq(STRING)
    BY DEF Proper
  <1>2. all \in Seq(L) /\ IsInjective(all) /\ Len(all) = 5 /\ all[1] = "f"
    BY DEF IsInjective
  <1>3. given \in Seq(L)
    BY <1>1
  <1>4. asked \in Seq(L) /\ "f" \in L
    BY <1>2, <1>3
  <1>5. AskedOnce(call) => IsInjective(asked)
    BY <1>2 DEF AskedOnce
  <1>6. funcs = IF Contains(asked, "s") /\ ~Contains(asked, "f") THEN Append(asked, "f") ELSE asked
    BY DEF FuncsOf, ReqFuncs
  <1> HIDE DEF asked, funcs, L
  <1>7. CASE Contains(asked, "s") /\ ~Contains(asked, "f")
    <2>1. funcs \in Seq(L) /\ Len(funcs) = Len(asked) + 1 /\ funcs[Len(asked) + 1] = "f"
          /\ \A i \in 1..Len(asked) : funcs[i] = asked[i]
      BY <1>4, <1>6, <1>7
    <2>2. Len(asked) \in Nat /\ DOMAIN funcs = 1 .. Len(asked) + 1 /\ DOMAIN asked = 1..Len(asked)
      BY <1>4, <2>1
    <2>3. \A i \in 1..Len(asked) : asked[i] # "f"
      BY <1>7 DEF Contains
    <2>4. Len(asked) + 1 \in DOMAIN funcs
      BY <2>2
    <2>5. IsInjective(asked) => IsInjective(funcs)
      <3> SUFFICES ASSUME IsInjective(asked), NEW i \in DOMAIN funcs, NEW j \in DOMAIN funcs,
                          funcs[i] = funcs[j]
                   PROVE  i = j
        BY DEF IsInjective
      <3>1. (i \in 1..Len(asked) \/ i = Len(asked) + 1) /\ (j \in 1..Len(asked) \/ j = Len(asked) + 1)
        BY <2>2
      <3>2. i \in 1..Len(asked) /\ j \in 1..Len(asked) => i = j
        BY <2>1, <2>2 DEF IsInjective
      <3> QED
        BY <2>1, <2>3, <3>1, <3>2
    <2> QED
      BY <1>5, <2>1, <2>4, <2>5 DEF funcs
  <1>8. CASE ~(Contains(asked, "s") /\ ~Contains(asked, "f"))
    <2>1. funcs = asked
      BY <1>6, <1>8
    <2>2. \A i \in DOMAIN asked : asked[i] = "s" => \E j \in DOMAIN asked : asked[j] = "f"
      <3>1. DOMAIN asked = 1..Len(asked)
        BY <1>4
      <3> QED
        BY <1>8, <3>1 DEF Contains
    <2> QED
      BY <1>4, <1>5, <2>1, <2>2 DEF funcs
  <1> QED
    BY <1>7, <1>8

(* The array of a clause has a place for it.                                 *)
LEMMA ClauseFits ==
  ASSUME NEW column \in Listed, FieldInfo(column).letters <= 6,
         FieldInfo(column).pfmt # "%f",
         FieldInfo(column).pfmt = "%lld" => FieldInfo(column).len >= 15
  PROVE  ClauseLength(FieldInfo(column)) <= TempSize(FieldInfo(column))
  <1> DEFINE c == FieldInfo(column)
  <1>1. /\ c.len \in Nat /\ c.letters \in Nat /\ c.letters <= 6 /\ c.pfmt \in Formats
        /\ c.len > 0 \/ c.pfmt # "%s"
        /\ c.pfmt # "%f" /\ (c.pfmt = "%lld" => c.len >= 15)
    BY FieldInfoIs DEF Field
  <1> HIDE DEF c
  <1>3. \A len \in Nat : /\ ((len + 33) \div 16) * 16 >= len + 18
                         /\ ((len + 33) \div 16) * 16 >= 32
                         /\ len >= 15 => ((len + 33) \div 16) * 16 >= 48
    OBVIOUS
  <1>4. TempSize(c) >= c.len + 18 /\ TempSize(c) >= 32 /\ (c.len >= 15 => TempSize(c) >= 48)
        /\ TempSize(c) \in Int
    BY <1>1, <1>3 DEF TempSize
  <1>5. ASSUME c.pfmt = "%s"
        PROVE  ClauseLength(c) <= TempSize(c)
    <2>1. ValueLength(c) = c.len - 1
      BY <1>5 DEF ValueLength
    <2> QED
      BY <1>1, <1>4, <1>5, <2>1 DEF ClauseLength
  <1>6. ASSUME c.pfmt = "%lld"
        PROVE  ClauseLength(c) <= TempSize(c)
    <2>1. ValueLength(c) = 20
      BY <1>6 DEF ValueLength
    <2> QED
      BY <1>1, <1>4, <1>6, <2>1 DEF ClauseLength
  <1>7. ASSUME c.pfmt \in {"%x", "%d"}
        PROVE  ClauseLength(c) <= TempSize(c)
    <2>1. ValueLength(c) \in {11, 8, 6, 3}
      BY <1>7 DEF ValueLength
    <2> QED
      BY <1>1, <1>4, <1>7, <2>1 DEF ClauseLength
  <1>8. ClauseLength(c) <= TempSize(c)
    BY <1>1, <1>5, <1>6, <1>7 DEF Formats
  <1> QED
    BY <1>8 DEF c

-----------------------------------------------------------------------------
(* The program and the script are those of one call.                         *)
IsRun(call) == run = [c |-> InFormat(call, "c"), script |-> InFormat(call, "php").script]
RunInv == \E call \in Calls : IsRun(call)

(* A step is one of these; the functions with a key are those without.       *)
SelectsRecord == Generated(<<"select_record">>) \/ \E key : Generated(<<"select_by", key>>)
UpdatesRecord == Generated(<<"update_record">>) \/ \E key : Generated(<<"update_by", key>>)

LEMMA NextIs ==
  ASSUME Next
  PROVE  \/ \E new \in [Columns -> Values] : Fill(new)
         \/ \E ok : Fetch(ok)
         \/ \E ok : FetchRecord(ok)
         \/ \E ok : Insert(ok)
         \/ \E clause, ok : Select(clause, ok)
         \/ \E clause, ok, okFetch : SelectsRecord /\ SelectRecord(clause, ok, okFetch)
         \/ \E clause, ok : UpdatesRecord /\ UpdateRecord(clause, ok)
         \/ \E clause, ok : Delete(clause, ok)
         \/ \E sort, dir, ok : PhpRead(sort, dir, ok)
         \/ \E given \in SUBSET Columns : \E ok : PhpCreate(given, ok)
         \/ \E given \in SUBSET Columns : \E ok : PhpUpdate(given, ok)
         \/ \E keys, isList, ok : Range(keys) \subseteq Values /\ PhpDestroy(keys, isList, ok)
  <1> DEFINE Goal ==
         \/ \E new \in [Columns -> Values] : Fill(new)
         \/ \E ok : Fetch(ok)
         \/ \E ok : FetchRecord(ok)
         \/ \E ok : Insert(ok)
         \/ \E clause, ok : Select(clause, ok)
         \/ \E clause, ok, okFetch : SelectsRecord /\ SelectRecord(clause, ok, okFetch)
         \/ \E clause, ok : UpdatesRecord /\ UpdateRecord(clause, ok)
         \/ \E clause, ok : Delete(clause, ok)
         \/ \E sort, dir, ok : PhpRead(sort, dir, ok)
         \/ \E given \in SUBSET Columns : \E ok : PhpCreate(given, ok)
         \/ \E given \in SUBSET Columns : \E ok : PhpUpdate(given, ok)
         \/ \E keys, isList, ok : Range(keys) \subseteq Values /\ PhpDestroy(keys, isList, ok)
  <1>1. ASSUME NEW ok \in BOOLEAN, NEW clause \in Clauses,
                    \/ Select(clause, ok)
                    \/ \E okFetch \in BOOLEAN :
                         Generated(<<"select_record">>) /\ SelectRecord(clause, ok, okFetch)
                    \/ Generated(<<"update_record">>) /\ UpdateRecord(clause, ok)
                    \/ Generated(<<"delete">>) /\ Delete(clause, ok)
        PROVE  Goal
    BY Zenon, <1>1 DEF SelectsRecord, UpdatesRecord
  <1>2. ASSUME NEW ok \in BOOLEAN, NEW key \in Columns, NEW value \in Values,
               \/ \E okFetch \in BOOLEAN : SelectBy(key, value, ok, okFetch)
               \/ UpdateBy(key, value, ok) \/ DeleteBy(key, value, ok)
        PROVE  Goal
    BY Zenon, <1>2 DEF SelectsRecord, UpdatesRecord, SelectBy, UpdateBy, DeleteBy
  <1>3. \A given \in Given : given \in SUBSET Columns
    BY DEF Given
  <1>4. ASSUME NEW keys \in GivenKeys PROVE Range(keys) \subseteq Values
    <2>1. CASE \E v \in Values : keys = <<v>>
      BY <2>1 DEF Range
    <2>2. CASE \E v, w \in Values : keys = <<v, w>>
      <3>1. PICK v \in Values, w \in Values : keys = <<v, w>>
        BY <2>2
      <3>2. DOMAIN keys = {1, 2} /\ keys[1] = v /\ keys[2] = w
        BY <3>1
      <3> QED
        BY <3>2 DEF Range
    <2> QED
      BY <1>4, <2>1, <2>2 DEF GivenKeys
  <1>5. ASSUME NEW ok \in BOOLEAN,
               \/ Fetch(ok) \/ FetchRecord(ok) \/ Insert(ok)
               \/ \E sort, dir \in {"", "DESC"} : PhpRead(sort, dir, ok)
               \/ \E given \in Given : PhpCreate(given, ok) \/ PhpUpdate(given, ok)
               \/ \E keys \in GivenKeys :
                    PhpDestroy(keys, TRUE, ok) \/ (Len(keys) = 1 /\ PhpDestroy(keys, FALSE, ok))
        PROVE  Goal
    BY Zenon, <1>3, <1>4, <1>5
  <1> HIDE DEF Goal
  <1>6. Goal
    <2>1. CASE \E new \in [Columns -> Values] : Fill(new)
      BY <2>1 DEF Goal
    <2>2. ASSUME ~\E new \in [Columns -> Values] : Fill(new) PROVE Goal
      BY Zenon, <1>1, <1>2, <1>5, <2>2 DEF Next
    <2> QED
      BY <2>1, <2>2
  <1> QED
    BY <1>6 DEF Goal

LEMMA NextKeepsRun == Next => run' = run
  <1> SUFFICES ASSUME Next PROVE run' = run
    OBVIOUS
  <1>1. \A name, ret, given : Did(name, ret, given) => run' = run
    BY DEF Did
  <1> QED
    BY Zenon, <1>1, NextIs
       DEF Fill, Fetch, FetchRecord, Insert, Select, SelectRecord, UpdateRecord, Delete, PhpRead,
           PhpCreate, PhpUpdate, PhpDestroy, Reading, Writing

LEMMA RunInvariance == Spec => []RunInv
  <1>1. Init => RunInv
    BY DEF Init, RunInv, IsRun
  <1>2. RunInv /\ [Next]_vars => RunInv'
    BY NextKeepsRun DEF RunInv, IsRun, vars
  <1> QED
    BY <1>1, <1>2, PTL DEF Spec

LEMMA RunIs ==
  ASSUME NEW call \in Calls, IsRun(call)
  PROVE  /\ Proper(call)
         /\ run.c.table = TableOf(call)
         /\ run.c.src = WriteCSrc(TableOf(call), FuncsOf(call))
         /\ run.script = WritePhpSrc(TableOf(call), ReqFuncs("php", call.args.funcs))
         /\ Fields = TableOf(call).fields
  <1>1. Proper(call)
    BY CallsAssumption
  <1> QED
    BY <1>1, Written DEF IsRun, Fields

LEMMA RunIsWhole ==
  ASSUME NEW call \in Calls, IsRun(call), AskedOnce(call)
  PROVE  ProgramIsWhole
  <1> DEFINE t == TableOf(call)
             funcs == FuncsOf(call)
             src == WriteCSrc(t, funcs)
             names == {src[k].name : k \in DOMAIN src}
  <1>1. /\ Proper(call) /\ run.c.table = t /\ run.c.src = src /\ Fields = t.fields
        /\ run.script = WritePhpSrc(t, ReqFuncs("php", call.args.funcs))
    BY RunIs
  <1>2. TableIs(call, t) /\ Named(t.keys)
    BY <1>1, TableOfIs
  <1>3. /\ \E L : funcs \in Seq(L)
        /\ \A i \in DOMAIN funcs : funcs[i] = "s" => \E j \in DOMAIN funcs : funcs[j] = "f"
        /\ IsInjective(funcs)
    BY <1>1, FuncsOfIs
  <1> HIDE DEF t, funcs
  <1>4. HasAll(t, funcs, src) /\ Named(src)
    <2>1. PICK L : funcs \in Seq(L)
      BY <1>3
    <2>2. t.keys \in Seq(Field)
      BY <1>2 DEF TableIs
    <2> QED
      BY <1>2, <1>3, <2>1, <2>2, SrcIs
  <1> HIDE DEF src
  <1>5. ASSUME NEW i \in DOMAIN funcs, NEW e \in Lone(t, funcs[i]) PROVE e.name \in names
    BY <1>4 DEF HasAll
  <1>6. ASSUME NEW k \in DOMAIN src PROVE src[k].calls \subseteq names
    <2>1. CASE \E i \in DOMAIN funcs : src[k] \in Lone(t, funcs[i])
      <3>1. PICK i \in DOMAIN funcs : src[k] \in Lone(t, funcs[i])
        BY <2>1
      <3>2. CASE funcs[i] = "f"
        <4>1. Plain(<<"fetch">>, <<>>) \in Lone(t, funcs[i])
          BY <3>2 DEF Lone
        <4>2. <<"fetch">> \in names
          BY <1>5, <4>1 DEF Plain, Function
        <4> QED
          BY <3>1, <3>2, <4>2, LoneNames
      <3>3. CASE funcs[i] = "s"
        <4>1. Plain(<<"select">>, NamesOf(t.fields)) \in Lone(t, funcs[i])
          BY <3>3 DEF Lone
        <4>2. PICK j \in DOMAIN funcs : funcs[j] = "f"
          BY <1>3, <3>3
        <4>3. Function(<<"fetch_record">>, NamesOf(t.fields), <<>>, <<>>, {<<"fetch">>})
                \in Lone(t, funcs[j])
          BY <4>2 DEF Lone
        <4>4. <<"select">> \in names /\ <<"fetch_record">> \in names
          BY <1>5, <4>1, <4>3 DEF Plain, Function
        <4> QED
          BY <3>1, <3>3, <4>4, LoneNames
      <3>4. CASE funcs[i] \notin {"f", "s"}
        BY <3>1, <3>4, LoneNames
      <3> QED
        BY <3>2, <3>3, <3>4
    <2>2. CASE \E m \in DOMAIN t.keys, i \in DOMAIN funcs : src[k] \in ByKey(t.keys[m], funcs[i])
      <3>1. PICK m \in DOMAIN t.keys, i \in DOMAIN funcs : src[k] \in ByKey(t.keys[m], funcs[i])
        BY <2>2
      <3>2. CASE funcs[i] = "s"
        <4>1. Calling(<<"select_record">>, {<<"select">>, <<"fetch_record">>}) \in Lone(t, funcs[i])
          BY <3>2 DEF Lone
        <4>2. <<"select_record">> \in names
          BY <1>5, <4>1 DEF Calling, Function
        <4> QED
          BY <3>1, <3>2, <4>2, ByKeyNames
      <3>3. CASE funcs[i] = "u"
        <4>1. Function(<<"update_record">>, NamesOf(FieldsSet(t.fields)),
                       FormatsOf(FieldsSet(t.fields)), NamesOf(FieldsSet(t.fields)), {})
                \in Lone(t, funcs[i])
          BY <3>3 DEF Lone
        <4>2. <<"update_record">> \in names
          BY <1>5, <4>1 DEF Function
        <4> QED
          BY <3>1, <3>3, <4>2, ByKeyNames
      <3>4. CASE funcs[i] = "d"
        <4>1. Plain(<<"delete">>, <<>>) \in Lone(t, funcs[i])
          BY <3>4 DEF Lone
        <4>2. <<"delete">> \in names
          BY <1>5, <4>1 DEF Plain, Function
        <4> QED
          BY <3>1, <3>4, <4>2, ByKeyNames
      <3>5. funcs[i] \in {"s", "u", "d"}
        BY <3>1, ByKeyNames
      <3> QED
        BY <3>2, <3>3, <3>4, <3>5
    <2> QED
      BY <1>4, <2>1, <2>2 DEF HasAll
  <1>7. ASSUME NEW m \in DOMAIN t.keys, t.keys[m].letters <= 6, t.keys[m].pfmt # "%f",
               t.keys[m].pfmt = "%lld" => t.keys[m].len >= 15
        PROVE  ClauseLength(t.keys[m]) <= TempSize(t.keys[m])
    <2>1. PICK k \in DOMAIN call.env.columns : t.keys[m] = FieldInfo(call.env.columns[k])
      BY <1>2 DEF TableIs
    <2>2. call.env.columns[k] \in Listed
      <3>1. call.env.columns \in Seq(Listed)
        BY <1>1 DEF Proper
      <3> QED
        BY <3>1
    <2> QED
      BY <1>7, <2>1, <2>2, ClauseFits
  <1>8. run.script.whole /\ run.script.actions \cap {"update", "destroy"} # {} =>
          run.script.key \in Columns
    <2> DEFINE php == PhpActions(ReqFuncs("php", call.args.funcs))
    <2> SUFFICES ASSUME run.script.whole, run.script.actions \cap {"update", "destroy"} # {}
                 PROVE  run.script.key \in Columns
      OBVIOUS
    <2> HIDE DEF php
    <2> DEFINE whole == [whole |-> TRUE,
                         fields |-> [k \in DOMAIN t.fields |-> t.fields[k].name],
                         kinds |-> [k \in DOMAIN t.fields |-> PhpKind(t.fields[k].type)],
                         table |-> t.name, creates |-> "patch_actions",
                         key |-> IF t.keys = <<>> THEN "" ELSE t.keys[1].name,
                         actions |-> php]
    <2>0. run.script = IF t.keys = <<>> /\ php \cap {"update", "destroy"} # {}
                       THEN [whole |-> FALSE] ELSE whole
      BY <1>1 DEF WritePhpSrc, php
    <2>1. run.script = whole
      <3>1. [whole |-> FALSE].whole = FALSE
        OBVIOUS
      <3> HIDE DEF whole
      <3> QED
        BY <2>0, <3>1
    <2>2. run.script.actions = php
      <3>1. whole.actions = php
        BY Zenon
      <3> HIDE DEF whole
      <3> QED
        BY <2>1, <3>1
    <2>3. t.keys # <<>>
      <3>1. ASSUME t.keys = <<>> PROVE FALSE
        <4>1. run.script = [whole |-> FALSE]
          BY <2>0, <2>2, <3>1
        <4> QED
          BY <4>1
      <3> QED
        BY <3>1
    <2>4. run.script.key = t.keys[1].name
      BY <2>1, <2>3
    <2>5. t.keys \in Seq(Field)
      BY <1>2 DEF TableIs
    <2>6. 1 \in DOMAIN t.keys
      BY <2>3, <2>5
    <2>7. PICK k \in DOMAIN t.fields : t.fields[k].name = t.keys[1].name
      BY <1>2, <2>6 DEF TableIs
    <2> QED
      BY <1>1, <2>4, <2>7 DEF Columns
  <1> QED
    BY <1>1, <1>4, <1>6, <1>7, <1>8 DEF ProgramIsWhole, Named, t, src

(* The program that gendb writes links, whatever the table, the keys, the    *)
(* letters of -f (write_c_src, write_c_inc in out_c.c): every function that  *)
(* a generated one calls is generated, and none twice, as long as nothing is *)
(* asked for twice; a clause whose key has a name of at most six letters, is *)
(* no floating point number and has 15 places if it is printed as a 64-bit   *)
(* number fits into the array that write_update_by and its like declare for  *)
(* it; and the script (out_php.c) that updates or destroys has a key that is *)
(* a column.                                                                 *)
THEOREM ProgramsAreWhole ==
  ASSUME \A call \in Calls : AskedOnce(call)
  PROVE  Spec => []ProgramIsWhole
  <1>1. RunInv => ProgramIsWhole
    BY RunIsWhole DEF RunInv
  <1> QED
    BY <1>1, RunInvariance, PTL

-----------------------------------------------------------------------------
(* The table, the cursor and the record are of its columns.                  *)
Datum == Values \cup {"null", "junk"}
Row == [Columns -> Datum]
TableInv == /\ rows \in Seq(Row) /\ Len(rows) <= MaxRows
            /\ stmt \in [open : BOOLEAN, rest : Seq(Row)]
            /\ rec \in [Columns -> Values \cup {"junk"}]
IInv == RunInv /\ TableInv

(* Every column is one field.                                                *)
FieldOfIs(column) ==
  /\ FieldOf(column) \in Field /\ FieldOf(column).name = column
  /\ \E k \in DOMAIN Fields : FieldOf(column) = Fields[k]
  /\ column \in NoIns <=> FieldOf(column).noins
  /\ column \in NoUpd <=> FieldOf(column).noupd
  /\ column \in ExactOnes <=> Exact(FieldOf(column))

LEMMA FieldsApart ==
  ASSUME RunInv
  PROVE  /\ Fields \in Seq(Field)
         /\ \A k \in DOMAIN Fields : Fields[k].name \in Columns /\ FieldOf(Fields[k].name) = Fields[k]
         /\ \A column \in Columns : FieldOfIs(column)
  <1>1. PICK call \in Calls : IsRun(call)
    BY DEF RunInv
  <1>2. TableIs(call, TableOf(call)) /\ Fields = TableOf(call).fields
    BY <1>1, RunIs, TableOfIs
  <1>3. /\ Fields \in Seq(Field)
        /\ \A j, k \in DOMAIN Fields : Fields[j].name = Fields[k].name => j = k
    BY <1>2 DEF TableIs
  <1>4. ASSUME NEW k \in DOMAIN Fields
        PROVE  Fields[k].name \in Columns /\ FieldOf(Fields[k].name) = Fields[k]
    <2>1. \A j \in DOMAIN Fields : Fields[j].name = Fields[k].name <=> j = k
      BY <1>3
    <2>2. (CHOOSE j \in DOMAIN Fields : Fields[j].name = Fields[k].name) = k
      BY <2>1
    <2> QED
      BY <2>2 DEF FieldOf, Columns
  <1>5. ASSUME NEW column \in Columns PROVE FieldOfIs(column)
    <2>1. PICK k \in DOMAIN Fields : column = Fields[k].name
      BY DEF Columns
    <2>2. FieldOf(column) = Fields[k] /\ Fields[k] \in Field
      BY <1>3, <1>4, <2>1
    <2>3. \A j \in DOMAIN Fields : Fields[j].name = column <=> j = k
      BY <1>3, <2>1
    <2>4. column \in NoIns <=> Fields[k].noins
      BY <2>3 DEF NoIns
    <2>5. column \in NoUpd <=> Fields[k].noupd
      BY <2>3 DEF NoUpd
    <2>6. column \in ExactOnes <=> Exact(Fields[k])
      BY <2>3 DEF ExactOnes
    <2> QED
      BY <2>1, <2>2, <2>4, <2>5, <2>6 DEF FieldOfIs
  <1> QED
    BY <1>3, <1>4, <1>5

(* The functions of the program by name, and which bring which.              *)
LEMMA BodyIs ==
  ASSUME RunInv
  PROVE  /\ Generated(<<"fetch_record">>) => Body(<<"fetch_record">>).cols = NamesOf(Fields)
         /\ Generated(<<"insert">>) =>
              /\ Body(<<"insert">>).cols = NamesOf(FieldsIn(Fields))
              /\ Body(<<"insert">>).args = NamesOf(FieldsIn(Fields))
              /\ Body(<<"insert">>).fmts = FormatsOf(FieldsIn(Fields))
         /\ Generated(<<"update_record">>) =>
              /\ Body(<<"update_record">>).cols = NamesOf(FieldsSet(Fields))
              /\ Body(<<"update_record">>).args = NamesOf(FieldsSet(Fields))
              /\ Body(<<"update_record">>).fmts = FormatsOf(FieldsSet(Fields))
         /\ SelectsRecord => Generated(<<"fetch_record">>)
         /\ UpdatesRecord => Generated(<<"update_record">>)
  <1>1. PICK call \in Calls : IsRun(call)
    BY DEF RunInv
  <1> DEFINE t == TableOf(call)
             funcs == FuncsOf(call)
             src == run.c.src
  <1>2. Proper(call) /\ src = WriteCSrc(t, funcs) /\ Fields = t.fields
    BY <1>1, RunIs
  <1>3. /\ \E L : funcs \in Seq(L)
        /\ \A i \in DOMAIN funcs : funcs[i] = "s" => \E j \in DOMAIN funcs : funcs[j] = "f"
    BY <1>2, FuncsOfIs
  <1> HIDE DEF t, funcs
  <1>4. HasAll(t, funcs, src)
    <2>1. TableIs(call, t)
      BY <1>2, TableOfIs DEF t
    <2>2. t.keys \in Seq(Field)
      BY <2>1 DEF TableIs
    <2> QED
      BY <1>2, <1>3, <2>2, SrcIs
  <1> HIDE DEF src
  <1>5. ASSUME NEW word, Generated(<<word>>)
        PROVE  /\ Body(<<word>>).name = <<word>>
               /\ \E i \in DOMAIN funcs : Body(<<word>>) \in Lone(t, funcs[i])
    <2>1. PICK k \in DOMAIN src : Body(<<word>>) = src[k] /\ src[k].name = <<word>>
      BY <1>5 DEF Generated, Body, src
    <2>2. ~\E m \in DOMAIN t.keys, i \in DOMAIN funcs : src[k] \in ByKey(t.keys[m], funcs[i])
      <3>1. ASSUME NEW m \in DOMAIN t.keys, NEW i \in DOMAIN funcs, src[k] \in ByKey(t.keys[m], funcs[i])
            PROVE  FALSE
        <4>1. Len(src[k].name) = 2
          BY <3>1, ByKeyNames
        <4>2. Len(<<word>>) = 1
          OBVIOUS
        <4> QED
          BY <2>1, <4>1, <4>2
      <3> QED
        BY <3>1
    <2> QED
      BY <1>4, <2>1, <2>2 DEF HasAll
  <1>6. ASSUME NEW i \in DOMAIN funcs, NEW e \in Lone(t, funcs[i]) PROVE Generated(e.name)
    BY <1>4 DEF HasAll, Generated, src
  <1>7. Generated(<<"fetch_record">>) => Body(<<"fetch_record">>).cols = NamesOf(Fields)
    BY <1>2, <1>5, LoneNames
  <1>8. Generated(<<"insert">>) =>
              /\ Body(<<"insert">>).cols = NamesOf(FieldsIn(Fields))
              /\ Body(<<"insert">>).args = NamesOf(FieldsIn(Fields))
              /\ Body(<<"insert">>).fmts = FormatsOf(FieldsIn(Fields))
    BY <1>2, <1>5, LoneNames
  <1>9. Generated(<<"update_record">>) =>
              /\ Body(<<"update_record">>).cols = NamesOf(FieldsSet(Fields))
              /\ Body(<<"update_record">>).args = NamesOf(FieldsSet(Fields))
              /\ Body(<<"update_record">>).fmts = FormatsOf(FieldsSet(Fields))
    BY <1>2, <1>5, LoneNames
  <1>10. ASSUME NEW word, NEW key, Generated(<<word, key>>)
         PROVE  \E c : \E i \in DOMAIN funcs : \E e \in ByKey(c, funcs[i]) : e.name = <<word, key>>
    <2>1. PICK k \in DOMAIN src : src[k].name = <<word, key>>
      BY <1>10 DEF Generated, src
    <2>2. \A i \in DOMAIN funcs : src[k] \notin Lone(t, funcs[i])
      <3>1. Len(<<word, key>>) = 2 /\ 1 # 2
        OBVIOUS
      <3>2. ASSUME NEW i \in DOMAIN funcs, src[k] \in Lone(t, funcs[i]) PROVE FALSE
        <4>1. Len(src[k].name) = 1
          BY <3>2, LoneNames
        <4> QED
          BY Zenon, <2>1, <3>1, <4>1
      <3> QED
        BY <3>2
    <2>3. PICK m \in DOMAIN t.keys, i \in DOMAIN funcs : src[k] \in ByKey(t.keys[m], funcs[i])
      BY <1>4, <2>2 DEF HasAll
    <2> QED
      BY <2>1, <2>3
  <1>11. ASSUME SelectsRecord PROVE Generated(<<"fetch_record">>)
    <2>1. \E i \in DOMAIN funcs : funcs[i] = "s"
      <3>1. CASE Generated(<<"select_record">>)
        <4>1. PICK i \in DOMAIN funcs : Body(<<"select_record">>) \in Lone(t, funcs[i])
          BY <1>5, <3>1
        <4>2. Calling(<<"select_record">>, {<<"select">>, <<"fetch_record">>}) \in Lone(t, "s")
          BY DEF Lone
        <4>3. funcs[i] = "s"
          BY <1>5, <3>1, <4>1, <4>2, LoneApart DEF Calling, Function
        <4> QED
          BY <4>3
      <3>2. CASE \E key : Generated(<<"select_by", key>>)
        <4>1. PICK key : Generated(<<"select_by", key>>)
          BY <3>2
        <4>2. PICK c : \E i \in DOMAIN funcs :
                          \E e \in ByKey(c, funcs[i]) : e.name = <<"select_by", key>>
          BY <1>10, <4>1
        <4>5. PICK i \in DOMAIN funcs : \E e \in ByKey(c, funcs[i]) : e.name = <<"select_by", key>>
          BY <4>2
        <4>3. PICK e \in ByKey(c, funcs[i]) : e.name = <<"select_by", key>>
          BY <4>5
        <4>4. funcs[i] = "s"
          <5>1. \A a, b, x, y : <<a, x>> = <<b, y>> => a = b
            OBVIOUS
          <5> QED
            BY <4>3, <5>1, ByKeyNames
        <4> QED
          BY <4>4
      <3> QED
        BY <1>11, <3>1, <3>2 DEF SelectsRecord
    <2>2. PICK j \in DOMAIN funcs : funcs[j] = "f"
      BY <1>3, <2>1
    <2>3. Function(<<"fetch_record">>, NamesOf(t.fields), <<>>, <<>>, {<<"fetch">>})
            \in Lone(t, funcs[j])
      BY <2>2 DEF Lone
    <2> QED
      BY <1>6, <2>3 DEF Function
  <1>12. ASSUME UpdatesRecord PROVE Generated(<<"update_record">>)
    <2>1. CASE \E key : Generated(<<"update_by", key>>)
      <3>1. PICK key : Generated(<<"update_by", key>>)
        BY <2>1
      <3>2. PICK c : \E i \in DOMAIN funcs :
                        \E e \in ByKey(c, funcs[i]) : e.name = <<"update_by", key>>
        BY <1>10, <3>1
      <3>6. PICK i \in DOMAIN funcs : \E e \in ByKey(c, funcs[i]) : e.name = <<"update_by", key>>
        BY <3>2
      <3>3. PICK e \in ByKey(c, funcs[i]) : e.name = <<"update_by", key>>
        BY <3>6
      <3>4. funcs[i] = "u"
        <4>1. \A a, b, x, y : <<a, x>> = <<b, y>> => a = b
          OBVIOUS
        <4> QED
          BY <3>3, <4>1, ByKeyNames
      <3>5. Function(<<"update_record">>, NamesOf(FieldsSet(t.fields)),
                     FormatsOf(FieldsSet(t.fields)), NamesOf(FieldsSet(t.fields)), {})
              \in Lone(t, funcs[i])
        BY <3>4 DEF Lone
      <3> QED
        BY <1>6, <3>5 DEF Function
    <2> QED
      BY <1>12, <2>1 DEF UpdatesRecord
  <1> QED
    BY <1>7, <1>8, <1>9, <1>11, <1>12

-----------------------------------------------------------------------------
(* fn writes the columns of the fields fs, which are some of the table's.    *)
Writes(fn, fs) == fn.cols = NamesOf(fs) /\ fn.args = NamesOf(fs) /\ fn.fmts = FormatsOf(fs)
Among(fs, left) ==
  /\ \A j \in DOMAIN fs : \E k \in DOMAIN Fields : fs[j] = Fields[k]
  /\ \A column \in Columns : column \in left <=> \A j \in DOMAIN fs : fs[j].name # column

LEMMA FieldsInAmong ==
  ASSUME RunInv
  PROVE  Among(FieldsIn(Fields), NoIns) /\ Among(FieldsSet(Fields), NoIns \cup NoUpd)
  <1>1. /\ Fields \in Seq(Field)
        /\ \A k \in DOMAIN Fields : Fields[k].name \in Columns /\ FieldOf(Fields[k].name) = Fields[k]
        /\ \A column \in Columns : FieldOfIs(column)
    BY FieldsApart
  <1>2. ASSUME NEW I, NEW left,
               \A column \in Columns : column \in left <=>
                  \A k \in DOMAIN Fields : Fields[k].name = column => k \notin I
        PROVE  Among(Kept(Fields, I), left)
    <2> DEFINE fs == Kept(Fields, I)
    <2>1. fs \in Seq(Field) /\ Keeps(Fields, I, Len(Fields), fs)
      BY <1>1, KeptIs
    <2>2. DOMAIN Fields = 1..Len(Fields)
      BY <1>1
    <2> HIDE DEF fs
    <2>3. /\ \A j \in DOMAIN fs : \E k \in DOMAIN Fields : k \in I /\ fs[j] = Fields[k]
          /\ \A k \in DOMAIN Fields : k \in I => \E j \in DOMAIN fs : fs[j] = Fields[k]
      BY <2>1, <2>2 DEF Keeps
    <2>4. ASSUME NEW column \in Columns
          PROVE  column \in left <=> \A j \in DOMAIN fs : fs[j].name # column
      BY <1>2, <2>3
    <2>5. \A j \in DOMAIN fs : \E k \in DOMAIN Fields : fs[j] = Fields[k]
      BY <2>3
    <2> QED
      BY <2>4, <2>5 DEF Among, fs
  <1>3. ASSUME NEW column \in Columns, NEW k \in DOMAIN Fields, Fields[k].name = column
        PROVE  (column \in NoIns <=> Fields[k].noins) /\ (column \in NoUpd <=> Fields[k].noupd)
    BY <1>1, <1>3 DEF FieldOfIs
  <1>4. \A column \in Columns : \E k \in DOMAIN Fields : Fields[k].name = column
    BY DEF Columns
  <1>5. Among(FieldsIn(Fields), NoIns)
    <2> DEFINE I == {k \in DOMAIN Fields : ~Fields[k].noins}
    <2>1. \A column \in Columns : column \in NoIns <=>
             \A k \in DOMAIN Fields : Fields[k].name = column => k \notin I
      BY <1>3, <1>4
    <2> HIDE DEF I
    <2> QED
      BY <1>2, <2>1 DEF FieldsIn, I
  <1>6. Among(FieldsSet(Fields), NoIns \cup NoUpd)
    <2> DEFINE I == {k \in DOMAIN Fields : ~Fields[k].noins /\ ~Fields[k].noupd}
    <2>1. \A column \in Columns : column \in NoIns \cup NoUpd <=>
             \A k \in DOMAIN Fields : Fields[k].name = column => k \notin I
      BY <1>3, <1>4
    <2> HIDE DEF I
    <2> QED
      BY <1>2, <2>1 DEF FieldsSet, I
  <1> QED
    BY <1>5, <1>6

(* What a statement puts into a row: the record where fn has the column and  *)
(* its format is for it, and what was there where fn has not.                *)
LEMMA PutIs ==
  ASSUME RunInv, rec \in [Columns -> Values \cup {"junk"}],
         NEW fn, NEW fs, NEW left, Writes(fn, fs), Among(fs, left), NEW row \in Row
  PROVE  /\ Put(fn, row) \in Row
         /\ \A column \in ExactOnes :
              Put(fn, row)[column] = IF column \in left THEN row[column] ELSE rec[column]
  <1>1. /\ \A k \in DOMAIN Fields : Fields[k].name \in Columns /\ FieldOf(Fields[k].name) = Fields[k]
        /\ \A column \in Columns : FieldOfIs(column)
    BY FieldsApart
  <1>2. /\ DOMAIN fn.cols = DOMAIN fs /\ DOMAIN fn.args = DOMAIN fs /\ DOMAIN fn.fmts = DOMAIN fs
        /\ \A j \in DOMAIN fs : /\ fn.cols[j] = fs[j].name /\ fn.args[j] = fs[j].name
                                /\ fn.fmts[j] = fs[j].pfmt
    BY DEF Writes, NamesOf, FormatsOf
  <1>3. ASSUME NEW column \in Columns, column \in Range(fn.cols)
        PROVE  Printed(fn, rec, Position(fn, column))
                 = IF Exact(FieldOf(column)) THEN rec[column] ELSE "junk"
    <2> DEFINE p == Position(fn, column)
    <2>1. p \in DOMAIN fn.cols /\ fn.cols[p] = column
      <3>1. \E k \in DOMAIN fn.cols : fn.cols[k] = column
        BY <1>3 DEF Range
      <3> QED
        BY <3>1 DEF Position
    <2> HIDE DEF p
    <2>2. PICK k \in DOMAIN Fields : fs[p] = Fields[k]
      BY <1>2, <2>1 DEF Among
    <2>3. FieldOf(column) = fs[p] /\ fn.args[p] = column /\ fn.fmts[p] = fs[p].pfmt
      BY <1>1, <1>2, <2>1, <2>2
    <2>4. Printed(fn, rec, p) = IF Exact(FieldOf(column)) THEN rec[column] ELSE "junk"
      BY <1>2, <2>1, <2>3 DEF Printed
    <2> QED
      BY <2>4 DEF p
  <1>4. \A column \in Columns : column \in Range(fn.cols) <=> column \notin left
    BY <1>2 DEF Among, Range
  <1> DEFINE new(column) == IF column \in Range(fn.cols)
                            THEN Printed(fn, rec, Position(fn, column)) ELSE row[column]
  <1>5. Put(fn, row) = [column \in Columns |-> new(column)]
    BY DEF Put
  <1>6. ASSUME NEW column \in Columns
        PROVE  /\ new(column) \in Datum
               /\ column \in ExactOnes =>
                    new(column) = IF column \in left THEN row[column] ELSE rec[column]
    <2>1. row[column] \in Datum /\ rec[column] \in Datum /\ "junk" \in Datum
      BY DEF Row, Datum
    <2>2. column \in ExactOnes <=> Exact(FieldOf(column))
      BY <1>1 DEF FieldOfIs
    <2> QED
      BY <1>3, <1>4, <2>1, <2>2
  <1>7. \A column \in ExactOnes : column \in Columns
    BY DEF ExactOnes, Columns
  <1> HIDE DEF new
  <1> QED
    BY <1>5, <1>6, <1>7 DEF Row

LEMMA InsertPuts ==
  ASSUME RunInv, rec \in [Columns -> Values \cup {"junk"}], Generated(<<"insert">>), NEW row \in Row
  PROVE  LET new == Put(Body(<<"insert">>), row)
         IN  /\ new \in Row
             /\ Agree(new, [column \in Columns |-> IF column \in NoIns THEN row[column]
                                                   ELSE rec[column]])
  <1>1. Writes(Body(<<"insert">>), FieldsIn(Fields)) /\ Among(FieldsIn(Fields), NoIns)
    BY BodyIs, FieldsInAmong DEF Writes
  <1>2. \A column \in ExactOnes : column \in Columns
    BY DEF ExactOnes, Columns
  <1> QED
    BY <1>1, <1>2, PutIs DEF Agree

LEMMA UpdatePuts ==
  ASSUME RunInv, rec \in [Columns -> Values \cup {"junk"}], UpdatesRecord, NEW row \in Row
  PROVE  LET new == Put(Body(<<"update_record">>), row)
         IN  /\ new \in Row
             /\ Agree(new, [column \in Columns |-> IF column \in NoIns \cup NoUpd THEN row[column]
                                                   ELSE rec[column]])
  <1>1. Writes(Body(<<"update_record">>), FieldsSet(Fields))
        /\ Among(FieldsSet(Fields), NoIns \cup NoUpd)
    BY BodyIs, FieldsInAmong DEF Writes
  <1>2. \A column \in ExactOnes : column \in Columns
    BY DEF ExactOnes, Columns
  <1> QED
    BY <1>1, <1>2, PutIs DEF Agree

(* The record that fetch_record reads is the row, NULL being nothing.        *)
LEMMA RecordShows ==
  ASSUME RunInv, Generated(<<"fetch_record">>), NEW row \in Row
  PROVE  /\ Record(Body(<<"fetch_record">>), row) = Shown(row)
         /\ Shown(row) \in [Columns -> Values \cup {"junk"}]
  <1>1. \A column \in Columns : column \in Range(Body(<<"fetch_record">>).cols)
    <2>1. Body(<<"fetch_record">>).cols = NamesOf(Fields)
      BY BodyIs
    <2> QED
      BY <2>1 DEF Range, NamesOf, Columns
  <1>2. \A column \in Columns : row[column] \in Datum
    BY DEF Row
  <1>3. Record(Body(<<"fetch_record">>), row)
          = [column \in Columns |-> IF row[column] # "null" THEN row[column] ELSE "0"]
    BY <1>1 DEF Record
  <1>4. Shown(row) \in [Columns -> Values \cup {"junk"}]
    BY <1>2, BoundsAssumption DEF Shown, Datum
  <1> QED
    BY <1>3, <1>4 DEF Shown

-----------------------------------------------------------------------------
(* What a step does, and what it leaves.                                     *)
Filled == [Columns -> Values \cup {"junk"}]
Cursor == [open : BOOLEAN, rest : Seq(Row)]
Leaves == rows' \in Seq(Row) /\ Len(rows') <= MaxRows /\ stmt' \in Cursor /\ rec' \in Filled
Holds == Leaves /\ Asked /\ ReadsRows

LEMMA PagesShow ==
  ASSUME TableInv
  PROVE  \A n \in 1..MaxRows : Pages(n) = rows
  BY PagesAreRows DEF TableInv

LEMMA ReaderAsked ==
  ASSUME UNCHANGED rows,
         last'.fn \notin {"insert", "update_record", "delete", "create", "update", "destroy"}
  PROVE  Asked
  BY DEF Asked

LEMMA FailedAsked ==
  ASSUME UNCHANGED rows, last'.ret # 0 \/ ~Described
  PROVE  Asked
  BY DEF Asked

LEMMA WriterReads ==
  ASSUME TableInv, UNCHANGED rec, last'.fn \notin {"fetch_record", "select_record"}
  PROVE  ReadsRows
  BY PagesShow DEF ReadsRows

(* A writing call that changes nothing, or leaves the rows it is to leave.   *)
LEMMA WriterHolds ==
  ASSUME TableInv, UNCHANGED <<stmt, rec>>, last'.fn \notin {"fetch_record", "select_record"},
         \/ UNCHANGED rows /\ (last'.ret # 0 \/ ~Described)
         \/ rows' \in Seq(Row) /\ Len(rows') <= MaxRows /\ Asked
  PROVE  Holds
  <1>1. stmt' \in Cursor /\ rec' \in Filled /\ rows \in Seq(Row) /\ Len(rows) <= MaxRows
    BY DEF TableInv, Cursor, Filled
  <1> QED
    BY <1>1, FailedAsked, WriterReads DEF Holds, Leaves

LEMMA ReaderHolds ==
  ASSUME TableInv, UNCHANGED rows, stmt' \in Cursor, rec' \in Filled, ReadsRows,
         last'.fn \notin {"insert", "update_record", "delete", "create", "update", "destroy"}
  PROVE  Holds
  <1>1. rows' \in Seq(Row) /\ Len(rows') <= MaxRows
    BY DEF TableInv
  <1> QED
    BY <1>1, ReaderAsked DEF Holds, Leaves

LEMMA FillHolds ==
  ASSUME TableInv, NEW new \in [Columns -> Values], Fill(new)
  PROVE  Holds
  <1>1. /\ UNCHANGED <<rows, stmt>> /\ rec' = new
        /\ last'.fn = "fill" /\ last'.ret = 0
    BY DEF Fill, Did
  <1>2. stmt' \in Cursor /\ rec' \in Filled
    BY <1>1 DEF TableInv, Cursor, Filled
  <1>3. ReadsRows
    BY <1>1, PagesShow DEF ReadsRows
  <1> QED
    BY <1>1, <1>2, <1>3, ReaderHolds

(* Statements that read.                                                     *)
LEMMA OpenedIs ==
  ASSUME TableInv, NEW clause, NEW ok
  PROVE  LET s == Opened(clause, ok)
         IN  /\ s.stmt \in Cursor
             /\ s.ret = 0 /\ Described => s.stmt.rest = Found(clause)
             /\ s.ret # 0 => s.stmt = stmt
  <1>1. Found(clause) \in Seq(Row)
    BY KeptIs DEF Found, TableInv
  <1>2. stmt \in Cursor
    BY DEF TableInv, Cursor
  <1>3. CASE ok /\ ~stmt.open /\ clause.blank /\ Described
    BY <1>1, <1>3 DEF Opened, Cursor
  <1>4. CASE ~(ok /\ ~stmt.open /\ clause.blank /\ Described)
    BY <1>2, <1>4 DEF Opened, Dberr
  <1> QED
    BY <1>3, <1>4

LEMMA FetchedIs ==
  ASSUME NEW s \in Cursor, NEW ok
  PROVE  LET f == Fetched(s, ok)
         IN  /\ f.stmt \in Cursor
             /\ f.ret = 0 /\ Described =>
                  /\ s.rest # <<>> /\ f.row = s.rest[1] /\ f.row \in Row
                  /\ f.stmt.rest = SubSeq(s.rest, 2, Len(s.rest))
  <1>1. s.rest \in Seq(Row) /\ s.open \in BOOLEAN
    BY DEF Cursor
  <1>2. CASE ok /\ s.open /\ s.rest # <<>> /\ Described
    <2>1. /\ Tail(s.rest) \in Seq(Row) /\ Head(s.rest) \in Row /\ Head(s.rest) = s.rest[1]
          /\ Tail(s.rest) = SubSeq(s.rest, 2, Len(s.rest))
      BY <1>1, <1>2, HeadTailProperties, TailIsSubSeq
    <2>2. [s EXCEPT !.rest = Tail(s.rest)] \in Cursor
          /\ [s EXCEPT !.rest = Tail(s.rest)].rest = Tail(s.rest)
      BY <1>1, <2>1 DEF Cursor
    <2>3. Fetched(s, ok).stmt = [s EXCEPT !.rest = Tail(s.rest)] /\ Fetched(s, ok).row = Head(s.rest)
      BY <1>2 DEF Fetched
    <2> QED
      BY <1>2, <2>1, <2>2, <2>3
  <1>3. CASE ~(ok /\ s.open /\ s.rest # <<>> /\ Described)
    BY <1>3 DEF Fetched, Dberr, NoData
  <1> QED
    BY <1>2, <1>3

LEMMA FetchedRecordIs ==
  ASSUME TableInv, RunInv, Generated(<<"fetch_record">>), NEW s \in Cursor, NEW ok
  PROVE  LET f == FetchedRecord(s, ok)
         IN  /\ f.stmt \in Cursor /\ f.rec \in Filled
             /\ f.ret = 0 /\ Described =>
                  /\ s.rest # <<>> /\ f.rec = Shown(s.rest[1])
                  /\ f.stmt.rest = SubSeq(s.rest, 2, Len(s.rest))
             /\ f.ret # 0 => f.rec = rec
  <1> DEFINE f == Fetched(s, ok)
  <1>1. /\ f.stmt \in Cursor
        /\ f.ret = 0 /\ Described =>
             /\ s.rest # <<>> /\ f.row = s.rest[1] /\ f.row \in Row
             /\ f.stmt.rest = SubSeq(s.rest, 2, Len(s.rest))
    BY FetchedIs
  <1>2. FetchedRecord(s, ok) =
          [stmt |-> IF f.ret # 0 THEN Closed ELSE f.stmt, ret |-> f.ret,
           rec |-> IF f.ret = 0 THEN Record(Body(<<"fetch_record">>), f.row) ELSE rec]
    BY DEF FetchedRecord
  <1>3. Closed \in Cursor /\ rec \in Filled
    BY DEF Closed, Cursor, TableInv, Filled
  <1> HIDE DEF f
  <1>4. CASE f.ret = 0 /\ Described
    <2>1. Record(Body(<<"fetch_record">>), f.row) = Shown(s.rest[1])
          /\ Shown(s.rest[1]) \in Filled
      BY <1>1, <1>4, RecordShows DEF Filled
    <2> QED
      BY <1>1, <1>2, <1>4, <2>1
  <1>5. CASE f.ret # 0
    BY <1>2, <1>3, <1>5
  <1>6. CASE f.ret = 0 /\ ~Described
    <2>1. Columns = {}
      BY <1>6 DEF Described, Columns
    <2>2. Record(Body(<<"fetch_record">>), f.row) \in Filled
      BY <2>1 DEF Record, Filled
    <2> QED
      BY <1>1, <1>2, <1>6, <2>2
  <1> QED
    BY <1>4, <1>5, <1>6

LEMMA FetchesHold ==
  ASSUME TableInv, RunInv, NEW clause, NEW ok
  PROVE  /\ Select(clause, ok) => Holds
         /\ Fetch(ok) => Holds
         /\ FetchRecord(ok) => Holds
  <1>0. stmt \in Cursor /\ rec \in Filled
    BY DEF TableInv, Cursor, Filled
  <1>1. ASSUME Select(clause, ok) PROVE Holds
    <2>1. /\ UNCHANGED <<rows, rec>> /\ last'.fn = "select"
          /\ stmt' = Opened(clause, ok).stmt
      BY <1>1 DEF Select, Reading, Did
    <2>2. stmt' \in Cursor
      BY <2>1, OpenedIs
    <2> QED
      BY <1>0, <2>1, <2>2, WriterReads, ReaderHolds
  <1>2. ASSUME Fetch(ok) PROVE Holds
    <2>1. /\ UNCHANGED <<rows, rec>> /\ last'.fn = "fetch"
          /\ stmt' = Fetched(stmt, ok).stmt
      BY <1>2 DEF Fetch, Reading, Did
    <2>2. stmt' \in Cursor
      BY <1>0, <2>1, FetchedIs
    <2> QED
      BY <1>0, <2>1, <2>2, WriterReads, ReaderHolds
  <1>3. ASSUME FetchRecord(ok) PROVE Holds
    <2> DEFINE f == FetchedRecord(stmt, ok)
    <2>1. /\ UNCHANGED rows /\ last'.fn = "fetch_record" /\ last'.ret = f.ret
          /\ stmt' = f.stmt /\ rec' = f.rec /\ Generated(<<"fetch_record">>)
      BY <1>3 DEF FetchRecord, Reading, Did
    <2>2. /\ f.stmt \in Cursor /\ f.rec \in Filled
          /\ f.ret = 0 /\ Described =>
               /\ stmt.rest # <<>> /\ f.rec = Shown(stmt.rest[1])
               /\ f.stmt.rest = SubSeq(stmt.rest, 2, Len(stmt.rest))
          /\ f.ret # 0 => f.rec = rec
      BY <1>0, <2>1, FetchedRecordIs
    <2> HIDE DEF f
    <2>3. ReadsRows
      BY <2>1, <2>2, PagesShow DEF ReadsRows
    <2> QED
      BY <2>1, <2>2, <2>3, ReaderHolds
  <1> QED
    BY <1>1, <1>2, <1>3

LEMMA SelectRecordHolds ==
  ASSUME TableInv, RunInv, NEW clause, NEW ok, NEW okFetch, SelectsRecord,
         SelectRecord(clause, ok, okFetch)
  PROVE  Holds
  <1> DEFINE s == Opened(clause, ok)
             f == FetchedRecord(s.stmt, okFetch)
             result == SelectedRecord(clause, ok, okFetch)
  <1>1. /\ UNCHANGED rows /\ last'.fn = "select_record" /\ last'.ret = result.ret
        /\ last'.given = clause /\ stmt' = result.stmt /\ rec' = result.rec
    BY DEF SelectRecord, Reading, Did
  <1>2. /\ s.stmt \in Cursor
        /\ s.ret = 0 /\ Described => s.stmt.rest = Found(clause)
    BY OpenedIs
  <1>3. /\ f.stmt \in Cursor /\ f.rec \in Filled
        /\ f.ret = 0 /\ Described => s.stmt.rest # <<>> /\ f.rec = Shown(s.stmt.rest[1])
        /\ f.ret # 0 => f.rec = rec
    <2>1. Generated(<<"fetch_record">>)
      BY BodyIs
    <2> QED
      BY <1>2, <2>1, FetchedRecordIs
  <1>4. Closed \in Cursor /\ rec \in Filled
    BY DEF Closed, Cursor, TableInv, Filled
  <1>5. /\ result.stmt \in Cursor /\ result.rec \in Filled
        /\ result.ret = 0 /\ Described =>
             Found(clause) # <<>> /\ result.rec = Shown(Found(clause)[1])
        /\ result.ret # 0 => result.rec = rec
    <2>0. result = IF s.ret # 0 THEN [stmt |-> s.stmt, ret |-> s.ret, rec |-> rec]
                   ELSE IF f.ret # 0 THEN f ELSE [f EXCEPT !.stmt = Closed]
      BY DEF SelectedRecord
    <2>1. /\ DOMAIN f = {"stmt", "ret", "rec"}
      BY DEF FetchedRecord
    <2> HIDE DEF s, f, result
    <2>2. CASE s.ret # 0
      BY <1>2, <1>4, <2>0, <2>2
    <2>3. CASE s.ret = 0 /\ f.ret # 0
      BY <1>3, <2>0, <2>3
    <2>4. CASE s.ret = 0 /\ f.ret = 0
      <3>1. result.stmt = Closed /\ result.ret = 0 /\ result.rec = f.rec
        BY <2>0, <2>1, <2>4
      <3> QED
        BY <1>2, <1>3, <1>4, <2>4, <3>1
    <2> QED
      BY <2>2, <2>3, <2>4
  <1>6. Found(clause) = Kept(rows, {k \in DOMAIN rows : Match(clause, rows[k])})
    BY DEF Found, Applies, Match
  <1> HIDE DEF s, f, result
  <1>7. ReadsRows
    BY <1>1, <1>5, <1>6, PagesShow DEF ReadsRows
  <1> QED
    BY <1>1, <1>5, <1>7, ReaderHolds

-----------------------------------------------------------------------------
(* Statements that write.                                                    *)
LEMMA AppendsRow ==
  ASSUME rows \in Seq(Row), Len(rows) < MaxRows, NEW row \in Row
  PROVE  Append(rows, row) \in Seq(Row) /\ Len(Append(rows, row)) <= MaxRows
  BY BoundsAssumption

(* Each row is kept or replaced where it is.                                 *)
LEMMA ReplacesRows ==
  ASSUME rows \in Seq(Row), NEW new, new = [k \in DOMAIN rows |-> new[k]],
         \A k \in DOMAIN rows : new[k] \in Row
  PROVE  SubSeq(new, 1, Len(new)) = new /\ new \in Seq(Row) /\ Len(new) = Len(rows)
  <1>1. DOMAIN rows = 1..Len(rows) /\ Len(rows) \in Nat
    OBVIOUS
  <1>2. new \in Seq(Row) /\ Len(new) = Len(rows)
    BY <1>1
  <1> QED
    BY <1>2

LEMMA KeepsRows ==
  ASSUME rows \in Seq(Row), Len(rows) <= MaxRows, NEW I
  PROVE  Kept(rows, I) \in Seq(Row) /\ Len(Kept(rows, I)) <= MaxRows
  <1>1. Kept(rows, I) \in Seq(Row) /\ Len(Kept(rows, I)) <= Len(rows)
    BY KeptIs DEF Keeps
  <1> QED
    BY <1>1, BoundsAssumption

LEMMA ExecutedIs ==
  ASSUME NEW ok, NEW new
  PROVE  LET e == Executed(ok, new)
         IN  \/ e.rows = rows /\ (e.ret # 0 \/ ~Described)
             \/ e.rows = new /\ e.ret = 0 /\ ok /\ Described
  BY DEF Executed, Dberr

LEMMA InsertHolds ==
  ASSUME TableInv, RunInv, NEW ok, Insert(ok)
  PROVE  Holds
  <1> DEFINE new == Put(Body(<<"insert">>), Nulls)
  <1>1. /\ UNCHANGED <<stmt, rec>> /\ last'.fn = "insert" /\ last'.ret = Inserted(ok).ret
        /\ rows' = Inserted(ok).rows /\ Generated(<<"insert">>) /\ Len(rows) < MaxRows
    BY DEF Insert, Writing, Did
  <1>2. \/ rows' = rows /\ (last'.ret # 0 \/ ~Described)
        \/ rows' = Append(rows, new) /\ last'.ret = 0 /\ Described
    BY <1>1, ExecutedIs DEF Inserted
  <1>3. /\ new \in Row
        /\ Agree(new, [column \in Columns |-> IF column \in NoIns THEN "null" ELSE rec[column]])
    <2>1. Nulls \in Row /\ \A column \in Columns : Nulls[column] = "null"
      BY DEF Nulls, Row, Datum
    <2>2. Agree(new, [column \in Columns |-> IF column \in NoIns THEN Nulls[column]
                                             ELSE rec[column]])
          /\ new \in Row
      BY <1>1, <2>1, InsertPuts DEF TableInv
    <2>3. \A column \in ExactOnes : column \in Columns
      BY DEF ExactOnes, Columns
    <2> QED
      BY <2>1, <2>2, <2>3 DEF Agree
  <1>4. CASE rows' = rows /\ (last'.ret # 0 \/ ~Described)
    BY <1>1, <1>4, WriterHolds
  <1>5. CASE rows' = Append(rows, new) /\ last'.ret = 0 /\ Described
    <2>1. rows' \in Seq(Row) /\ Len(rows') <= MaxRows
      BY <1>1, <1>3, <1>5, AppendsRow DEF TableInv
    <2>2. new \in [Columns -> Values \cup {"null", "junk"}]
      BY <1>3 DEF Row, Datum
    <2> HIDE DEF new
    <2>3. Asked
      BY <1>1, <1>3, <1>5, <2>2 DEF Asked
    <2> QED
      BY <1>1, <2>1, <2>3, WriterHolds
  <1> QED
    BY <1>2, <1>4, <1>5

LEMMA UpdateHolds ==
  ASSUME TableInv, RunInv, NEW clause, NEW ok, UpdatesRecord, UpdateRecord(clause, ok)
  PROVE  Holds
  <1> DEFINE put(row) == Put(Body(<<"update_record">>), row)
             new == [k \in DOMAIN rows |-> IF Applies(clause, rows[k]) THEN put(rows[k]) ELSE rows[k]]
             set(row) == [column \in Columns |->
                            IF column \in NoIns \cup NoUpd THEN row[column] ELSE rec[column]]
  <1>1. /\ UNCHANGED <<stmt, rec>> /\ last'.fn = "update_record"
        /\ last'.ret = Updated(clause, ok).ret
        /\ last'.given = clause /\ rows' = Updated(clause, ok).rows
    BY DEF UpdateRecord, Writing, Did
  <1>2. \/ rows' = rows /\ (last'.ret # 0 \/ ~Described)
        \/ rows' = SubSeq(new, 1, Len(new)) /\ last'.ret = 0 /\ Described
    BY <1>1, ExecutedIs DEF Updated
  <1>3. ASSUME NEW k \in DOMAIN rows
        PROVE  put(rows[k]) \in Row /\ Agree(put(rows[k]), set(rows[k])) /\ rows[k] \in Row
    <2>1. rows[k] \in Row
      BY DEF TableInv
    <2> QED
      BY <2>1, UpdatePuts DEF TableInv
  <1> HIDE DEF put, set
  <1>4. SubSeq(new, 1, Len(new)) = new /\ new \in Seq(Row) /\ Len(new) = Len(rows)
    <2>1. \A k \in DOMAIN rows : new[k] \in Row
      BY <1>3
    <2>2. new = [k \in DOMAIN rows |-> new[k]]
      OBVIOUS
    <2> HIDE DEF new
    <2> QED
      BY <2>1, <2>2, ReplacesRows DEF TableInv
  <1>5. CASE rows' = rows /\ (last'.ret # 0 \/ ~Described)
    BY <1>1, <1>5, WriterHolds
  <1>6. CASE rows' = SubSeq(new, 1, Len(new)) /\ last'.ret = 0 /\ Described
    <2>1. rows' = new /\ rows' \in Seq(Row) /\ Len(rows') <= MaxRows
      BY <1>4, <1>6 DEF TableInv
    <2>2. \A k \in DOMAIN rows : IF Match(clause, rows[k]) THEN Agree(rows'[k], set(rows[k]))
                                 ELSE rows'[k] = rows[k]
      BY <1>3, <2>1 DEF Match, Applies
    <2>3. Len(rows') = Len(rows)
      BY <1>4, <2>1
    <2>4. Asked
      <3> HIDE DEF new
      <3> QED
        BY <1>1, <1>6, <2>2, <2>3 DEF Asked, set
    <2> QED
      BY <1>1, <2>1, <2>4, WriterHolds
  <1> QED
    BY <1>2, <1>5, <1>6

LEMMA DeleteHolds ==
  ASSUME TableInv, NEW clause, NEW ok, Delete(clause, ok)
  PROVE  Holds
  <1>1. /\ UNCHANGED <<stmt, rec>> /\ last'.fn = "delete" /\ last'.ret = Deleted(clause, ok).ret
        /\ last'.given = clause /\ rows' = Deleted(clause, ok).rows
    BY DEF Delete, Writing, Did
  <1>2. \/ rows' = rows /\ (last'.ret # 0 \/ ~Described)
        \/ rows' = Without(clause) /\ last'.ret = 0 /\ Described
    <2>1. Without(clause) = Kept(rows, {k \in DOMAIN rows : ~Applies(clause, rows[k])})
      BY DEF Without, Match, Applies
    <2> QED
      BY <1>1, <2>1, ExecutedIs DEF Deleted
  <1>3. Without(clause) \in Seq(Row) /\ Len(Without(clause)) <= MaxRows
    BY KeepsRows DEF Without, TableInv
  <1>4. rows' = Without(clause) /\ last'.ret = 0 /\ Described => Asked
    BY <1>1 DEF Asked
  <1> QED
    BY <1>1, <1>2, <1>3, <1>4, WriterHolds

-----------------------------------------------------------------------------
(* Requests to the script.                                                   *)
LEMMA OdbcIs ==
  ASSUME NEW ok, NEW new
  PROVE  LET e == Odbc(ok, new)
         IN  \/ e.rows = rows /\ e.ret # 0
             \/ e.rows = new /\ e.ret = 0 /\ ok
  BY DEF Odbc

LEMMA ScriptIs ==
  ASSUME RunInv, run.script.whole
  PROVE  run.script.creates = "patch_actions" /\ DOMAIN run.script.fields = DOMAIN Fields
  <1>1. PICK call \in Calls : IsRun(call)
    BY DEF RunInv
  <1>2. run.script = WritePhpSrc(TableOf(call), ReqFuncs("php", call.args.funcs))
        /\ Fields = TableOf(call).fields
    BY <1>1, RunIs
  <1> DEFINE t == TableOf(call)
             php == PhpActions(ReqFuncs("php", call.args.funcs))
             whole == [whole |-> TRUE,
                       fields |-> [k \in DOMAIN t.fields |-> t.fields[k].name],
                       kinds |-> [k \in DOMAIN t.fields |-> PhpKind(t.fields[k].type)],
                       table |-> t.name, creates |-> "patch_actions",
                       key |-> IF t.keys = <<>> THEN "" ELSE t.keys[1].name,
                       actions |-> php]
  <1>3. run.script = [whole |-> FALSE] \/ run.script = whole
    BY <1>2 DEF WritePhpSrc
  <1>4. [whole |-> FALSE].whole = FALSE /\ whole.creates = "patch_actions"
        /\ whole.fields = [k \in DOMAIN t.fields |-> t.fields[k].name]
    BY Zenon
  <1> HIDE DEF whole, t
  <1>5. DOMAIN [k \in DOMAIN t.fields |-> t.fields[k].name] = DOMAIN t.fields
    OBVIOUS
  <1> QED
    BY <1>2, <1>3, <1>4, <1>5 DEF t

LEMMA ReadHolds ==
  ASSUME TableInv, NEW sort, NEW dir, NEW ok, PhpRead(sort, dir, ok)
  PROVE  Holds
  <1>1. UNCHANGED <<rows, stmt, rec>> /\ last'.fn = "read"
    BY DEF PhpRead, Did
  <1>2. stmt' \in Cursor /\ rec' \in Filled
    BY <1>1 DEF TableInv, Cursor, Filled
  <1> QED
    BY <1>1, <1>2, WriterReads, ReaderHolds

LEMMA CreateHolds ==
  ASSUME TableInv, RunInv, NEW given \in SUBSET Columns, NEW ok, PhpCreate(given, ok)
  PROVE  Holds
  <1> DEFINE row == [column \in Columns |-> IF column \in given THEN rec[column] ELSE "null"]
  <1>1. /\ UNCHANGED <<stmt, rec>> /\ last'.fn = "create" /\ last'.ret = DoCreate(given, ok).ret
        /\ last'.given = given /\ rows' = DoCreate(given, ok).rows /\ Len(rows) < MaxRows /\ run.script.whole
    BY DEF PhpCreate, Writing, Did, Answers, Script
  <1>2. run.script.creates = "patch_actions"
    BY <1>1, ScriptIs
  <1>3. \/ rows' = rows /\ last'.ret # 0
        \/ /\ rows' = IF run.script.table = "patch_actions" THEN Append(rows, row) ELSE rows
           /\ last'.ret = 0 /\ given # {}
    BY <1>1, <1>2, OdbcIs DEF DoCreate, Script
  <1>4. row \in Row
    BY DEF TableInv, Row, Datum
  <1>5. Append(rows, row) \in Seq(Row) /\ Len(Append(rows, row)) <= MaxRows
        /\ rows \in Seq(Row) /\ Len(rows) <= MaxRows
    BY <1>1, <1>4, AppendsRow DEF TableInv
  <1>6. ASSUME rows' = IF run.script.table = "patch_actions" THEN Append(rows, row) ELSE rows,
               last'.ret = 0, given # {}
        PROVE  Asked
    <2>1. Described
      BY <1>6 DEF Described, Columns
    <2> HIDE DEF row
    <2> QED
      BY <1>1, <1>6, <2>1 DEF Asked, row
  <1> QED
    BY <1>1, <1>3, <1>5, <1>6, WriterHolds

LEMMA SetHolds ==
  ASSUME TableInv, NEW given \in SUBSET Columns, NEW ok, PhpUpdate(given, ok)
  PROVE  Holds
  <1> DEFINE key == run.script.key
             set(row) == [column \in Columns |-> IF column \in given THEN rec[column] ELSE row[column]]
             new == [k \in DOMAIN rows |-> IF rows[k][key] = rec[key] THEN set(rows[k]) ELSE rows[k]]
  <1>1. /\ UNCHANGED <<stmt, rec>> /\ last'.fn = "update" /\ last'.ret = DoUpdate(given, ok).ret
        /\ last'.given = given /\ rows' = DoUpdate(given, ok).rows
    BY DEF PhpUpdate, Writing, Did
  <1>2. \/ rows' = rows /\ last'.ret # 0
        \/ rows' = SubSeq(new, 1, Len(new)) /\ last'.ret = 0 /\ Described
    <2> DEFINE news == SubSeq(new, 1, Len(new))
               can == ok /\ Script.key \in given /\ KeyIsNumber
    <2>1. DoUpdate(given, ok) = Odbc(can, news) /\ (can => given # {})
      <3>1. DoUpdate(given, ok) = Odbc(can, news)
        BY Zenon DEF DoUpdate, Script
      <3>2. can => given # {}
        OBVIOUS
      <3> QED
        BY Zenon, <3>1, <3>2
    <2> HIDE DEF new, news
    <2>2. \/ DoUpdate(given, ok).rows = rows /\ DoUpdate(given, ok).ret # 0
          \/ DoUpdate(given, ok).rows = news /\ DoUpdate(given, ok).ret = 0 /\ given # {}
      BY ONLY <2>1 DEF Odbc
    <2>3. given # {} => Described
      BY DEF Described, Columns
    <2> QED
      BY <1>1, <2>2, <2>3 DEF news
  <1>3. ASSUME NEW k \in DOMAIN rows
        PROVE  /\ set(rows[k]) \in Row /\ rows[k] \in Row
               /\ \A column \in Columns :
                    set(rows[k])[column] = IF column \in given THEN rec[column] ELSE rows[k][column]
    <2>1. rows[k] \in Row
      BY DEF TableInv
    <2> QED
      BY <2>1 DEF TableInv, Row, Datum
  <1> HIDE DEF set
  <1>4. SubSeq(new, 1, Len(new)) = new /\ new \in Seq(Row) /\ Len(new) = Len(rows)
    <2>1. \A k \in DOMAIN rows : new[k] \in Row
      BY <1>3
    <2>2. new = [k \in DOMAIN rows |-> new[k]]
      OBVIOUS
    <2> HIDE DEF new
    <2> QED
      BY <2>1, <2>2, ReplacesRows DEF TableInv
  <1>5. CASE rows' = rows /\ last'.ret # 0
    BY <1>1, <1>5, WriterHolds
  <1>6. CASE rows' = SubSeq(new, 1, Len(new)) /\ last'.ret = 0 /\ Described
    <2>1. rows' = new /\ rows' \in Seq(Row) /\ Len(rows') <= MaxRows
      BY <1>4, <1>6 DEF TableInv
    <2>2. \A k \in DOMAIN rows, column \in Columns :
            rows'[k][column] = IF column \in given /\ rows[k][key] = rec[key]
                               THEN rec[column] ELSE rows[k][column]
      BY <1>3, <2>1
    <2>3. Len(rows') = Len(rows)
      BY <1>4, <2>1
    <2>4. Asked
      <3> HIDE DEF new
      <3> QED
        BY <1>1, <1>6, <2>2, <2>3 DEF Asked
    <2> QED
      BY <1>1, <2>1, <2>4, WriterHolds
  <1> QED
    BY <1>2, <1>5, <1>6

LEMMA DestroyHolds ==
  ASSUME TableInv, RunInv, NEW keys, NEW isList, NEW ok, Range(keys) \subseteq Values,
         PhpDestroy(keys, isList, ok)
  PROVE  Holds
  <1> DEFINE new == Kept(rows, {k \in DOMAIN rows : rows[k][run.script.key] \notin Range(keys)})
  <1>1. /\ UNCHANGED <<stmt, rec>> /\ last'.fn = "destroy"
        /\ last'.ret = DoDestroy(keys, isList, ok).ret
        /\ last'.given = keys /\ rows' = DoDestroy(keys, isList, ok).rows
        /\ run.script.whole
    BY DEF PhpDestroy, Writing, Did, Answers, Script
  <1>2. \/ rows' = rows /\ last'.ret # 0
        \/ rows' = new /\ last'.ret = 0 /\ KeyIsNumber
    BY <1>1, OdbcIs DEF DoDestroy, Script
  <1>3. new \in Seq(Row) /\ Len(new) <= MaxRows
    BY KeepsRows DEF TableInv
  <1>4. ASSUME rows' = new, last'.ret = 0, KeyIsNumber PROVE Asked
    <2>1. Described
      <3>1. DOMAIN run.script.fields = DOMAIN Fields
        BY <1>1, ScriptIs
      <3> QED
        BY <1>4, <3>1 DEF KeyIsNumber, Script, Described
    <2> HIDE DEF new
    <2> QED
      BY <1>1, <1>4, <2>1 DEF Asked, new
  <1> QED
    BY <1>1, <1>2, <1>3, <1>4, WriterHolds

-----------------------------------------------------------------------------
(* Every step keeps the types, does what it is asked and shows what is       *)
(* there.                                                                    *)
LEMMA NextHolds ==
  ASSUME IInv, Next
  PROVE  Holds
  <1>1. TableInv /\ RunInv
    BY DEF IInv
  <1> QED
    BY Zenon, <1>1, NextIs, FillHolds, FetchesHold, SelectRecordHolds, InsertHolds, UpdateHolds,
       DeleteHolds, ReadHolds, CreateHolds, SetHolds, DestroyHolds

LEMMA InitInv == Init => IInv
  <1> SUFFICES ASSUME Init PROVE IInv
    OBVIOUS
  <1>1. RunInv
    BY DEF Init, RunInv, IsRun
  <1>2. rows = <<>> /\ stmt = Closed /\ rec = [column \in Columns |-> "0"]
    BY DEF Init
  <1>3. TableInv
    BY <1>2, BoundsAssumption DEF TableInv, Closed
  <1> QED
    BY <1>1, <1>3 DEF IInv

LEMMA StepInv == IInv /\ [Next]_vars => IInv'
  <1> SUFFICES ASSUME IInv, [Next]_vars PROVE IInv'
    OBVIOUS
  <1>1. run' = run
    BY NextKeepsRun DEF vars
  <1>2. RunInv'
    BY <1>1 DEF IInv, RunInv, IsRun
  <1>3. Columns' = Columns /\ Row' = Row
    BY <1>1 DEF Columns, Fields, Row, Datum
  <1>4. CASE Next
    <2>1. Leaves
      BY <1>4, NextHolds DEF Holds
    <2> QED
      BY <1>2, <1>3, <2>1 DEF IInv, TableInv, Leaves, Cursor, Filled
  <1>5. CASE UNCHANGED vars
    BY <1>2, <1>3, <1>5 DEF IInv, TableInv, vars
  <1> QED
    BY <1>4, <1>5

(* The inductive invariant: the program and the script are those of one      *)
(* command line, and the table, the cursor and the record are of its         *)
(* columns.                                                                  *)
LEMMA Invariance == Spec => []IInv
  BY InitInv, StepInv, PTL DEF Spec

(* The table never has more rows than fit, its rows, the open cursor and the *)
(* record have exactly the columns that gendb read (info.c), and a record    *)
(* that the generated functions filled holds no NULL.                        *)
THEOREM TableIsTyped == Spec => []TableInv
  <1>1. IInv => TableInv
    BY DEF IInv
  <1> QED
    BY <1>1, Invariance, PTL

(* Whatever gendb was asked to write, a call of a generated function         *)
(* (out_c.c) and a request to the script (out_php.c) changes the table as it *)
(* is called: an insert adds the record without the columns of -i, an update *)
(* sets those that -i and -n leave it, in the rows of its clause and nowhere *)
(* else, a delete removes these; a request to update sets the columns given  *)
(* in the rows with its key and one to destroy removes those with its keys,  *)
(* a create adds the columns given where the table is patch_actions; a call  *)
(* that fails, one that reads and any for a table without columns change     *)
(* nothing, whichever statements the database refuses.                       *)
THEOREM CallsDoAsAsked == Spec => AsAsked
  <1>1. IInv /\ [Next]_vars => [Asked]_vars
    BY NextHolds DEF Holds
  <1> QED
    BY <1>1, Invariance, PTL DEF Spec, AsAsked

(* A record that fetch_record or select_record (out_c.c) reads is the next   *)
(* row of the cursor, or the first of the clause, NULL cleared; an error     *)
(* leaves the record alone; and the pages of the script (do_read in          *)
(* out_php.c), asked for one after the other with any limit, are the table.  *)
THEOREM ReadsShowRows == Spec => ReadsAreRows
  <1>1. IInv /\ [Next]_vars => [ReadsRows]_vars
    BY NextHolds DEF Holds
  <1> QED
    BY <1>1, Invariance, PTL DEF Spec, ReadsAreRows

-----------------------------------------------------------------------------
(* The cursor of the statement.                                              *)
Statement(s) == s = [open |-> s.open, rest |-> s.rest] /\ s.open \in BOOLEAN

LEMMA ClosedIsStatement == Statement(Closed) /\ ~Closed.open
  BY DEF Statement, Closed

LEMMA OpenedStatement ==
  ASSUME Statement(stmt), NEW clause, NEW ok
  PROVE  /\ Statement(Opened(clause, ok).stmt)
         /\ Opened(clause, ok).ret # 0 => Opened(clause, ok).stmt = stmt
  <1>1. CASE ok /\ ~stmt.open /\ clause.blank /\ Described
    BY <1>1 DEF Opened, Statement
  <1>2. CASE ~(ok /\ ~stmt.open /\ clause.blank /\ Described)
    BY <1>2 DEF Opened
  <1> QED
    BY <1>1, <1>2

LEMMA RestOf ==
  ASSUME NEW s, s = [open |-> s.open, rest |-> s.rest], NEW rest
  PROVE  [s EXCEPT !.rest = rest] = [open |-> s.open, rest |-> rest]
  OBVIOUS

LEMMA FetchedStatement ==
  ASSUME NEW s, Statement(s), NEW ok
  PROVE  Statement(Fetched(s, ok).stmt) /\ Fetched(s, ok).stmt.open = s.open
  <1>1. CASE ok /\ s.open /\ s.rest # <<>> /\ Described
    <2>1. Fetched(s, ok).stmt = [s EXCEPT !.rest = Tail(s.rest)]
      BY <1>1 DEF Fetched
    <2>2. s = [open |-> s.open, rest |-> s.rest]
      BY DEF Statement
    <2>3. [s EXCEPT !.rest = Tail(s.rest)] = [open |-> s.open, rest |-> Tail(s.rest)]
      BY ONLY <2>2, RestOf
    <2> QED
      BY <2>1, <2>3 DEF Statement
  <1>2. CASE ~(ok /\ s.open /\ s.rest # <<>> /\ Described)
    BY <1>2 DEF Fetched
  <1> QED
    BY <1>1, <1>2

LEMMA FetchedRecordStatement ==
  ASSUME NEW s, Statement(s), NEW ok
  PROVE  /\ Statement(FetchedRecord(s, ok).stmt)
         /\ FetchedRecord(s, ok).stmt.open => s.open
         /\ FetchedRecord(s, ok).ret # 0 => ~FetchedRecord(s, ok).stmt.open
  BY FetchedStatement, ClosedIsStatement DEF FetchedRecord

LEMMA SelectedRecordStatement ==
  ASSUME Statement(stmt), NEW clause, NEW ok, NEW okFetch
  PROVE  /\ Statement(SelectedRecord(clause, ok, okFetch).stmt)
         /\ SelectedRecord(clause, ok, okFetch).stmt.open => stmt.open
  <1> DEFINE s == Opened(clause, ok)
             f == FetchedRecord(s.stmt, okFetch)
  <1>1. CASE s.ret # 0
    BY <1>1, OpenedStatement DEF SelectedRecord
  <1>2. CASE s.ret = 0 /\ f.ret # 0
    <2>1. SelectedRecord(clause, ok, okFetch) = f
      BY <1>2 DEF SelectedRecord
    <2>2. Statement(s.stmt)
      BY OpenedStatement
    <2> QED
      BY <1>2, <2>1, <2>2, FetchedRecordStatement
  <1>3. CASE s.ret = 0 /\ f.ret = 0
    <2>1. SelectedRecord(clause, ok, okFetch).stmt = Closed
      BY <1>3 DEF SelectedRecord, FetchedRecord
    <2> QED
      BY <2>1, ClosedIsStatement
  <1> QED
    BY <1>1, <1>2, <1>3

-----------------------------------------------------------------------------
(* What one call does to the cursor.                                         *)
Frees ==
  /\ Statement(stmt)'
  /\ stmt'.open => stmt.open \/ last'.fn = "select"
  /\ last'.fn = "fetch_record" /\ last'.ret # 0 => ~stmt'.open

LEMMA ReadingFrees ==
  ASSUME Statement(stmt), NEW clause, NEW ok, NEW okFetch
  PROVE  /\ Select(clause, ok) => Frees
         /\ Fetch(ok) => Frees
         /\ FetchRecord(ok) => Frees
         /\ SelectRecord(clause, ok, okFetch) => Frees
  <1>1. Select(clause, ok) => Frees
    BY OpenedStatement DEF Select, Reading, Did, Frees, Statement
  <1>2. Fetch(ok) => Frees
    <2> SUFFICES ASSUME Fetch(ok) PROVE Frees
      OBVIOUS
    <2>1. stmt' = Fetched(stmt, ok).stmt /\ last'.fn = "fetch"
      BY DEF Fetch, Reading, Did
    <2>2. Statement(Fetched(stmt, ok).stmt) /\ Fetched(stmt, ok).stmt.open = stmt.open
      BY FetchedStatement
    <2> QED
      BY <2>1, <2>2 DEF Frees, Statement
  <1>3. FetchRecord(ok) => Frees
    <2> SUFFICES ASSUME FetchRecord(ok) PROVE Frees
      OBVIOUS
    <2> DEFINE f == FetchedRecord(stmt, ok)
    <2>1. stmt' = f.stmt /\ last'.fn = "fetch_record" /\ last'.ret = f.ret
      BY DEF FetchRecord, Reading, Did
    <2>2. Statement(f.stmt) /\ (f.stmt.open => stmt.open) /\ (f.ret # 0 => ~f.stmt.open)
      BY FetchedRecordStatement
    <2> HIDE DEF f
    <2> QED
      BY <2>1, <2>2 DEF Frees, Statement
  <1>4. SelectRecord(clause, ok, okFetch) => Frees
    <2> SUFFICES ASSUME SelectRecord(clause, ok, okFetch) PROVE Frees
      OBVIOUS
    <2> DEFINE f == SelectedRecord(clause, ok, okFetch)
    <2>1. stmt' = f.stmt /\ last'.fn = "select_record"
      BY DEF SelectRecord, Reading, Did
    <2>2. Statement(f.stmt) /\ (f.stmt.open => stmt.open)
      BY SelectedRecordStatement
    <2> HIDE DEF f
    <2> QED
      BY <2>1, <2>2 DEF Frees, Statement
  <1> QED
    BY <1>1, <1>2, <1>3, <1>4

LEMMA WritingFrees ==
  ASSUME Statement(stmt), UNCHANGED stmt, last'.fn # "fetch_record"
  PROVE  Frees
  BY DEF Frees, Statement

LEMMA NextFrees ==
  ASSUME Statement(stmt), Next
  PROVE  Frees
  <1>1. ASSUME UNCHANGED stmt, last'.fn # "fetch_record" PROVE Frees
    BY <1>1, WritingFrees
  <1>2. ASSUME NEW new, Fill(new) PROVE Frees
    BY <1>1, <1>2 DEF Fill, Did
  <1>3. ASSUME NEW ok, Insert(ok) PROVE Frees
    BY <1>1, <1>3 DEF Insert, Writing, Did
  <1>4. ASSUME NEW clause, NEW ok, UpdateRecord(clause, ok) \/ Delete(clause, ok) PROVE Frees
    BY <1>1, <1>4 DEF UpdateRecord, Delete, Writing, Did
  <1>5. ASSUME NEW sort, NEW dir, NEW ok, PhpRead(sort, dir, ok) PROVE Frees
    BY <1>1, <1>5 DEF PhpRead, Did
  <1>6. ASSUME NEW given, NEW ok, PhpCreate(given, ok) \/ PhpUpdate(given, ok) PROVE Frees
    BY <1>1, <1>6 DEF PhpCreate, PhpUpdate, Writing, Did
  <1>7. ASSUME NEW keys, NEW isList, NEW ok, PhpDestroy(keys, isList, ok) PROVE Frees
    BY <1>1, <1>7 DEF PhpDestroy, Writing, Did
  <1> QED
    BY Zenon, <1>2, <1>3, <1>4, <1>5, <1>6, <1>7, NextIs, ReadingFrees

(* Of all that gendb writes only select leaves an open cursor, in whatever   *)
(* order its functions are called and whichever statement fails, and the     *)
(* fetch_record that ends a loop closes it: an open one lets no other        *)
(* statement through.                                                        *)
THEOREM CursorFreed == Spec => CursorIsFreed
  <1>1. Init => Statement(stmt)
    BY ClosedIsStatement DEF Init
  <1>2. Statement(stmt) /\ [Next]_vars => Statement(stmt)'
    <2> SUFFICES ASSUME Statement(stmt), [Next]_vars PROVE Statement(stmt)'
      OBVIOUS
    <2>1. CASE Next
      BY <2>1, NextFrees DEF Frees
    <2>2. CASE UNCHANGED vars
      BY <2>2 DEF vars, Statement
    <2> QED
      BY <2>1, <2>2
  <1>3. Statement(stmt) /\ [Next]_vars =>
          [/\ stmt'.open => stmt.open \/ last'.fn = "select"
           /\ last'.fn = "fetch_record" /\ last'.ret # 0 => ~stmt'.open]_vars
    BY NextFrees DEF Frees
  <1> QED
    BY <1>1, <1>2, <1>3, PTL DEF Spec, CursorIsFreed
=============================================================================
