---------------------------- MODULE InputsProofs ----------------------------
(* Theorems about the properties of Inputs, for inputs of any length and for *)
(* any data.  src/util/encode.c and encrypt.c: what was encoded and encrypted*)
(* is what comes back.  vg.c of src/xplist and src/luninfo: every path shows *)
(* the volume group that vgdisplay puts it in.  src/util/fdutils.c and       *)
(* socket.c: what is read does not depend on how it arrives, and what is     *)
(* reported as sent was sent.                                                *)
(*                                                                           *)
(* A program is a FoldLeft over its input; the library folds over the set of *)
(* the places, from the greatest down.  First it is shown that a fold is a   *)
(* run from left to right, so that it can be reasoned about by induction on  *)
(* the input; then what each step does to the pending bits; then that reader *)
(* and writer stay in step.                                                  *)
EXTENDS Inputs, FiniteSetTheorems, SequenceTheorems, WellFoundedInduction, TLAPS

(* Induction over the naturals, stated of a set of numbers.                  *)
LEMMA LeastElement ==
  ASSUME NEW T \in SUBSET Nat, T # {}
  PROVE  \E m \in T : \A n \in T : m <= n
  <1> DEFINE Less == {r \in Nat \X Nat : r[1] < r[2]}
  <1>1. IsWellFoundedOn(Less, Nat)
    BY NatLessThanWellFounded DEF OpToRel
  <1>2. PICK m \in T : \A n \in T : <<n, m>> \notin Less
    BY ONLY <1>1, WFMin, T \in SUBSET Nat, T # {}, Zenon
  <1>3. \A n \in T : <<n, m>> \notin Less => m <= n
    OBVIOUS
  <1> HIDE DEF Less
  <1> QED
    BY <1>2, <1>3, Zenon

LEMMA SetInduction ==
  ASSUME NEW S, 0 \in S, \A n \in Nat : n \in S => n + 1 \in S
  PROVE  Nat \subseteq S
  <1> SUFFICES ASSUME Nat \ S # {} PROVE FALSE
    OBVIOUS
  <1>1. PICK m \in Nat \ S : \A n \in Nat \ S : m <= n
    BY LeastElement, Zenon
  <1>2. m - 1 \in Nat
    BY <1>1
  <1> QED
    BY <1>1, <1>2

-----------------------------------------------------------------------------
(* A fold from the left is a run: its contexts, one for every prefix.        *)

LEMMA MaxOfSet ==
  ASSUME NEW n \in Nat, NEW T \in SUBSET (1..n), T # {}
  PROVE  Max(T) \in T /\ \A x \in T : x <= Max(T)
  <1> DEFINE Gap == {k \in Nat : n - k \in T}
  <1>1. \A x \in T : x \in Int /\ n - x \in Nat /\ n - (n - x) = x
    OBVIOUS
  <1>2. \A x \in T : n - x \in Gap
    BY <1>1
  <1>3. PICK k \in Gap : \A m \in Gap : k <= m
    BY <1>2, LeastElement, Zenon
  <1>4. n - k \in T /\ \A x \in T : n - k >= x
    <2>1. \A x \in T : k <= n - x
      BY <1>2, <1>3
    <2> QED
      BY <1>1, <1>3, <2>1
  <1> QED
    BY <1>1, <1>4, Zenon DEF Max

(* it gives every set of places the context after them, the last one last.   *)
Turns(f, base, n, it) ==
  it = [T \in SUBSET (1..n) |-> IF T = {} THEN base ELSE f[Max(T)][it[T \ {Max(T)}]]]

HasTurns(C, f, base, n) == \E it \in [SUBSET (1..n) -> C] : Turns(f, base, n, it)

LEMMA TurnsExist ==
  ASSUME NEW C, NEW base \in C, NEW n \in Nat, NEW f \in [1..n -> [C -> C]]
  PROVE  HasTurns(C, f, base, n)
  <1> DEFINE Good == {m \in Nat : m <= n => HasTurns(C, f, base, m)}
  <1>1. 0 \in Good
    <2> DEFINE it == [T \in SUBSET (1..0) |-> base]
    <2>1. \A T \in SUBSET (1..0) : T = {}
      OBVIOUS
    <2>2. it \in [SUBSET (1..0) -> C] /\ Turns(f, base, 0, it)
      BY <2>1 DEF Turns
    <2> QED
      BY <2>2 DEF HasTurns
  <1>2. ASSUME NEW m \in Nat, m \in Good PROVE m + 1 \in Good
    <2> SUFFICES ASSUME m + 1 <= n
                 PROVE  HasTurns(C, f, base, m + 1)
      OBVIOUS
    <2>1. PICK it \in [SUBSET (1..m) -> C] : Turns(f, base, m, it)
      <3>1. HasTurns(C, f, base, m)
        BY <1>2
      <3> QED
        BY <3>1 DEF HasTurns
    <2> DEFINE new == [T \in SUBSET (1 .. m + 1) |->
                         IF m + 1 \in T THEN f[m + 1][it[T \ {m + 1}]] ELSE it[T]]
    <2>2. f[m + 1] \in [C -> C]
      OBVIOUS
    <2>3. \A T \in SUBSET (1 .. m + 1) :
            /\ T \ {m + 1} \in SUBSET (1..m)
            /\ m + 1 \notin T => T \in SUBSET (1..m)
      OBVIOUS
    <2>4. new \in [SUBSET (1 .. m + 1) -> C]
      BY <2>1, <2>2, <2>3
    <2>5. \A T \in SUBSET (1..m) : new[T] = it[T]
      <3>1. \A T \in SUBSET (1..m) : T \in SUBSET (1 .. m + 1) /\ m + 1 \notin T
        OBVIOUS
      <3> QED
        BY <3>1
    <2>6. ASSUME NEW T \in SUBSET (1 .. m + 1)
          PROVE  new[T] = IF T = {} THEN base ELSE f[Max(T)][new[T \ {Max(T)}]]
      <3>1. CASE m + 1 \in T
        <4>1. Max(T) = m + 1
          <5>1. Max(T) \in T /\ \A x \in T : x <= Max(T)
            BY <3>1, MaxOfSet, m + 1 \in Nat
          <5>2. Max(T) \in 1 .. m + 1 /\ m + 1 <= Max(T)
            BY <3>1, <5>1, Zenon
          <5> QED
            BY <5>2
        <4>2. new[T] = f[m + 1][it[T \ {m + 1}]]
          BY <3>1
        <4>3. new[T \ {m + 1}] = it[T \ {m + 1}]
          BY <2>3, <2>5
        <4> HIDE DEF new
        <4> QED
          BY <3>1, <4>1, <4>2, <4>3
      <3>2. CASE m + 1 \notin T
        <4>1. T \in SUBSET (1..m) /\ new[T] = it[T]
          BY <2>3, <2>5, <3>2
        <4>2. it[T] = IF T = {} THEN base ELSE f[Max(T)][it[T \ {Max(T)}]]
          BY <2>1, <4>1, Zenon DEF Turns
        <4>3. T \ {Max(T)} \in SUBSET (1..m)
          BY <4>1, Zenon
        <4>4. new[T \ {Max(T)}] = it[T \ {Max(T)}]
          BY <2>5, <4>3
        <4> HIDE DEF new
        <4> QED
          BY <4>1, <4>2, <4>4
      <3> QED
        BY <3>1, <3>2, Zenon
    <2>7. new = [T \in SUBSET (1 .. m + 1) |-> new[T]]
      OBVIOUS
    <2> HIDE DEF new
    <2>8. Turns(f, base, m + 1, new)
      BY <2>6, <2>7, Zenon DEF Turns
    <2> QED
      BY <2>4, <2>8 DEF HasTurns
  <1> HIDE DEF Good
  <1>3. n \in Good
    BY <1>1, <1>2, SetInduction
  <1> QED
    BY <1>3 DEF Good

LEMMA PrefixMax ==
  ASSUME NEW n \in Nat, NEW k \in 1..n
  PROVE  /\ 1..k \in SUBSET (1..n) /\ 1..k # {}
         /\ Max(1..k) = k /\ (1..k) \ {Max(1..k)} = 1 .. k - 1
  <1>1. 1..k \in SUBSET (1..n) /\ 1..k # {} /\ k \in 1..k /\ (1..k) \ {k} = 1 .. k - 1
    OBVIOUS
  <1>2. Max(1..k) \in 1..k /\ k <= Max(1..k)
    BY <1>1, MaxOfSet, Zenon
  <1>3. Max(1..k) = k
    BY <1>2
  <1> QED
    BY <1>1, <1>3

LEMMA RunTyped ==
  ASSUME NEW C, NEW n \in Nat, NEW c, c[0] \in C,
         \A k \in 1..n : c[k - 1] \in C => c[k] \in C
  PROVE  \A k \in 0..n : c[k] \in C
  <1> DEFINE Good == {k \in Nat : k <= n => c[k] \in C}
  <1>1. 0 \in Good
    OBVIOUS
  <1>2. ASSUME NEW k \in Nat, k \in Good PROVE k + 1 \in Good
    <2> SUFFICES ASSUME k + 1 <= n PROVE c[k + 1] \in C
      OBVIOUS
    <2>1. k + 1 \in 1..n /\ (k + 1) - 1 = k /\ c[k] \in C
      BY <1>2
    <2>2. c[(k + 1) - 1] \in C => c[k + 1] \in C
      BY <2>1
    <2> QED
      BY <2>1, <2>2
  <1> HIDE DEF Good
  <1>3. Nat \subseteq Good
    BY <1>1, <1>2, SetInduction
  <1> QED
    BY <1>3 DEF Good

StayTogether(n, c, d) == \A k \in 1..n : c[k - 1] = d[k - 1] => c[k] = d[k]

LEMMA RunsAgree ==
  ASSUME NEW n \in Nat, NEW c, NEW d, c[0] = d[0], StayTogether(n, c, d)
  PROVE  \A k \in 0..n : c[k] = d[k]
  <1> DEFINE Good == {k \in Nat : k <= n => c[k] = d[k]}
  <1>1. 0 \in Good
    OBVIOUS
  <1>2. ASSUME NEW k \in Nat, k \in Good PROVE k + 1 \in Good
    <2> SUFFICES ASSUME k + 1 <= n PROVE c[k + 1] = d[k + 1]
      OBVIOUS
    <2>1. k + 1 \in 1..n /\ (k + 1) - 1 = k /\ c[k] = d[k]
      BY <1>2
    <2>2. c[(k + 1) - 1] = d[(k + 1) - 1] => c[k + 1] = d[k + 1]
      BY <2>1 DEF StayTogether
    <2> QED
      BY <2>1, <2>2
  <1> HIDE DEF Good
  <1>3. Nat \subseteq Good
    BY <1>1, <1>2, SetInduction, Zenon
  <1> QED
    BY <1>3 DEF Good

-----------------------------------------------------------------------------
(* Push, a fold of PushBit, starts at its context and takes one step more    *)
(* for one bit more.  The same is shown of EncodeByte, DecodeByte and DoByte *)
(* below: a lemma cannot take the step as its parameter.                     *)

Bit == 0..1
Byte == 0..255
Contexts == [pending : Seq(Bit), out : Seq(Seq(Bit))]

LEMMA PushStepTyped ==
  ASSUME NEW ctx \in Contexts, NEW x \in Bit, NEW w \in Nat
  PROVE  PushBit(ctx, x, w) \in Contexts
  <1>1. ctx.pending \in Seq(Bit) /\ ctx.out \in Seq(Seq(Bit))
    BY DEF Contexts
  <1>2. Append(ctx.pending, x) \in Seq(Bit)
    BY <1>1
  <1>3. Append(ctx.out, Append(ctx.pending, x)) \in Seq(Seq(Bit))
    BY <1>1, <1>2
  <1>4. [ctx EXCEPT !.pending = Append(ctx.pending, x)] \in Contexts
    BY <1>2, Zenon DEF Contexts
  <1>5. [pending |-> <<>>, out |-> Append(ctx.out, Append(ctx.pending, x))] \in Contexts
    BY <1>3 DEF Contexts
  <1> QED
    BY <1>4, <1>5 DEF PushBit

PushTurns(ctx, s, w, it) ==
  it = [T \in SUBSET DOMAIN s |->
          IF T = {} THEN ctx ELSE PushBit(it[T \ {Max(T)}], s[Max(T)], w)]

LEMMA PushIsFold ==
  ASSUME NEW ctx, NEW s, NEW w \in Nat
  PROVE  Push(ctx, s, w) = (CHOOSE it : PushTurns(ctx, s, w, it))[DOMAIN s]
  BY Zenon DEF Push, FoldLeft, MapThenFoldSet, PushTurns

PushRun(ctx, s, w, c) ==
  /\ c[0] = ctx
  /\ \A k \in 1..Len(s) : c[k] = PushBit(c[k - 1], s[k], w)

LEMMA PushHasRun ==
  ASSUME NEW ctx \in Contexts, NEW s \in Seq(Bit), NEW w \in Nat
  PROVE  \E c : /\ PushRun(ctx, s, w, c)
                /\ Push(ctx, s, w) = c[Len(s)]
                /\ Push(ctx, s, w) \in Contexts
  <1> DEFINE n == Len(s)
  <1> DEFINE f == [k \in 1..n |-> [c \in Contexts |-> PushBit(c, s[k], w)]]
  <1>1. n \in Nat /\ DOMAIN s = 1..n /\ \A k \in 1..n : s[k] \in Bit
    OBVIOUS
  <1>2. \A k \in 1..n, c \in Contexts : PushBit(c, s[k], w) \in Contexts
    BY <1>1, PushStepTyped
  <1>3. f \in [1..n -> [Contexts -> Contexts]]
    BY <1>2
  <1>4. PICK it \in [SUBSET (1..n) -> Contexts] : Turns(f, ctx, n, it)
    <2> HIDE DEF f, n
    <2>1. HasTurns(Contexts, f, ctx, n)
      BY <1>1, <1>3, TurnsExist
    <2> QED
      BY <2>1 DEF HasTurns
  <1>5. PushTurns(ctx, s, w, it)
    <2>1. \A T \in SUBSET (1..n) : T # {} =>
            f[Max(T)][it[T \ {Max(T)}]] = PushBit(it[T \ {Max(T)}], s[Max(T)], w)
      <3> SUFFICES ASSUME NEW T \in SUBSET (1..n), T # {}
                   PROVE  f[Max(T)][it[T \ {Max(T)}]] = PushBit(it[T \ {Max(T)}], s[Max(T)], w)
        BY Zenon
      <3>1. Max(T) \in 1..n /\ T \ {Max(T)} \in SUBSET (1..n)
        BY <1>1, MaxOfSet, Zenon
      <3>2. it[T \ {Max(T)}] \in Contexts
        BY <3>1
      <3> QED
        BY <3>1, <3>2
    <2> HIDE DEF f, n
    <2>2. it = [T \in SUBSET (1..n) |-> IF T = {} THEN ctx ELSE f[Max(T)][it[T \ {Max(T)}]]]
      BY <1>4, Zenon DEF Turns
    <2>3. it = [T \in SUBSET (1..n) |-> IF T = {} THEN ctx
                                        ELSE PushBit(it[T \ {Max(T)}], s[Max(T)], w)]
      BY ONLY <2>1, <2>2, Zenon
    <2> QED
      BY <1>1, <2>3, Zenon DEF PushTurns
  <1> DEFINE all == CHOOSE t : PushTurns(ctx, s, w, t)
             c == [k \in 0..n |-> all[1..k]]
  <1>6. PushTurns(ctx, s, w, all)
    BY <1>5
  <1>7. Push(ctx, s, w) = all[1..n]
    <2>1. Push(ctx, s, w) = all[DOMAIN s]
      BY PushIsFold
    <2> QED
      BY <1>1, <2>1
  <1> HIDE DEF f, n, all
  <1>8. \A T \in SUBSET (1..n) : all[T] = IF T = {} THEN ctx
                                          ELSE PushBit(all[T \ {Max(T)}], s[Max(T)], w)
    BY <1>1, <1>6, Zenon DEF PushTurns
  <1>9. c[0] = ctx
    <2>1. 1..0 = {} /\ 0 \in 0..n
      BY <1>1
    <2> QED
      BY <1>8, <2>1, Zenon
  <1>10. ASSUME NEW k \in 1..n PROVE c[k] = PushBit(c[k - 1], s[k], w)
    <2>1. k \in 0..n /\ k - 1 \in 0..n
      BY <1>1
    <2>2. c[k] = all[1..k] /\ c[k - 1] = all[1 .. k - 1]
      BY <2>1
    <2> HIDE DEF c
    <2>3. all[1..k] = PushBit(all[1 .. k - 1], s[k], w)
      BY <1>1, <1>8, PrefixMax, Zenon
    <2> QED
      BY <2>2, <2>3
  <1>11. n \in 0..n /\ c[n] = all[1..n]
    BY <1>1
  <1> HIDE DEF c
  <1>12. \A k \in 0..n : c[k] \in Contexts
    <2>1. \A k \in 1..n : c[k - 1] \in Contexts => c[k] \in Contexts
      BY <1>2, <1>10
    <2> QED
      BY ONLY <1>1, <1>9, <2>1, ctx \in Contexts, RunTyped, Zenon
  <1>13. PushRun(ctx, s, w, c)
    BY <1>9, <1>10 DEF PushRun, n
  <1> QED
    BY <1>7, <1>11, <1>12, <1>13 DEF n

LEMMA PushFold ==
  ASSUME NEW ctx \in Contexts, NEW s \in Seq(Bit), NEW x \in Bit, NEW w \in Nat
  PROVE  /\ Push(ctx, <<>>, w) = ctx
         /\ Push(ctx, s, w) \in Contexts
         /\ Push(ctx, Append(s, x), w) = PushBit(Push(ctx, s, w), x, w)
  <1> DEFINE n == Len(s)
             t == Append(s, x)
  <1>1. /\ n \in Nat /\ t \in Seq(Bit) /\ Len(t) = n + 1 /\ t[n + 1] = x
        /\ \A k \in 1..n : t[k] = s[k]
    OBVIOUS
  <1>2. <<>> \in Seq(Bit) /\ Len(<<>>) = 0
    OBVIOUS
  <1>3. PICK e : PushRun(ctx, <<>>, w, e) /\ Push(ctx, <<>>, w) = e[0]
    BY <1>2, PushHasRun, Zenon
  <1>4. PICK c : PushRun(ctx, s, w, c) /\ Push(ctx, s, w) = c[n] /\ Push(ctx, s, w) \in Contexts
    BY PushHasRun
  <1> HIDE DEF t, n
  <1>5. PICK d : PushRun(ctx, t, w, d) /\ Push(ctx, t, w) = d[n + 1]
    <2>1. PICK d : PushRun(ctx, t, w, d) /\ Push(ctx, t, w) = d[Len(t)]
      BY <1>1, PushHasRun, Zenon
    <2> QED
      BY <1>1, <2>1
  <1>6. c[0] = d[0]
    BY <1>4, <1>5 DEF PushRun
  <1>7. \A k \in 1..n : c[k] = PushBit(c[k - 1], s[k], w) /\ d[k] = PushBit(d[k - 1], s[k], w)
    <2>1. \A k \in 1..n : c[k] = PushBit(c[k - 1], s[k], w)
      BY <1>4 DEF PushRun, n
    <2>2. \A k \in 1 .. n + 1 : d[k] = PushBit(d[k - 1], t[k], w)
      BY <1>1, <1>5 DEF PushRun
    <2>3. \A k \in 1..n : k \in 1 .. n + 1
      BY <1>1
    <2> QED
      BY <1>1, <2>1, <2>2, <2>3, Zenon
  <1>8. \A k \in 0..n : c[k] = d[k]
    <2>1. StayTogether(n, c, d)
      BY <1>7 DEF StayTogether
    <2>2. n \in Nat
      BY <1>1
    <2> QED
      BY ONLY <1>6, <2>1, <2>2, RunsAgree
  <1>9. n \in 0..n /\ n + 1 \in 1 .. n + 1 /\ (n + 1) - 1 = n
    BY <1>1
  <1>10. d[n + 1] = PushBit(d[n], x, w)
    BY <1>1, <1>5, <1>9 DEF PushRun
  <1>11. Push(ctx, t, w) = PushBit(Push(ctx, s, w), x, w)
    BY <1>4, <1>5, <1>8, <1>9, <1>10
  <1> QED
    BY <1>3, <1>4, <1>11 DEF PushRun, t

-----------------------------------------------------------------------------
(* Bits and numbers.                                                         *)

LEMMA MaskIs ==
  /\ Mask[1] = 1 /\ Mask[2] = 2 /\ Mask[3] = 4 /\ Mask[4] = 8
  /\ Mask[5] = 16 /\ Mask[6] = 32 /\ Mask[7] = 64 /\ Mask[8] = 128
  BY DEF Mask

LEMMA MaskPositive == \A k \in 1..8 : Mask[k] \in Nat \ {0}
  <1> SUFFICES ASSUME NEW k \in 1..8 PROVE Mask[k] \in Nat \ {0}
    OBVIOUS
  <1>1. k = 1 \/ k = 2 \/ k = 3 \/ k = 4 \/ k = 5 \/ k = 6 \/ k = 7 \/ k = 8
    OBVIOUS
  <1> QED
    BY <1>1, MaskIs

LEMMA BitsTyped ==
  ASSUME NEW n \in Nat, NEW w \in 1..8
  PROVE  /\ BitsOf(n, w) \in Seq(Bit) /\ Len(BitsOf(n, w)) = w
         /\ BitsOf(n, w) \in [1..w -> Bit]
  <1>1. \A k \in 1..w : (n \div Mask[k]) % 2 \in Bit
    <2> SUFFICES ASSUME NEW k \in 1..w PROVE (n \div Mask[k]) % 2 \in Bit
      OBVIOUS
    <2>1. Mask[k] \in Nat \ {0}
      BY MaskPositive
    <2>2. n \div Mask[k] \in Nat
      BY <2>1
    <2> QED
      BY <2>2 DEF Bit
  <1>2. BitsOf(n, w) \in [1..w -> Bit]
    BY <1>1 DEF BitsOf
  <1> QED
    BY <1>2

LEMMA ByteOfBits ==
  ASSUME NEW n \in Byte
  PROVE  NumberOf(BitsOf(n, 8)) = n
  <1>1. n = ((n \div 1) % 2) + 2 * ((n \div 2) % 2) + 4 * ((n \div 4) % 2) + 8 * ((n \div 8) % 2)
            + 16 * ((n \div 16) % 2) + 32 * ((n \div 32) % 2) + 64 * ((n \div 64) % 2)
            + 128 * ((n \div 128) % 2)
    BY DEF Byte
  <1>2. \A k \in 1..8 : BitsOf(n, 8)[k] = (n \div Mask[k]) % 2
    BY DEF BitsOf
  <1> QED
    BY <1>1, <1>2, MaskIs DEF NumberOf

LEMMA NumberOfBits ==
  ASSUME NEW b \in [1..8 -> Bit]
  PROVE  NumberOf(b) \in Byte /\ BitsOf(NumberOf(b), 8) = b
  <1> DEFINE n == b[1] + 2 * b[2] + 4 * b[3] + 8 * b[4]
                  + 16 * b[5] + 32 * b[6] + 64 * b[7] + 128 * b[8]
  <1>1. NumberOf(b) = n
    BY DEF NumberOf
  <1>2. /\ b[1] \in 0..1 /\ b[2] \in 0..1 /\ b[3] \in 0..1 /\ b[4] \in 0..1
        /\ b[5] \in 0..1 /\ b[6] \in 0..1 /\ b[7] \in 0..1 /\ b[8] \in 0..1
    BY DEF Bit
  <1>3. n \in Byte
    BY <1>2 DEF Byte
  <1>4. /\ (n \div 1) % 2 = b[1] /\ (n \div 2) % 2 = b[2] /\ (n \div 4) % 2 = b[3]
        /\ (n \div 8) % 2 = b[4] /\ (n \div 16) % 2 = b[5] /\ (n \div 32) % 2 = b[6]
        /\ (n \div 64) % 2 = b[7] /\ (n \div 128) % 2 = b[8]
    BY <1>2
  <1> HIDE DEF n
  <1>5. \A k \in 1..8 : (n \div Mask[k]) % 2 = b[k]
    <2> SUFFICES ASSUME NEW k \in 1..8 PROVE (n \div Mask[k]) % 2 = b[k]
      OBVIOUS
    <2>1. k = 1 \/ k = 2 \/ k = 3 \/ k = 4 \/ k = 5 \/ k = 6 \/ k = 7 \/ k = 8
      OBVIOUS
    <2> QED
      BY <1>4, <2>1, MaskIs
  <1>6. BitsOf(n, 8) = b
    BY <1>5 DEF BitsOf
  <1> QED
    BY <1>1, <1>3, <1>6

LEMMA XorTwice ==
  ASSUME NEW a \in Byte, NEW key \in Nat
  PROVE  Xor(a, key) \in Byte /\ Xor(Xor(a, key), key) = a
  <1> DEFINE p == BitsOf(a, 8)
             q == BitsOf(key, 8)
             r == [k \in 1..8 |-> (p[k] + q[k]) % 2]
  <1>1. p \in [1..8 -> Bit] /\ q \in [1..8 -> Bit]
    <2>1. a \in Nat /\ 8 \in 1..8
      BY DEF Byte
    <2> QED
      BY <2>1, BitsTyped, Zenon
  <1> HIDE DEF p, q
  <1>2. \A k \in 1..8 : p[k] \in 0..1 /\ q[k] \in 0..1
    BY <1>1 DEF Bit
  <1>3. r \in [1..8 -> Bit]
    BY <1>2 DEF Bit
  <1>4. \A k \in 1..8 : (r[k] + q[k]) % 2 = p[k]
    BY <1>2
  <1>5. [k \in 1..8 |-> (r[k] + q[k]) % 2] = p
    BY <1>1, <1>4
  <1>6. Xor(a, key) = NumberOf(r)
    BY DEF Xor, p, q
  <1> HIDE DEF r
  <1>7. NumberOf(r) \in Byte /\ BitsOf(NumberOf(r), 8) = r
    BY <1>3, NumberOfBits
  <1>8. Xor(NumberOf(r), key) = NumberOf([k \in 1..8 |-> (r[k] + q[k]) % 2])
    BY <1>7 DEF Xor, q
  <1>9. NumberOf(p) = a
    BY ByteOfBits DEF p
  <1> QED
    BY <1>5, <1>6, <1>7, <1>8, <1>9

-----------------------------------------------------------------------------
(* A byte on its way through the encoder, a character through the decoder.   *)

LEMMA EncodeStepTyped ==
  ASSUME NEW ctx \in Contexts, NEW x \in Byte
  PROVE  EncodeByte(ctx, x) \in Contexts
  <1>1. BitsOf(x, 8) \in Seq(Bit)
    <2>1. x \in Nat /\ 8 \in 1..8
      BY DEF Byte
    <2> QED
      BY <2>1, BitsTyped
  <1> QED
    BY <1>1, PushFold, 0 \in Bit, 6 \in Nat DEF EncodeByte, Bit

LEMMA DecTyped ==
  ASSUME NEW ch \in Seq(Bit)
  PROVE  Dec(ch) \in Seq(Bit) /\ (ch # <<>> => Dec(ch) = ch)
  BY BitsTyped DEF Dec, Newline

LEMMA DecodeStepTyped ==
  ASSUME NEW ctx \in Contexts, NEW x \in Seq(Bit)
  PROVE  DecodeByte(ctx, x) \in Contexts
  BY DecTyped, PushFold, 0 \in Bit, 8 \in Nat DEF DecodeByte, Bit

EncodeTurns(ctx, s, it) ==
  it = [T \in SUBSET DOMAIN s |->
          IF T = {} THEN ctx ELSE EncodeByte(it[T \ {Max(T)}], s[Max(T)])]

LEMMA EncodeIsFold ==
  ASSUME NEW ctx, NEW s
  PROVE  FoldLeft(EncodeByte, ctx, s) = (CHOOSE it : EncodeTurns(ctx, s, it))[DOMAIN s]
  BY Zenon DEF FoldLeft, MapThenFoldSet, EncodeTurns

EncodeRun(ctx, s, c) ==
  /\ c[0] = ctx
  /\ \A k \in 1..Len(s) : c[k] = EncodeByte(c[k - 1], s[k])

LEMMA EncodeHasRun ==
  ASSUME NEW ctx \in Contexts, NEW s \in Seq(Byte)
  PROVE  \E c : /\ EncodeRun(ctx, s, c)
                /\ FoldLeft(EncodeByte, ctx, s) = c[Len(s)]
                /\ FoldLeft(EncodeByte, ctx, s) \in Contexts
  <1> DEFINE n == Len(s)
  <1> DEFINE f == [k \in 1..n |-> [c \in Contexts |-> EncodeByte(c, s[k])]]
  <1>1. n \in Nat /\ DOMAIN s = 1..n /\ \A k \in 1..n : s[k] \in Byte
    OBVIOUS
  <1>2. \A k \in 1..n, c \in Contexts : EncodeByte(c, s[k]) \in Contexts
    BY <1>1, EncodeStepTyped
  <1>3. f \in [1..n -> [Contexts -> Contexts]]
    BY <1>2
  <1>4. PICK it \in [SUBSET (1..n) -> Contexts] : Turns(f, ctx, n, it)
    <2> HIDE DEF f, n
    <2>1. HasTurns(Contexts, f, ctx, n)
      BY <1>1, <1>3, TurnsExist
    <2> QED
      BY <2>1 DEF HasTurns
  <1>5. EncodeTurns(ctx, s, it)
    <2>1. \A T \in SUBSET (1..n) : T # {} =>
            f[Max(T)][it[T \ {Max(T)}]] = EncodeByte(it[T \ {Max(T)}], s[Max(T)])
      <3> SUFFICES ASSUME NEW T \in SUBSET (1..n), T # {}
                   PROVE  f[Max(T)][it[T \ {Max(T)}]] = EncodeByte(it[T \ {Max(T)}], s[Max(T)])
        BY Zenon
      <3>1. Max(T) \in 1..n /\ T \ {Max(T)} \in SUBSET (1..n)
        BY <1>1, MaxOfSet, Zenon
      <3>2. it[T \ {Max(T)}] \in Contexts
        BY <3>1
      <3> QED
        BY <3>1, <3>2
    <2> HIDE DEF f, n
    <2>2. it = [T \in SUBSET (1..n) |-> IF T = {} THEN ctx ELSE f[Max(T)][it[T \ {Max(T)}]]]
      BY <1>4, Zenon DEF Turns
    <2>3. it = [T \in SUBSET (1..n) |-> IF T = {} THEN ctx
                                        ELSE EncodeByte(it[T \ {Max(T)}], s[Max(T)])]
      BY ONLY <2>1, <2>2, Zenon
    <2> QED
      BY <1>1, <2>3, Zenon DEF EncodeTurns
  <1> DEFINE all == CHOOSE t : EncodeTurns(ctx, s, t)
             c == [k \in 0..n |-> all[1..k]]
  <1>6. EncodeTurns(ctx, s, all)
    BY <1>5
  <1>7. FoldLeft(EncodeByte, ctx, s) = all[1..n]
    <2>1. FoldLeft(EncodeByte, ctx, s) = all[DOMAIN s]
      BY EncodeIsFold, Zenon
    <2> QED
      BY <1>1, <2>1
  <1> HIDE DEF f, n, all
  <1>8. \A T \in SUBSET (1..n) : all[T] = IF T = {} THEN ctx
                                          ELSE EncodeByte(all[T \ {Max(T)}], s[Max(T)])
    BY <1>1, <1>6, Zenon DEF EncodeTurns
  <1>9. c[0] = ctx
    <2>1. 1..0 = {} /\ 0 \in 0..n
      BY <1>1
    <2> QED
      BY <1>8, <2>1, Zenon
  <1>10. ASSUME NEW k \in 1..n PROVE c[k] = EncodeByte(c[k - 1], s[k])
    <2>1. k \in 0..n /\ k - 1 \in 0..n
      BY <1>1
    <2>2. c[k] = all[1..k] /\ c[k - 1] = all[1 .. k - 1]
      BY <2>1
    <2> HIDE DEF c
    <2>3. all[1..k] = EncodeByte(all[1 .. k - 1], s[k])
      BY <1>1, <1>8, PrefixMax, Zenon
    <2> QED
      BY <2>2, <2>3
  <1>11. n \in 0..n /\ c[n] = all[1..n]
    BY <1>1
  <1> HIDE DEF c
  <1>12. \A k \in 0..n : c[k] \in Contexts
    <2>1. \A k \in 1..n : c[k - 1] \in Contexts => c[k] \in Contexts
      BY <1>2, <1>10
    <2> QED
      BY ONLY <1>1, <1>9, <2>1, ctx \in Contexts, RunTyped, Zenon
  <1>13. EncodeRun(ctx, s, c)
    BY <1>9, <1>10 DEF EncodeRun, n
  <1> QED
    BY <1>7, <1>11, <1>12, <1>13 DEF n

LEMMA EncodeFold ==
  ASSUME NEW ctx \in Contexts, NEW s \in Seq(Byte), NEW x \in Byte
  PROVE  /\ FoldLeft(EncodeByte, ctx, <<>>) = ctx
         /\ FoldLeft(EncodeByte, ctx, s) \in Contexts
         /\ FoldLeft(EncodeByte, ctx, Append(s, x)) = EncodeByte(FoldLeft(EncodeByte, ctx, s), x)
  <1> DEFINE n == Len(s)
             t == Append(s, x)
  <1>1. /\ n \in Nat /\ t \in Seq(Byte) /\ Len(t) = n + 1 /\ t[n + 1] = x
        /\ \A k \in 1..n : t[k] = s[k]
    OBVIOUS
  <1>2. <<>> \in Seq(Byte) /\ Len(<<>>) = 0
    OBVIOUS
  <1>3. PICK e : EncodeRun(ctx, <<>>, e) /\ FoldLeft(EncodeByte, ctx, <<>>) = e[0]
    BY <1>2, EncodeHasRun, Zenon
  <1>4. PICK c : EncodeRun(ctx, s, c) /\ FoldLeft(EncodeByte, ctx, s) = c[n] /\ FoldLeft(EncodeByte, ctx, s) \in Contexts
    BY EncodeHasRun
  <1> HIDE DEF t, n
  <1>5. PICK d : EncodeRun(ctx, t, d) /\ FoldLeft(EncodeByte, ctx, t) = d[n + 1]
    <2>1. PICK d : EncodeRun(ctx, t, d) /\ FoldLeft(EncodeByte, ctx, t) = d[Len(t)]
      BY <1>1, EncodeHasRun, Zenon
    <2> QED
      BY <1>1, <2>1
  <1>6. c[0] = d[0]
    BY <1>4, <1>5 DEF EncodeRun
  <1>7. \A k \in 1..n : c[k] = EncodeByte(c[k - 1], s[k]) /\ d[k] = EncodeByte(d[k - 1], s[k])
    <2>1. \A k \in 1..n : c[k] = EncodeByte(c[k - 1], s[k])
      BY <1>4 DEF EncodeRun, n
    <2>2. \A k \in 1 .. n + 1 : d[k] = EncodeByte(d[k - 1], t[k])
      BY <1>1, <1>5 DEF EncodeRun
    <2>3. \A k \in 1..n : k \in 1 .. n + 1
      BY <1>1
    <2> QED
      BY <1>1, <2>1, <2>2, <2>3
  <1>8. \A k \in 0..n : c[k] = d[k]
    <2>1. StayTogether(n, c, d)
      BY <1>7 DEF StayTogether
    <2>2. n \in Nat
      BY <1>1
    <2> QED
      BY ONLY <1>6, <2>1, <2>2, RunsAgree
  <1>9. n \in 0..n /\ n + 1 \in 1 .. n + 1 /\ (n + 1) - 1 = n
    BY <1>1
  <1>10. d[n + 1] = EncodeByte(d[n], x)
    BY <1>1, <1>5, <1>9 DEF EncodeRun
  <1>11. FoldLeft(EncodeByte, ctx, t) = EncodeByte(FoldLeft(EncodeByte, ctx, s), x)
    BY <1>4, <1>5, <1>8, <1>9, <1>10
  <1> QED
    BY <1>3, <1>4, <1>11 DEF EncodeRun, t

DecodeTurns(ctx, s, it) ==
  it = [T \in SUBSET DOMAIN s |->
          IF T = {} THEN ctx ELSE DecodeByte(it[T \ {Max(T)}], s[Max(T)])]

LEMMA DecodeIsFold ==
  ASSUME NEW ctx, NEW s
  PROVE  FoldLeft(DecodeByte, ctx, s) = (CHOOSE it : DecodeTurns(ctx, s, it))[DOMAIN s]
  BY Zenon DEF FoldLeft, MapThenFoldSet, DecodeTurns

DecodeRun(ctx, s, c) ==
  /\ c[0] = ctx
  /\ \A k \in 1..Len(s) : c[k] = DecodeByte(c[k - 1], s[k])

LEMMA DecodeHasRun ==
  ASSUME NEW ctx \in Contexts, NEW s \in Seq(Seq(Bit))
  PROVE  \E c : /\ DecodeRun(ctx, s, c)
                /\ FoldLeft(DecodeByte, ctx, s) = c[Len(s)]
                /\ FoldLeft(DecodeByte, ctx, s) \in Contexts
  <1> DEFINE n == Len(s)
  <1> DEFINE f == [k \in 1..n |-> [c \in Contexts |-> DecodeByte(c, s[k])]]
  <1>1. n \in Nat /\ DOMAIN s = 1..n /\ \A k \in 1..n : s[k] \in Seq(Bit)
    OBVIOUS
  <1>2. \A k \in 1..n, c \in Contexts : DecodeByte(c, s[k]) \in Contexts
    BY <1>1, DecodeStepTyped
  <1>3. f \in [1..n -> [Contexts -> Contexts]]
    BY <1>2
  <1>4. PICK it \in [SUBSET (1..n) -> Contexts] : Turns(f, ctx, n, it)
    <2> HIDE DEF f, n
    <2>1. HasTurns(Contexts, f, ctx, n)
      BY <1>1, <1>3, TurnsExist, Zenon
    <2> QED
      BY <2>1 DEF HasTurns
  <1>5. DecodeTurns(ctx, s, it)
    <2>1. \A T \in SUBSET (1..n) : T # {} =>
            f[Max(T)][it[T \ {Max(T)}]] = DecodeByte(it[T \ {Max(T)}], s[Max(T)])
      <3> SUFFICES ASSUME NEW T \in SUBSET (1..n), T # {}
                   PROVE  f[Max(T)][it[T \ {Max(T)}]] = DecodeByte(it[T \ {Max(T)}], s[Max(T)])
        BY Zenon
      <3>1. Max(T) \in 1..n /\ T \ {Max(T)} \in SUBSET (1..n)
        BY <1>1, MaxOfSet, Zenon
      <3>2. it[T \ {Max(T)}] \in Contexts
        BY <3>1
      <3> QED
        BY <3>1, <3>2
    <2> HIDE DEF f, n
    <2>2. it = [T \in SUBSET (1..n) |-> IF T = {} THEN ctx ELSE f[Max(T)][it[T \ {Max(T)}]]]
      BY <1>4, Zenon DEF Turns
    <2>3. it = [T \in SUBSET (1..n) |-> IF T = {} THEN ctx
                                        ELSE DecodeByte(it[T \ {Max(T)}], s[Max(T)])]
      BY ONLY <2>1, <2>2, Zenon
    <2> QED
      BY <1>1, <2>3, Zenon DEF DecodeTurns
  <1> DEFINE all == CHOOSE t : DecodeTurns(ctx, s, t)
             c == [k \in 0..n |-> all[1..k]]
  <1>6. DecodeTurns(ctx, s, all)
    BY <1>5
  <1>7. FoldLeft(DecodeByte, ctx, s) = all[1..n]
    <2>1. FoldLeft(DecodeByte, ctx, s) = all[DOMAIN s]
      BY DecodeIsFold
    <2> QED
      BY <1>1, <2>1
  <1> HIDE DEF f, n, all
  <1>8. \A T \in SUBSET (1..n) : all[T] = IF T = {} THEN ctx
                                          ELSE DecodeByte(all[T \ {Max(T)}], s[Max(T)])
    BY <1>1, <1>6, Zenon DEF DecodeTurns
  <1>9. c[0] = ctx
    <2>1. 1..0 = {} /\ 0 \in 0..n
      BY <1>1
    <2> QED
      BY <1>8, <2>1, Zenon
  <1>10. ASSUME NEW k \in 1..n PROVE c[k] = DecodeByte(c[k - 1], s[k])
    <2>1. k \in 0..n /\ k - 1 \in 0..n
      BY <1>1
    <2>2. c[k] = all[1..k] /\ c[k - 1] = all[1 .. k - 1]
      BY <2>1
    <2> HIDE DEF c
    <2>3. all[1..k] = DecodeByte(all[1 .. k - 1], s[k])
      BY <1>1, <1>8, PrefixMax, Zenon
    <2> QED
      BY <2>2, <2>3
  <1>11. n \in 0..n /\ c[n] = all[1..n]
    BY <1>1
  <1> HIDE DEF c
  <1>12. \A k \in 0..n : c[k] \in Contexts
    <2>1. \A k \in 1..n : c[k - 1] \in Contexts => c[k] \in Contexts
      BY <1>2, <1>10
    <2> QED
      BY ONLY <1>1, <1>9, <2>1, ctx \in Contexts, RunTyped, Zenon
  <1>13. DecodeRun(ctx, s, c)
    BY <1>9, <1>10 DEF DecodeRun, n
  <1> QED
    BY <1>7, <1>11, <1>12, <1>13 DEF n

LEMMA DecodeFold ==
  ASSUME NEW ctx \in Contexts, NEW s \in Seq(Seq(Bit)), NEW x \in Seq(Bit)
  PROVE  /\ FoldLeft(DecodeByte, ctx, <<>>) = ctx
         /\ FoldLeft(DecodeByte, ctx, s) \in Contexts
         /\ FoldLeft(DecodeByte, ctx, Append(s, x)) = DecodeByte(FoldLeft(DecodeByte, ctx, s), x)
  <1> DEFINE n == Len(s)
             t == Append(s, x)
  <1>1. /\ n \in Nat /\ t \in Seq(Seq(Bit)) /\ Len(t) = n + 1 /\ t[n + 1] = x
        /\ \A k \in 1..n : t[k] = s[k]
    OBVIOUS
  <1>2. <<>> \in Seq(Seq(Bit)) /\ Len(<<>>) = 0
    OBVIOUS
  <1>3. PICK e : DecodeRun(ctx, <<>>, e) /\ FoldLeft(DecodeByte, ctx, <<>>) = e[0]
    BY <1>2, DecodeHasRun, Zenon
  <1>4. PICK c : DecodeRun(ctx, s, c) /\ FoldLeft(DecodeByte, ctx, s) = c[n] /\ FoldLeft(DecodeByte, ctx, s) \in Contexts
    BY DecodeHasRun
  <1> HIDE DEF t, n
  <1>5. PICK d : DecodeRun(ctx, t, d) /\ FoldLeft(DecodeByte, ctx, t) = d[n + 1]
    <2>1. PICK d : DecodeRun(ctx, t, d) /\ FoldLeft(DecodeByte, ctx, t) = d[Len(t)]
      BY <1>1, DecodeHasRun, Zenon
    <2> QED
      BY <1>1, <2>1
  <1>6. c[0] = d[0]
    BY <1>4, <1>5 DEF DecodeRun
  <1>7. \A k \in 1..n : c[k] = DecodeByte(c[k - 1], s[k]) /\ d[k] = DecodeByte(d[k - 1], s[k])
    <2>1. \A k \in 1..n : c[k] = DecodeByte(c[k - 1], s[k])
      BY <1>4 DEF DecodeRun, n
    <2>2. \A k \in 1 .. n + 1 : d[k] = DecodeByte(d[k - 1], t[k])
      BY <1>1, <1>5 DEF DecodeRun
    <2>3. \A k \in 1..n : k \in 1 .. n + 1
      BY <1>1
    <2> QED
      BY <1>1, <2>1, <2>2, <2>3, Zenon
  <1>8. \A k \in 0..n : c[k] = d[k]
    <2>1. StayTogether(n, c, d)
      BY <1>7 DEF StayTogether
    <2>2. n \in Nat
      BY <1>1
    <2> QED
      BY ONLY <1>6, <2>1, <2>2, RunsAgree
  <1>9. n \in 0..n /\ n + 1 \in 1 .. n + 1 /\ (n + 1) - 1 = n
    BY <1>1
  <1>10. d[n + 1] = DecodeByte(d[n], x)
    BY <1>1, <1>5, <1>9 DEF DecodeRun
  <1>11. FoldLeft(DecodeByte, ctx, t) = DecodeByte(FoldLeft(DecodeByte, ctx, s), x)
    BY <1>4, <1>5, <1>8, <1>9, <1>10
  <1> QED
    BY <1>3, <1>4, <1>11 DEF DecodeRun, t

-----------------------------------------------------------------------------
(* One step of the encryptor, which is its own inverse.                      *)

States == [i : Places, j : Places, sbox : [Places -> Places], out : Seq(Byte)]

LEMMA ModInPlaces ==
  ASSUME SboxSize \in Nat \ {0}, NEW a \in Nat
  PROVE  a % SboxSize \in Places
  BY DEF Places

LEMMA SwapTyped ==
  ASSUME NEW f \in [Places -> Places], NEW i \in Places, NEW j \in Places
  PROVE  Swap(f, i, j) \in [Places -> Places]
  BY DEF Swap

StepI(c) == (c.i + 1) % SboxSize
StepJ(c) == (c.j + c.sbox[StepI(c)]) % SboxSize
StepBox(c) == Swap(c.sbox, StepI(c), StepJ(c))
Pad(c) == StepBox(c)[(StepBox(c)[StepI(c)] + StepBox(c)[StepJ(c)]) % SboxSize]

LEMMA DoByteIs ==
  ASSUME NEW c, NEW x
  PROVE  DoByte(c, x) = [i |-> StepI(c), j |-> StepJ(c), sbox |-> StepBox(c),
                         out |-> Append(c.out, Xor(x, Pad(c)))]
  BY DEF DoByte, StepI, StepJ, StepBox, Pad

LEMMA StepTyped ==
  ASSUME NEW c \in States, SboxSize \in Nat \ {0}
  PROVE  /\ StepI(c) \in Places /\ StepJ(c) \in Places
         /\ StepBox(c) \in [Places -> Places] /\ Pad(c) \in Nat
  <1>1. /\ c.i \in Places /\ c.j \in Places /\ c.sbox \in [Places -> Places]
    BY DEF States
  <1>2. \A p \in Places : p \in Nat
    BY DEF Places
  <1>3. StepI(c) \in Places
    <2>1. c.i + 1 \in Nat
      BY <1>1, <1>2
    <2> QED
      BY <2>1, ModInPlaces DEF StepI
  <1>4. StepJ(c) \in Places
    <2>1. c.sbox[StepI(c)] \in Places
      BY <1>1, <1>3
    <2>2. c.j + c.sbox[StepI(c)] \in Nat
      BY <1>1, <1>2, <2>1
    <2> QED
      BY <2>2, ModInPlaces DEF StepJ
  <1>5. StepBox(c) \in [Places -> Places]
    BY <1>1, <1>3, <1>4, SwapTyped DEF StepBox
  <1>6. Pad(c) \in Nat
    <2>1. StepBox(c)[StepI(c)] \in Places /\ StepBox(c)[StepJ(c)] \in Places
      BY <1>3, <1>4, <1>5
    <2>2. StepBox(c)[StepI(c)] + StepBox(c)[StepJ(c)] \in Nat
      BY <1>2, <2>1
    <2>3. (StepBox(c)[StepI(c)] + StepBox(c)[StepJ(c)]) % SboxSize \in Places
      BY <2>2, ModInPlaces
    <2> QED
      BY <1>2, <1>5, <2>3 DEF Pad
  <1> QED
    BY <1>3, <1>4, <1>5, <1>6

LEMMA DoStepTyped ==
  ASSUME NEW ctx \in States, NEW x \in Byte, SboxSize \in Nat \ {0}
  PROVE  DoByte(ctx, x) \in States
  <1>1. /\ StepI(ctx) \in Places /\ StepJ(ctx) \in Places
        /\ StepBox(ctx) \in [Places -> Places] /\ Pad(ctx) \in Nat
    BY StepTyped
  <1>2. Xor(x, Pad(ctx)) \in Byte
    BY <1>1, XorTwice
  <1>3. ctx.out \in Seq(Byte)
    BY DEF States
  <1>4. Append(ctx.out, Xor(x, Pad(ctx))) \in Seq(Byte)
    BY <1>2, <1>3
  <1> QED
    BY <1>1, <1>4, DoByteIs, Zenon DEF States

DoTurns(ctx, s, it) ==
  it = [T \in SUBSET DOMAIN s |->
          IF T = {} THEN ctx ELSE DoByte(it[T \ {Max(T)}], s[Max(T)])]

LEMMA DoIsFold ==
  ASSUME NEW ctx, NEW s, SboxSize \in Nat \ {0}
  PROVE  FoldLeft(DoByte, ctx, s) = (CHOOSE it : DoTurns(ctx, s, it))[DOMAIN s]
  BY Zenon DEF FoldLeft, MapThenFoldSet, DoTurns

DoRun(ctx, s, c) ==
  /\ c[0] = ctx
  /\ \A k \in 1..Len(s) : c[k] = DoByte(c[k - 1], s[k])

LEMMA DoHasRun ==
  ASSUME NEW ctx \in States, NEW s \in Seq(Byte), SboxSize \in Nat \ {0}
  PROVE  \E c : /\ DoRun(ctx, s, c)
                /\ FoldLeft(DoByte, ctx, s) = c[Len(s)]
                /\ FoldLeft(DoByte, ctx, s) \in States
  <1> DEFINE n == Len(s)
  <1> DEFINE f == [k \in 1..n |-> [c \in States |-> DoByte(c, s[k])]]
  <1>1. n \in Nat /\ DOMAIN s = 1..n /\ \A k \in 1..n : s[k] \in Byte
    OBVIOUS
  <1>2. \A k \in 1..n, c \in States : DoByte(c, s[k]) \in States
    BY <1>1, DoStepTyped
  <1>3. f \in [1..n -> [States -> States]]
    BY <1>2
  <1>4. PICK it \in [SUBSET (1..n) -> States] : Turns(f, ctx, n, it)
    <2> HIDE DEF f, n
    <2>1. HasTurns(States, f, ctx, n)
      BY <1>1, <1>3, TurnsExist
    <2> QED
      BY <2>1 DEF HasTurns
  <1>5. DoTurns(ctx, s, it)
    <2>1. \A T \in SUBSET (1..n) : T # {} =>
            f[Max(T)][it[T \ {Max(T)}]] = DoByte(it[T \ {Max(T)}], s[Max(T)])
      <3> SUFFICES ASSUME NEW T \in SUBSET (1..n), T # {}
                   PROVE  f[Max(T)][it[T \ {Max(T)}]] = DoByte(it[T \ {Max(T)}], s[Max(T)])
        BY Zenon
      <3>1. Max(T) \in 1..n /\ T \ {Max(T)} \in SUBSET (1..n)
        BY <1>1, MaxOfSet, Zenon
      <3>2. it[T \ {Max(T)}] \in States
        BY <3>1
      <3> QED
        BY <3>1, <3>2
    <2> HIDE DEF f, n
    <2>2. it = [T \in SUBSET (1..n) |-> IF T = {} THEN ctx ELSE f[Max(T)][it[T \ {Max(T)}]]]
      BY <1>4, Zenon DEF Turns
    <2>3. it = [T \in SUBSET (1..n) |-> IF T = {} THEN ctx
                                        ELSE DoByte(it[T \ {Max(T)}], s[Max(T)])]
      BY ONLY <2>1, <2>2, Zenon
    <2> QED
      BY <1>1, <2>3, Zenon DEF DoTurns
  <1> DEFINE all == CHOOSE t : DoTurns(ctx, s, t)
             c == [k \in 0..n |-> all[1..k]]
  <1>6. DoTurns(ctx, s, all)
    BY <1>5
  <1>7. FoldLeft(DoByte, ctx, s) = all[1..n]
    <2>1. FoldLeft(DoByte, ctx, s) = all[DOMAIN s]
      BY DoIsFold, Zenon
    <2> QED
      BY <1>1, <2>1
  <1> HIDE DEF f, n, all
  <1>8. \A T \in SUBSET (1..n) : all[T] = IF T = {} THEN ctx
                                          ELSE DoByte(all[T \ {Max(T)}], s[Max(T)])
    BY <1>1, <1>6, Zenon DEF DoTurns
  <1>9. c[0] = ctx
    <2>1. 1..0 = {} /\ 0 \in 0..n
      BY <1>1
    <2> QED
      BY <1>8, <2>1, Zenon
  <1>10. ASSUME NEW k \in 1..n PROVE c[k] = DoByte(c[k - 1], s[k])
    <2>1. k \in 0..n /\ k - 1 \in 0..n
      BY <1>1
    <2>2. c[k] = all[1..k] /\ c[k - 1] = all[1 .. k - 1]
      BY <2>1
    <2> HIDE DEF c
    <2>3. all[1..k] = DoByte(all[1 .. k - 1], s[k])
      BY <1>1, <1>8, PrefixMax, Zenon
    <2> QED
      BY <2>2, <2>3
  <1>11. n \in 0..n /\ c[n] = all[1..n]
    BY <1>1
  <1> HIDE DEF c
  <1>12. \A k \in 0..n : c[k] \in States
    <2>1. \A k \in 1..n : c[k - 1] \in States => c[k] \in States
      BY <1>2, <1>10
    <2> QED
      BY ONLY <1>1, <1>9, <2>1, ctx \in States, RunTyped, Zenon
  <1>13. DoRun(ctx, s, c)
    BY <1>9, <1>10 DEF DoRun, n
  <1> QED
    BY <1>7, <1>11, <1>12, <1>13 DEF n

LEMMA DoFold ==
  ASSUME NEW ctx \in States, NEW s \in Seq(Byte), NEW x \in Byte, SboxSize \in Nat \ {0}
  PROVE  /\ FoldLeft(DoByte, ctx, <<>>) = ctx
         /\ FoldLeft(DoByte, ctx, s) \in States
         /\ FoldLeft(DoByte, ctx, Append(s, x)) = DoByte(FoldLeft(DoByte, ctx, s), x)
  <1> DEFINE n == Len(s)
             t == Append(s, x)
  <1>1. /\ n \in Nat /\ t \in Seq(Byte) /\ Len(t) = n + 1 /\ t[n + 1] = x
        /\ \A k \in 1..n : t[k] = s[k]
    OBVIOUS
  <1>2. <<>> \in Seq(Byte) /\ Len(<<>>) = 0
    OBVIOUS
  <1>3. PICK e : DoRun(ctx, <<>>, e) /\ FoldLeft(DoByte, ctx, <<>>) = e[0]
    BY <1>2, DoHasRun, Zenon
  <1>4. PICK c : DoRun(ctx, s, c) /\ FoldLeft(DoByte, ctx, s) = c[n] /\ FoldLeft(DoByte, ctx, s) \in States
    BY DoHasRun
  <1> HIDE DEF t, n
  <1>5. PICK d : DoRun(ctx, t, d) /\ FoldLeft(DoByte, ctx, t) = d[n + 1]
    <2>1. PICK d : DoRun(ctx, t, d) /\ FoldLeft(DoByte, ctx, t) = d[Len(t)]
      BY <1>1, DoHasRun, Zenon
    <2> QED
      BY <1>1, <2>1
  <1>6. c[0] = d[0]
    BY <1>4, <1>5 DEF DoRun
  <1>7. \A k \in 1..n : c[k] = DoByte(c[k - 1], s[k]) /\ d[k] = DoByte(d[k - 1], s[k])
    <2>1. \A k \in 1..n : c[k] = DoByte(c[k - 1], s[k])
      BY <1>4 DEF DoRun, n
    <2>2. \A k \in 1 .. n + 1 : d[k] = DoByte(d[k - 1], t[k])
      BY <1>1, <1>5 DEF DoRun
    <2>3. \A k \in 1..n : k \in 1 .. n + 1
      BY <1>1
    <2> QED
      BY <1>1, <2>1, <2>2, <2>3
  <1>8. \A k \in 0..n : c[k] = d[k]
    <2>1. StayTogether(n, c, d)
      BY <1>7 DEF StayTogether
    <2>2. n \in Nat
      BY <1>1
    <2> QED
      BY ONLY <1>6, <2>1, <2>2, RunsAgree
  <1>9. n \in 0..n /\ n + 1 \in 1 .. n + 1 /\ (n + 1) - 1 = n
    BY <1>1
  <1>10. d[n + 1] = DoByte(d[n], x)
    BY <1>1, <1>5, <1>9 DEF DoRun
  <1>11. FoldLeft(DoByte, ctx, t) = DoByte(FoldLeft(DoByte, ctx, s), x)
    BY <1>4, <1>5, <1>8, <1>9, <1>10
  <1> QED
    BY <1>3, <1>4, <1>11 DEF DoRun, t

-----------------------------------------------------------------------------
(* What pushing a group of bits does to the pending ones.                    *)

LEMMA SeqSplit ==
  ASSUME NEW S, NEW s \in Seq(S), NEW k \in 0..Len(s)
  PROVE  /\ SubSeq(s, 1, k) \in Seq(S) /\ Len(SubSeq(s, 1, k)) = k
         /\ SubSeq(s, k + 1, Len(s)) \in Seq(S) /\ Len(SubSeq(s, k + 1, Len(s))) = Len(s) - k
         /\ SubSeq(s, 1, k) \o SubSeq(s, k + 1, Len(s)) = s
  <1>1. /\ SubSeq(s, 1, k) \in Seq(S) /\ Len(SubSeq(s, 1, k)) = k
        /\ SubSeq(s, k + 1, Len(s)) \in Seq(S) /\ Len(SubSeq(s, k + 1, Len(s))) = Len(s) - k
    OBVIOUS
  <1>2. /\ 1 \in 1 .. Len(s) + 1 /\ k \in 1 - 1 .. Len(s) /\ Len(s) \in k .. Len(s)
    OBVIOUS
  <1>3. SubSeq(s, 1, k) \o SubSeq(s, k + 1, Len(s)) = SubSeq(s, 1, Len(s))
    BY <1>2, ConcatAdjacentSubSeq, Zenon
  <1> QED
    BY <1>1, <1>3, SubSeqFull, Zenon

LEMMA SeqCut ==
  ASSUME NEW S, NEW s \in Seq(S), NEW n \in Nat, NEW k \in 0..n, Len(s) = n
  PROVE  \E a \in Seq(S), b \in Seq(S) : Len(a) = k /\ Len(b) = n - k /\ a \o b = s
  <1> DEFINE a == SubSeq(s, 1, k)
             b == SubSeq(s, k + 1, Len(s))
  <1>1. k \in 0..Len(s)
    OBVIOUS
  <1>2. a \in Seq(S) /\ b \in Seq(S) /\ Len(a) = k /\ Len(b) = Len(s) - k /\ a \o b = s
    BY <1>1, SeqSplit
  <1> HIDE DEF a, b
  <1>3. Len(b) = n - k
    BY <1>2
  <1> QED
    BY Zenon, <1>2, <1>3

LEMMA SeqEmpty ==
  ASSUME NEW S, NEW s \in Seq(S)
  PROVE  /\ <<>> \in Seq(S) /\ Len(<<>>) = 0 /\ <<>> \o s = s /\ s \o <<>> = s
         /\ (s = <<>> <=> Len(s) = 0)
  BY ConcatEmptySeq

LEMMA SeqJoin ==
  ASSUME NEW S, NEW a \in Seq(S), NEW b \in Seq(S)
  PROVE  /\ a \o b \in Seq(S) /\ Len(a \o b) = Len(a) + Len(b)
         /\ SubSeq(a \o b, 1, Len(a)) = a
         /\ SubSeq(a \o b, Len(a) + 1, Len(a) + Len(b)) = b
  OBVIOUS

LEMMA AppendToJoin ==
  ASSUME NEW S, NEW a \in Seq(S), NEW b \in Seq(S), NEW x \in S
  PROVE  /\ Append(a \o b, x) = a \o Append(b, x)
         /\ Len(Append(a \o b, x)) = Len(a) + Len(b) + 1
  <1>1. a \o b \in Seq(S) /\ <<x>> \in Seq(S) /\ Len(a \o b) = Len(a) + Len(b)
    OBVIOUS
  <1>2. Append(a \o b, x) = (a \o b) \o <<x>> /\ Append(b, x) = b \o <<x>>
    BY <1>1, AppendIsConcat
  <1>3. (a \o b) \o <<x>> = a \o (b \o <<x>>)
    BY <1>1, ConcatAssociative
  <1> QED
    BY <1>1, <1>2, <1>3

LEMMA SeqLast ==
  ASSUME NEW S, NEW s \in Seq(S), NEW n \in Nat, Len(s) = n + 1
  PROVE  \E a \in Seq(S), x \in S : s = Append(a, x) /\ Len(a) = n
  <1>1. /\ SubSeq(s, 1, n) \in Seq(S) /\ s[n + 1] \in S
        /\ s = Append(SubSeq(s, 1, n), s[n + 1]) /\ Len(SubSeq(s, 1, n)) = n
    OBVIOUS
  <1> QED
    BY <1>1, Zenon

Pending(p, o) == [pending |-> p, out |-> o]

LEMMA ContextIs ==
  ASSUME NEW ctx \in Contexts
  PROVE  /\ ctx.pending \in Seq(Bit) /\ ctx.out \in Seq(Seq(Bit))
         /\ ctx = Pending(ctx.pending, ctx.out)
  BY DEF Contexts, Pending

LEMMA PendingTyped ==
  ASSUME NEW p \in Seq(Bit), NEW o \in Seq(Seq(Bit))
  PROVE  /\ Pending(p, o) \in Contexts
         /\ Pending(p, o).pending = p /\ Pending(p, o).out = o
  BY DEF Contexts, Pending

LEMMA PushBitIs ==
  ASSUME NEW p, NEW o, NEW x, NEW w
  PROVE  PushBit(Pending(p, o), x, w) =
           IF Len(Append(p, x)) < w THEN Pending(Append(p, x), o)
           ELSE Pending(<<>>, Append(o, Append(p, x)))
  <1>1. [Pending(p, o) EXCEPT !.pending = Append(p, x)] = Pending(Append(p, x), o)
    BY DEF Pending
  <1>2. Pending(p, o).pending = p /\ Pending(p, o).out = o
    BY DEF Pending
  <1>3. PushBit(Pending(p, o), x, w) =
          IF Len(Append(p, x)) < w THEN [Pending(p, o) EXCEPT !.pending = Append(p, x)]
          ELSE [pending |-> <<>>, out |-> Append(o, Append(p, x))]
    BY <1>2 DEF PushBit
  <1> QED
    BY <1>1, <1>3 DEF Pending

(* Too few bits for a group wait.                                            *)
PushesShort(p, o, w, n) ==
  \A bits \in Seq(Bit) : (Len(bits) = n /\ Len(p) + n < w)
                           => Push(Pending(p, o), bits, w) = Pending(p \o bits, o)

LEMMA PushShort ==
  ASSUME NEW p \in Seq(Bit), NEW o \in Seq(Seq(Bit)), NEW w \in Nat, NEW bits \in Seq(Bit),
         Len(p) + Len(bits) < w
  PROVE  Push(Pending(p, o), bits, w) = Pending(p \o bits, o)
  <1> DEFINE Good == {n \in Nat : PushesShort(p, o, w, n)}
  <1>1. 0 \in Good
    <2>1. ASSUME NEW b \in Seq(Bit), Len(b) = 0
          PROVE  Push(Pending(p, o), b, w) = Pending(p \o b, o)
      <3>1. b = <<>> /\ p \o b = p
        BY <2>1
      <3>2. Push(Pending(p, o), <<>>, w) = Pending(p, o)
        BY PendingTyped, PushFold, 0 \in Bit DEF Bit
      <3> QED
        BY <3>1, <3>2
    <2> QED
      BY <2>1 DEF PushesShort
  <1>2. ASSUME NEW n \in Nat, n \in Good PROVE n + 1 \in Good
    <2>1. ASSUME NEW b \in Seq(Bit), Len(b) = n + 1, Len(p) + (n + 1) < w
          PROVE  Push(Pending(p, o), b, w) = Pending(p \o b, o)
      <3>1. PICK a \in Seq(Bit), x \in Bit : b = Append(a, x) /\ Len(a) = n
        BY <2>1, SeqLast, Zenon
      <3>2. Push(Pending(p, o), a, w) = Pending(p \o a, o)
        <4>1. PushesShort(p, o, w, n) /\ Len(p) + n < w
          BY <1>2, <2>1
        <4> QED
          BY <3>1, <4>1 DEF PushesShort
      <3>3. Push(Pending(p, o), Append(a, x), w) = PushBit(Pending(p \o a, o), x, w)
        BY <3>2, PendingTyped, PushFold
      <3>4. Append(p \o a, x) = p \o b /\ Len(Append(p \o a, x)) < w
        <4>1. Append(p \o a, x) = p \o Append(a, x)
              /\ Len(Append(p \o a, x)) = Len(p) + Len(a) + 1
          BY ONLY <3>1, AppendToJoin, p \in Seq(Bit), a \in Seq(Bit), x \in Bit, Zenon
        <4>2. Len(p) \in Nat
          OBVIOUS
        <4>3. Len(p) + Len(a) + 1 < w
          BY ONLY <2>1, <3>1, <4>2, n \in Nat, w \in Nat
        <4> QED
          BY ONLY <3>1, <4>1, <4>3
      <3> QED
        BY <3>1, <3>3, <3>4, PushBitIs, Zenon
    <2> QED
      BY <2>1 DEF PushesShort
  <1> HIDE DEF Good
  <1>3. Len(bits) \in Good
    BY <1>1, <1>2, SetInduction, Len(bits) \in Nat
  <1> QED
    BY <1>3 DEF Good, PushesShort

(* Bits that complete a group hand it over.                                  *)
LEMMA PushFull ==
  ASSUME NEW p \in Seq(Bit), NEW o \in Seq(Seq(Bit)), NEW w \in Nat, NEW bits \in Seq(Bit),
         Len(p) + Len(bits) = w, bits # <<>>
  PROVE  Push(Pending(p, o), bits, w) = Pending(<<>>, Append(o, p \o bits))
  <1>1. Len(bits) \in Nat /\ Len(bits) # 0 /\ Len(p) \in Nat
    OBVIOUS
  <1>2. PICK n \in Nat : Len(bits) = n + 1
    <2>1. Len(bits) - 1 \in Nat /\ Len(bits) = (Len(bits) - 1) + 1
      BY <1>1
    <2> QED
      BY <2>1, Zenon
  <1>3. PICK a \in Seq(Bit), x \in Bit : bits = Append(a, x) /\ Len(a) = n
    BY <1>2, SeqLast, Zenon
  <1>4. Push(Pending(p, o), a, w) = Pending(p \o a, o)
    <2>1. Len(p) + Len(a) < w
      BY <1>1, <1>2, <1>3
    <2> QED
      BY <2>1, PushShort
  <1>5. Push(Pending(p, o), Append(a, x), w) = PushBit(Pending(p \o a, o), x, w)
    BY <1>4, PendingTyped, PushFold
  <1>6. Append(p \o a, x) = p \o bits /\ ~ (Len(Append(p \o a, x)) < w)
    <2>1. Append(p \o a, x) = p \o Append(a, x) /\ Len(Append(p \o a, x)) = Len(p) + Len(a) + 1
      BY ONLY AppendToJoin, p \in Seq(Bit), a \in Seq(Bit), x \in Bit, Zenon
    <2>2. ~ (Len(p) + Len(a) + 1 < w)
      BY ONLY <1>1, <1>2, <1>3, n \in Nat, w \in Nat, Len(p) + Len(bits) = w
    <2> QED
      BY ONLY <1>3, <2>1, <2>2
  <1>7. PushBit(Pending(p \o a, o), x, w) = Pending(<<>>, Append(o, Append(p \o a, x)))
    BY <1>6, PushBitIs, Zenon
  <1> QED
    BY <1>3, <1>5, <1>6, <1>7

(* Bits may be pushed in two portions.                                       *)
PushesParts(ctx, a, w, n) ==
  \A b \in Seq(Bit) : Len(b) = n => Push(ctx, a \o b, w) = Push(Push(ctx, a, w), b, w)

LEMMA PushParts ==
  ASSUME NEW ctx \in Contexts, NEW a \in Seq(Bit), NEW b \in Seq(Bit), NEW w \in Nat
  PROVE  Push(ctx, a \o b, w) = Push(Push(ctx, a, w), b, w)
  <1> DEFINE Good == {n \in Nat : PushesParts(ctx, a, w, n)}
  <1>0. Push(ctx, a, w) \in Contexts
    BY PushFold, 0 \in Bit DEF Bit
  <1>1. 0 \in Good
    <2>1. ASSUME NEW c \in Seq(Bit), Len(c) = 0
          PROVE  Push(ctx, a \o c, w) = Push(Push(ctx, a, w), c, w)
      <3>1. c = <<>> /\ a \o c = a
        BY <2>1
      <3>2. Push(Push(ctx, a, w), <<>>, w) = Push(ctx, a, w)
        BY <1>0, PushFold, 0 \in Bit DEF Bit
      <3> QED
        BY <3>1, <3>2
    <2> QED
      BY <2>1 DEF PushesParts
  <1>2. ASSUME NEW n \in Nat, n \in Good PROVE n + 1 \in Good
    <2>1. ASSUME NEW c \in Seq(Bit), Len(c) = n + 1
          PROVE  Push(ctx, a \o c, w) = Push(Push(ctx, a, w), c, w)
      <3>1. PICK d \in Seq(Bit), x \in Bit : c = Append(d, x) /\ Len(d) = n
        BY <2>1, SeqLast, Zenon
      <3>2. Push(ctx, a \o d, w) = Push(Push(ctx, a, w), d, w)
        <4>1. PushesParts(ctx, a, w, n)
          BY <1>2
        <4> QED
          BY <3>1, <4>1 DEF PushesParts
      <3>3. a \o c = Append(a \o d, x) /\ a \o d \in Seq(Bit)
        BY <3>1, AppendToJoin
      <3>4. Push(ctx, Append(a \o d, x), w) = PushBit(Push(ctx, a \o d, w), x, w)
        <4>1. ASSUME NEW e \in Seq(Bit)
              PROVE  Push(ctx, Append(e, x), w) = PushBit(Push(ctx, e, w), x, w)
          BY PushFold
        <4> QED
          BY <3>3, <4>1, Zenon
      <3>5. Push(Push(ctx, a, w), Append(d, x), w) = PushBit(Push(Push(ctx, a, w), d, w), x, w)
        BY <1>0, PushFold
      <3> QED
        BY <3>1, <3>2, <3>3, <3>4, <3>5
    <2> QED
      BY <2>1 DEF PushesParts
  <1> HIDE DEF Good
  <1>3. Len(b) \in Good
    BY <1>1, <1>2, SetInduction, Len(b) \in Nat
  <1> QED
    BY <1>3 DEF Good, PushesParts

(* A group is completed and the rest waits.                                  *)
LEMMA PushOver ==
  ASSUME NEW p \in Seq(Bit), NEW o \in Seq(Seq(Bit)), NEW w \in Nat,
         NEW a \in Seq(Bit), NEW b \in Seq(Bit),
         Len(p) + Len(a) = w, a # <<>>, Len(b) < w
  PROVE  Push(Pending(p, o), a \o b, w) = Pending(b, Append(o, p \o a))
  <1>1. Pending(p, o) \in Contexts
    BY PendingTyped
  <1>2. Push(Pending(p, o), a \o b, w) = Push(Pending(<<>>, Append(o, p \o a)), b, w)
    BY <1>1, PushParts, PushFull
  <1>3. <<>> \in Seq(Bit) /\ Append(o, p \o a) \in Seq(Seq(Bit)) /\ <<>> \o b = b
        /\ Len(<<>>) + Len(b) < w
    <2>1. p \o a \in Seq(Bit)
      OBVIOUS
    <2>2. Append(o, p \o a) \in Seq(Seq(Bit))
      BY <2>1
    <2> QED
      BY <2>2
  <1>4. Push(Pending(<<>>, Append(o, p \o a)), b, w) = Pending(<<>> \o b, Append(o, p \o a))
    BY ONLY <1>3, PushShort, w \in Nat, b \in Seq(Bit)
  <1> QED
    BY <1>2, <1>3, <1>4

-----------------------------------------------------------------------------
(* The decoder keeps up with the encoder: after every byte, it has read all  *)
(* characters that were written, and what it has decoded, what it keeps      *)
(* pending and what the encoder keeps pending are, in this order, the bytes. *)

AllBits(bytes) == [k \in DOMAIN bytes |-> BitsOf(bytes[k], 8)]
Coder(bytes) == FoldLeft(EncodeByte, NoContext, bytes)
Reader(text) == FoldLeft(DecodeByte, NoContext, text)

InStep(e, d, bytes) ==
  /\ e \in Contexts /\ d \in Contexts
  /\ Len(e.pending) = (2 * Len(bytes)) % 6
  /\ \/ e.pending = <<>> /\ d.pending = <<>> /\ d.out = AllBits(bytes)
     \/ /\ Len(e.pending) \in {2, 4} /\ Len(d.pending) = 8 - Len(e.pending)
        /\ Append(d.out, d.pending \o e.pending) = AllBits(bytes)

LEMMA NoContextTyped == NoContext \in Contexts /\ NoContext.pending = <<>> /\ NoContext.out = <<>>
  BY DEF NoContext, Contexts

LEMMA AllBitsGrow ==
  ASSUME NEW s \in Seq(Byte), NEW x \in Byte
  PROVE  /\ AllBits(s) \in Seq(Seq(Bit)) /\ Len(AllBits(s)) = Len(s)
         /\ AllBits(Append(s, x)) = Append(AllBits(s), BitsOf(x, 8))
  <1>1. \A b \in Byte : BitsOf(b, 8) \in Seq(Bit)
    <2>1. \A b \in Byte : b \in Nat
      BY DEF Byte
    <2>2. 8 \in 1..8
      OBVIOUS
    <2> QED
      BY <2>1, <2>2, BitsTyped, Zenon
  <1>2. AllBits(s) \in Seq(Seq(Bit)) /\ Len(AllBits(s)) = Len(s)
    <2>1. DOMAIN s = 1..Len(s) /\ \A k \in 1..Len(s) : s[k] \in Byte
      OBVIOUS
    <2>2. \A k \in 1..Len(s) : BitsOf(s[k], 8) \in Seq(Bit)
      BY <1>1, <2>1
    <2>3. AllBits(s) = [k \in 1..Len(s) |-> BitsOf(s[k], 8)]
      BY <2>1 DEF AllBits
    <2> QED
      BY <2>2, <2>3, Len(s) \in Nat
  <1>3. Append(s, x) \in Seq(Byte) /\ Len(Append(s, x)) = Len(s) + 1
    OBVIOUS
  <1>4. AllBits(Append(s, x)) \in Seq(Seq(Bit)) /\ Len(AllBits(Append(s, x))) = Len(s) + 1
    BY <1>1, <1>3 DEF AllBits
  <1>5. Append(AllBits(s), BitsOf(x, 8)) \in Seq(Seq(Bit))
        /\ Len(Append(AllBits(s), BitsOf(x, 8))) = Len(s) + 1
    BY <1>1, <1>2
  <1>6. ASSUME NEW k \in 1 .. Len(s) + 1
        PROVE  AllBits(Append(s, x))[k] = Append(AllBits(s), BitsOf(x, 8))[k]
    <2>1. DOMAIN Append(s, x) = 1 .. Len(s) + 1 /\ DOMAIN s = 1..Len(s)
      OBVIOUS
    <2>2. AllBits(Append(s, x))[k] = BitsOf(Append(s, x)[k], 8)
      BY <2>1 DEF AllBits
    <2>3. CASE k = Len(s) + 1
      <3>1. Append(s, x)[k] = x
        BY <2>3
      <3>2. Append(AllBits(s), BitsOf(x, 8))[k] = BitsOf(x, 8)
        BY <1>1, <1>2, <2>3
      <3> QED
        BY <2>2, <3>1, <3>2, Zenon
    <2>4. CASE k \in 1..Len(s)
      <3>1. Append(s, x)[k] = s[k] /\ AllBits(s)[k] = BitsOf(s[k], 8)
        BY <2>1, <2>4 DEF AllBits
      <3>2. Append(AllBits(s), BitsOf(x, 8))[k] = AllBits(s)[k]
        BY <1>2, <2>4
      <3> QED
        BY <2>2, <3>1, <3>2, Zenon
    <2>5. k = Len(s) + 1 \/ k \in 1..Len(s)
      OBVIOUS
    <2> QED
      BY <2>3, <2>4, <2>5, Zenon
  <1>7. AllBits(Append(s, x)) = Append(AllBits(s), BitsOf(x, 8))
    BY <1>4, <1>5, <1>6, SeqEqual, Zenon
  <1> QED
    BY <1>2, <1>7

(* One byte, with nothing, two or four bits pending before it.               *)
LEMMA EncodeFirst ==
  ASSUME NEW o \in Seq(Seq(Bit)), NEW b \in Seq(Bit), Len(b) = 8
  PROVE  \E c \in Seq(Bit), r \in Seq(Bit) :
           /\ Len(c) = 6 /\ Len(r) = 2 /\ c \o r = b
           /\ Push(Pending(<<>>, o), b, 6) = Pending(r, Append(o, c))
  <1>1. PICK c \in Seq(Bit), r \in Seq(Bit) : Len(c) = 6 /\ Len(r) = 2 /\ c \o r = b
    <2>1. PICK c \in Seq(Bit), r \in Seq(Bit) : Len(c) = 6 /\ Len(r) = 8 - 6 /\ c \o r = b
      <3>1. 6 \in 0..8 /\ 8 \in Nat
        OBVIOUS
      <3> QED
        BY Zenon, <3>1, SeqCut
    <2>2. Len(r) = 2
      BY ONLY <2>1
    <2> QED
      BY Zenon, <2>1, <2>2
  <1>2. /\ Len(<<>>) + Len(c) = 6 /\ Len(r) < 6
        /\ <<>> \in Seq(Bit) /\ <<>> \o c = c /\ c # <<>>
    BY <1>1, SeqEmpty
  <1>3. Push(Pending(<<>>, o), c \o r, 6) = Pending(r, Append(o, <<>> \o c))
    <2>1. 6 \in Nat
      OBVIOUS
    <2> QED
      BY <1>2, <2>1, PushOver, Zenon
  <1> QED
    BY <1>1, <1>2, <1>3, Zenon

LEMMA EncodeSecond ==
  ASSUME NEW p \in Seq(Bit), Len(p) = 2,
         NEW o \in Seq(Seq(Bit)), NEW b \in Seq(Bit), Len(b) = 8
  PROVE  \E c \in Seq(Bit), r \in Seq(Bit) :
           /\ Len(c) = 4 /\ Len(r) = 4 /\ c \o r = b
           /\ Push(Pending(p, o), b, 6) = Pending(r, Append(o, p \o c))
  <1>1. PICK c \in Seq(Bit), r \in Seq(Bit) : Len(c) = 4 /\ Len(r) = 4 /\ c \o r = b
    <2>1. PICK c \in Seq(Bit), r \in Seq(Bit) : Len(c) = 4 /\ Len(r) = 8 - 4 /\ c \o r = b
      <3>1. 4 \in 0..8 /\ 8 \in Nat
        OBVIOUS
      <3> QED
        BY Zenon, <3>1, SeqCut
    <2>2. Len(r) = 4
      BY ONLY <2>1
    <2> QED
      BY Zenon, <2>1, <2>2
  <1>2. Len(p) + Len(c) = 6 /\ Len(r) < 6 /\ c # <<>>
    BY <1>1, SeqEmpty
  <1>3. Push(Pending(p, o), c \o r, 6) = Pending(r, Append(o, p \o c))
    BY ONLY <1>2, PushOver, 6 \in Nat, p \in Seq(Bit), o \in Seq(Seq(Bit)),
            c \in Seq(Bit), r \in Seq(Bit)
  <1> QED
    BY <1>1, <1>3, Zenon

LEMMA EncodeThird ==
  ASSUME NEW p \in Seq(Bit), Len(p) = 4,
         NEW o \in Seq(Seq(Bit)), NEW b \in Seq(Bit), Len(b) = 8
  PROVE  \E c \in Seq(Bit), r \in Seq(Bit) :
           /\ Len(c) = 2 /\ Len(r) = 6 /\ c \o r = b
           /\ Push(Pending(p, o), b, 6) = Pending(<<>>, Append(Append(o, p \o c), r))
  <1>1. PICK c \in Seq(Bit), r \in Seq(Bit) : Len(c) = 2 /\ Len(r) = 6 /\ c \o r = b
    <2>1. PICK c \in Seq(Bit), r \in Seq(Bit) : Len(c) = 2 /\ Len(r) = 8 - 2 /\ c \o r = b
      <3>1. 2 \in 0..8 /\ 8 \in Nat
        OBVIOUS
      <3> QED
        BY Zenon, <3>1, SeqCut
    <2>2. Len(r) = 6
      BY ONLY <2>1
    <2> QED
      BY Zenon, <2>1, <2>2
  <1>2. /\ Len(p) + Len(c) = 6 /\ Len(<<>>) + Len(r) = 6 /\ c # <<>> /\ r # <<>>
        /\ <<>> \in Seq(Bit) /\ <<>> \o r = r
    <2>1. /\ <<>> \in Seq(Bit) /\ <<>> \o r = r /\ Len(<<>>) = 0
          /\ (c = <<>> <=> Len(c) = 0) /\ (r = <<>> <=> Len(r) = 0)
      BY SeqEmpty
    <2> QED
      BY ONLY <1>1, <2>1, Len(p) = 4
  <1>3. Push(Pending(p, o), c, 6) = Pending(<<>>, Append(o, p \o c))
    BY <1>2, PushFull, 6 \in Nat
  <1>4. Push(Pending(p, o), c \o r, 6) = Push(Push(Pending(p, o), c, 6), r, 6)
    BY PendingTyped, PushParts, 6 \in Nat
  <1>5. Append(o, p \o c) \in Seq(Seq(Bit))
    <2>1. p \o c \in Seq(Bit)
      OBVIOUS
    <2> QED
      BY <2>1
  <1>6. Push(Pending(<<>>, Append(o, p \o c)), r, 6)
          = Pending(<<>>, Append(Append(o, p \o c), <<>> \o r))
    BY <1>2, <1>5, PushFull, 6 \in Nat
  <1> QED
    BY <1>1, <1>2, <1>3, <1>4, <1>6, Zenon

(* A character completes a byte of which the decoder has the first bits.     *)
LEMMA DecodeOver ==
  ASSUME NEW q \in Seq(Bit), NEW a \in Seq(Bit), NEW r \in Seq(Bit),
         NEW o \in Seq(Seq(Bit)), Len(q) + Len(a) = 8, Len(a) + Len(r) = 6, a # <<>>
  PROVE  DecodeByte(Pending(q, o), a \o r) = Pending(r, Append(o, q \o a))
  <1>1. a \o r \in Seq(Bit) /\ a \o r # <<>> /\ Len(r) < 8
    OBVIOUS
  <1>2. Dec(a \o r) = a \o r
    BY <1>1, DecTyped, Zenon
  <1>3. Push(Pending(q, o), a \o r, 8) = Pending(r, Append(o, q \o a))
    BY <1>1, PushOver
  <1> QED
    BY <1>2, <1>3 DEF DecodeByte

LEMMA DecodeFirst ==
  ASSUME NEW c \in Seq(Bit), NEW o \in Seq(Seq(Bit)), Len(c) = 6
  PROVE  DecodeByte(Pending(<<>>, o), c) = Pending(c, o)
  <1>1. /\ <<>> \in Seq(Bit) /\ Len(<<>>) + Len(c) < 8 /\ <<>> \o c = c /\ c # <<>>
    <2>1. /\ <<>> \in Seq(Bit) /\ <<>> \o c = c /\ Len(<<>>) = 0
          /\ (c = <<>> <=> Len(c) = 0)
      BY SeqEmpty, Zenon
    <2> QED
      BY ONLY <2>1, Len(c) = 6
  <1>2. Push(Pending(<<>>, o), c, 8) = Pending(<<>> \o c, o)
    BY ONLY <1>1, PushShort, 8 \in Nat, c \in Seq(Bit), o \in Seq(Seq(Bit))
  <1> QED
    BY <1>1, <1>2, DecTyped DEF DecodeByte

LEMMA ReaderReads ==
  ASSUME NEW o \in Seq(Seq(Bit)), NEW c \in Seq(Bit)
  PROVE  Reader(o) \in Contexts /\ Reader(Append(o, c)) = DecodeByte(Reader(o), c)
  BY NoContextTyped, DecodeFold, Zenon DEF Reader

LEMMA CoderCodes ==
  ASSUME NEW s \in Seq(Byte), NEW x \in Byte
  PROVE  /\ Coder(s) \in Contexts
         /\ Coder(Append(s, x)) = Push(Coder(s), BitsOf(x, 8), 6)
  BY NoContextTyped, EncodeFold, Zenon DEF Coder, EncodeByte

LEMMA InStepAtStart == InStep(Coder(<<>>), Reader(Coder(<<>>).out), <<>>)
  <1>0. 0 \in Byte /\ <<>> \in Seq(Byte) /\ <<>> \in Seq(Bit) /\ <<>> \in Seq(Seq(Bit))
    BY DEF Byte
  <1>1. Coder(<<>>) = NoContext
    BY ONLY <1>0, NoContextTyped, EncodeFold, Zenon DEF Coder
  <1>2. Reader(<<>>) = NoContext
    BY ONLY <1>0, NoContextTyped, DecodeFold, Zenon DEF Reader
  <1>3. AllBits(<<>>) = <<>>
    BY DEF AllBits
  <1>4. Len(<<>>) = 0 /\ (2 * 0) % 6 = 0
    OBVIOUS
  <1> QED
    BY <1>1, <1>2, <1>3, <1>4, NoContextTyped, Zenon DEF InStep

(* Coder and Reader after the bytes t, when the encoder keeps p.             *)
After(t, p, o, q, z) ==
  /\ p \in Seq(Bit) /\ o \in Seq(Seq(Bit)) /\ q \in Seq(Bit) /\ z \in Seq(Seq(Bit))
  /\ Coder(t) = Pending(p, o) /\ Reader(o) = Pending(q, z)
  /\ Len(p) = (2 * Len(t)) % 6
  /\ \/ p = <<>> /\ q = <<>> /\ z = AllBits(t)
     \/ Len(p) \in {2, 4} /\ Len(q) = 8 - Len(p) /\ Append(z, q \o p) = AllBits(t)

LEMMA InStepAfter ==
  ASSUME NEW t, NEW p, NEW o, NEW q, NEW z, After(t, p, o, q, z)
  PROVE  InStep(Coder(t), Reader(Coder(t).out), t)
  <1>1. Pending(p, o) \in Contexts /\ Pending(p, o).pending = p /\ Pending(p, o).out = o
    BY PendingTyped DEF After
  <1>2. Pending(q, z) \in Contexts /\ Pending(q, z).pending = q /\ Pending(q, z).out = z
    BY PendingTyped DEF After
  <1> QED
    BY <1>1, <1>2, Zenon DEF InStep, After

LEMMA SixthsGrow ==
  ASSUME NEW n \in Nat
  PROVE  /\ (2 * n) % 6 = 0 => (2 * (n + 1)) % 6 = 2
         /\ (2 * n) % 6 = 2 => (2 * (n + 1)) % 6 = 4
         /\ (2 * n) % 6 = 4 => (2 * (n + 1)) % 6 = 0
  OBVIOUS

LEMMA InStepGrows ==
  ASSUME NEW s \in Seq(Byte), NEW x \in Byte,
         InStep(Coder(s), Reader(Coder(s).out), s)
  PROVE  InStep(Coder(Append(s, x)), Reader(Coder(Append(s, x)).out), Append(s, x))
  <1> DEFINE b == BitsOf(x, 8)
             p == Coder(s).pending
             o == Coder(s).out
             q == Reader(o).pending
             z == Reader(o).out
             t == Append(s, x)
  <1>1. b \in Seq(Bit) /\ Len(b) = 8
    <2>1. x \in Nat /\ 8 \in 1..8
      BY DEF Byte
    <2> QED
      BY <2>1, BitsTyped
  <1>2. p \in Seq(Bit) /\ o \in Seq(Seq(Bit)) /\ Coder(s) = Pending(p, o)
    BY CoderCodes, ContextIs
  <1>3. q \in Seq(Bit) /\ z \in Seq(Seq(Bit)) /\ Reader(o) = Pending(q, z)
    BY <1>2, <1>1, ReaderReads, ContextIs
  <1>4. Coder(t) = Push(Pending(p, o), b, 6)
    BY <1>2, CoderCodes
  <1>5. AllBits(s) \in Seq(Seq(Bit)) /\ AllBits(t) = Append(AllBits(s), b)
    BY AllBitsGrow
  <1>6. Len(t) = Len(s) + 1 /\ Len(s) \in Nat
    OBVIOUS
  <1>7. /\ Len(p) = (2 * Len(s)) % 6
        /\ \/ p = <<>> /\ q = <<>> /\ z = AllBits(s)
           \/ /\ Len(p) \in {2, 4} /\ Len(q) = 8 - Len(p)
              /\ Append(z, q \o p) = AllBits(s)
    BY Zenon DEF InStep
  <1> HIDE DEF b, p, o, q, z, t
  <1>9. CASE p = <<>> /\ q = <<>> /\ z = AllBits(s)
    <2>1. PICK c \in Seq(Bit), r \in Seq(Bit) :
            /\ Len(c) = 6 /\ Len(r) = 2 /\ c \o r = b
            /\ Push(Pending(<<>>, o), b, 6) = Pending(r, Append(o, c))
      BY <1>1, <1>2, EncodeFirst, Zenon
    <2>2. Coder(t) = Pending(r, Append(o, c))
      BY <1>4, <1>9, <2>1
    <2>3. Reader(Append(o, c)) = Pending(c, AllBits(s))
      BY <1>2, <1>3, <1>5, <1>9, <2>1, ReaderReads, DecodeFirst
    <2>4. Append(o, c) \in Seq(Seq(Bit))
      BY <1>2
    <2>5. Len(r) = (2 * Len(t)) % 6
      <3>1. (2 * Len(s)) % 6 = 0
        BY ONLY <1>7, <1>9, Len(<<>>) = 0
      <3> QED
        BY ONLY <1>6, <2>1, <3>1, SixthsGrow, Zenon
    <2>6. Append(AllBits(s), c \o r) = AllBits(t)
      BY <1>5, <2>1
    <2>7. Len(r) \in {2, 4} /\ Len(c) = 8 - Len(r)
      BY ONLY <2>1
    <2>8. After(t, r, Append(o, c), c, AllBits(s))
      BY ONLY <1>5, <2>2, <2>3, <2>4, <2>5, <2>6, <2>7, c \in Seq(Bit), r \in Seq(Bit) DEF After
    <2> QED
      BY <2>8, InStepAfter DEF t
  <1>10. CASE Len(p) = 2 /\ Len(q) = 6 /\ Append(z, q \o p) = AllBits(s)
    <2>1. PICK c \in Seq(Bit), r \in Seq(Bit) :
            /\ Len(c) = 4 /\ Len(r) = 4 /\ c \o r = b
            /\ Push(Pending(p, o), b, 6) = Pending(r, Append(o, p \o c))
      BY <1>1, <1>2, <1>10, EncodeSecond, Zenon
    <2>2. Coder(t) = Pending(r, Append(o, p \o c))
      BY <1>4, <2>1
    <2>3. p \o c \in Seq(Bit)
      BY <1>2
    <2>4. Reader(Append(o, p \o c)) = Pending(c, AllBits(s))
      <3>1. Reader(Append(o, p \o c)) = DecodeByte(Pending(q, z), p \o c)
        BY <1>2, <1>3, <2>3, ReaderReads, Zenon
      <3>2. Len(q) + Len(p) = 8 /\ Len(p) + Len(c) = 6 /\ p # <<>>
        <4>1. p = <<>> <=> Len(p) = 0
          BY <1>2, SeqEmpty
        <4> QED
          BY ONLY <1>10, <2>1, <4>1
      <3>3. DecodeByte(Pending(q, z), p \o c) = Pending(c, Append(z, q \o p))
        BY ONLY <1>2, <1>3, <3>2, c \in Seq(Bit), DecodeOver
      <3> QED
        BY <1>10, <3>1, <3>3
    <2>5. Append(o, p \o c) \in Seq(Seq(Bit))
      BY <1>2, <2>3
    <2>6. Len(r) = (2 * Len(t)) % 6
      <3>1. (2 * Len(s)) % 6 = 2
        BY ONLY <1>7, <1>10
      <3> QED
        BY ONLY <1>6, <2>1, <3>1, SixthsGrow, Zenon
    <2>7. Append(AllBits(s), c \o r) = AllBits(t)
      BY <1>5, <2>1
    <2>8. Len(r) \in {2, 4} /\ Len(c) = 8 - Len(r)
      BY ONLY <2>1
    <2>9. After(t, r, Append(o, p \o c), c, AllBits(s))
      BY ONLY <1>5, <2>2, <2>4, <2>5, <2>6, <2>7, <2>8, c \in Seq(Bit), r \in Seq(Bit) DEF After
    <2> QED
      BY <2>9, InStepAfter DEF t
  <1>11. CASE Len(p) = 4 /\ Len(q) = 4 /\ Append(z, q \o p) = AllBits(s)
    <2>1. PICK c \in Seq(Bit), r \in Seq(Bit) :
            /\ Len(c) = 2 /\ Len(r) = 6 /\ c \o r = b
            /\ Push(Pending(p, o), b, 6) = Pending(<<>>, Append(Append(o, p \o c), r))
      BY <1>1, <1>2, <1>11, EncodeThird, Zenon
    <2>2. Coder(t) = Pending(<<>>, Append(Append(o, p \o c), r))
      BY <1>4, <2>1
    <2>3. p \o c \in Seq(Bit)
      BY <1>2
    <2>4. Append(o, p \o c) \in Seq(Seq(Bit))
      BY <1>2, <2>3
    <2>5. Reader(Append(o, p \o c)) = Pending(c, AllBits(s))
      <3>1. Reader(Append(o, p \o c)) = DecodeByte(Pending(q, z), p \o c)
        BY <1>2, <1>3, <2>3, ReaderReads, Zenon
      <3>2. Len(q) + Len(p) = 8 /\ Len(p) + Len(c) = 6 /\ p # <<>>
        <4>1. p = <<>> <=> Len(p) = 0
          BY <1>2, SeqEmpty
        <4> QED
          BY ONLY <1>11, <2>1, <4>1
      <3>3. DecodeByte(Pending(q, z), p \o c) = Pending(c, Append(z, q \o p))
        BY ONLY <1>2, <1>3, <3>2, c \in Seq(Bit), DecodeOver
      <3> QED
        BY <1>11, <3>1, <3>3
    <2>6. Reader(Append(Append(o, p \o c), r)) = Pending(<<>>, Append(AllBits(s), c \o r))
      <3>1. Reader(Append(Append(o, p \o c), r)) = DecodeByte(Pending(c, AllBits(s)), r)
        BY <2>4, <2>5, ReaderReads, Zenon
      <3>2. <<>> \in Seq(Bit) /\ Len(<<>>) = 0 /\ r \o <<>> = r /\ r # <<>>
        <4>1. /\ <<>> \in Seq(Bit) /\ Len(<<>>) = 0 /\ r \o <<>> = r
              /\ (r = <<>> <=> Len(r) = 0)
          BY SeqEmpty
        <4> QED
          BY ONLY <2>1, <4>1
      <3>3. Len(c) + Len(r) = 8 /\ Len(r) + Len(<<>>) = 6
        BY ONLY <2>1, <3>2
      <3>4. DecodeByte(Pending(c, AllBits(s)), r \o <<>>) = Pending(<<>>, Append(AllBits(s), c \o r))
        BY ONLY <1>5, <3>2, <3>3, c \in Seq(Bit), r \in Seq(Bit), DecodeOver, Zenon
      <3> QED
        BY <3>1, <3>2, <3>4
    <2>7. /\ Append(Append(o, p \o c), r) \in Seq(Seq(Bit)) /\ <<>> \in Seq(Bit)
          /\ Append(AllBits(s), c \o r) \in Seq(Seq(Bit))
      BY <1>1, <1>5, <2>1, <2>4
    <2>8. 0 = (2 * Len(t)) % 6
      <3>1. (2 * Len(s)) % 6 = 4
        BY ONLY <1>7, <1>11
      <3> QED
        BY ONLY <1>6, <3>1, SixthsGrow, Zenon
    <2>9. Append(AllBits(s), c \o r) = AllBits(t)
      BY <1>5, <2>1
    <2>10. After(t, <<>>, Append(Append(o, p \o c), r), <<>>, Append(AllBits(s), c \o r))
      BY ONLY <2>2, <2>6, <2>7, <2>8, <2>9, Len(<<>>) = 0 DEF After
    <2> QED
      BY <2>10, InStepAfter DEF t
  <1>12. Len(p) = 2 => 8 - Len(p) = 6
    OBVIOUS
  <1>13. Len(p) = 4 => 8 - Len(p) = 4
    OBVIOUS
  <1> QED
    BY <1>7, <1>9, <1>10, <1>11, <1>12, <1>13, Zenon DEF t

LEMMA AlwaysInStep ==
  ASSUME NEW s \in Seq(Byte)
  PROVE  InStep(Coder(s), Reader(Coder(s).out), s)
  <1> DEFINE Good == {n \in Nat : \A t \in Seq(Byte) :
                        Len(t) = n => InStep(Coder(t), Reader(Coder(t).out), t)}
  <1>1. 0 \in Good
    <2> SUFFICES ASSUME NEW t \in Seq(Byte), Len(t) = 0
                 PROVE  InStep(Coder(t), Reader(Coder(t).out), t)
      OBVIOUS
    <2>1. t = <<>>
      OBVIOUS
    <2> QED
      BY <2>1, InStepAtStart
  <1>2. ASSUME NEW n \in Nat, n \in Good PROVE n + 1 \in Good
    <2> SUFFICES ASSUME NEW t \in Seq(Byte), Len(t) = n + 1
                 PROVE  InStep(Coder(t), Reader(Coder(t).out), t)
      OBVIOUS
    <2>1. PICK a \in Seq(Byte), x \in Byte : t = Append(a, x) /\ Len(a) = n
      BY SeqLast, Zenon
    <2>2. InStep(Coder(a), Reader(Coder(a).out), a)
      BY <1>2, <2>1
    <2> QED
      BY <2>1, <2>2, InStepGrows
  <1> HIDE DEF Good
  <1>3. Len(s) \in Good
    BY <1>1, <1>2, SetInduction, Len(s) \in Nat
  <1> QED
    BY <1>3 DEF Good

-----------------------------------------------------------------------------
(* What the decoder makes of a finished text.                                *)

Numbers(out) == [k \in DOMAIN out |-> NumberOf(out[k])]

LEMMA NumbersOfAll ==
  ASSUME NEW s \in Seq(Byte)
  PROVE  Numbers(AllBits(s)) = s
  <1>1. /\ DOMAIN s = 1..Len(s) /\ Len(s) \in Nat /\ s = [k \in 1..Len(s) |-> s[k]]
        /\ \A k \in 1..Len(s) : s[k] \in Byte
    OBVIOUS
  <1>2. AllBits(s) = [k \in 1..Len(s) |-> BitsOf(s[k], 8)]
    BY <1>1 DEF AllBits
  <1>3. \A k \in 1..Len(s) : NumberOf(BitsOf(s[k], 8)) = s[k]
    BY <1>1, ByteOfBits
  <1>4. \A k \in 1..Len(s) : NumberOf(AllBits(s)[k]) = s[k]
    BY <1>2, <1>3
  <1>5. DOMAIN AllBits(s) = 1..Len(s)
    BY <1>2
  <1>6. Numbers(AllBits(s)) = [k \in 1..Len(s) |-> NumberOf(AllBits(s)[k])]
    BY <1>5 DEF Numbers
  <1>7. Numbers(AllBits(s)) = [k \in 1..Len(s) |-> s[k]]
    BY ONLY <1>4, <1>6
  <1> QED
    BY <1>1, <1>7

LEMMA NumbersGrow ==
  ASSUME NEW out \in Seq(Seq(Bit)), NEW g \in Seq(Bit), NEW s \in Seq(Byte),
         Len(g) = 8, Numbers(out) = s
  PROVE  NumberOf(g) \in Byte /\ Numbers(Append(out, g)) = Append(s, NumberOf(g))
  <1>1. NumberOf(g) \in Byte
    <2>1. g \in [1..8 -> Bit]
      <3>1. g \in [1..Len(g) -> Bit]
        BY LenProperties, Zenon
      <3> QED
        BY <3>1
    <2> QED
      BY <2>1, NumberOfBits
  <1>2. /\ DOMAIN out = 1..Len(out) /\ Len(out) \in Nat
        /\ DOMAIN Append(out, g) = 1 .. Len(out) + 1
    OBVIOUS
  <1>3. DOMAIN s = 1..Len(out) /\ \A k \in 1..Len(out) : s[k] = NumberOf(out[k])
    BY <1>2, Zenon DEF Numbers
  <1>4. Len(s) = Len(out)
    BY <1>2, <1>3
  <1>5. Numbers(Append(out, g)) = [k \in 1 .. Len(out) + 1 |-> NumberOf(Append(out, g)[k])]
    BY <1>2 DEF Numbers
  <1>6. Append(s, NumberOf(g)) = [k \in 1 .. Len(out) + 1 |-> Append(s, NumberOf(g))[k]]
    <2>1. Append(s, NumberOf(g)) \in Seq(Byte) /\ Len(Append(s, NumberOf(g))) = Len(out) + 1
      BY <1>1, <1>4
    <2>2. Append(s, NumberOf(g)) \in [1..Len(Append(s, NumberOf(g))) -> Byte]
      BY ONLY <2>1, LenProperties, Zenon
    <2> QED
      BY ONLY <2>1, <2>2, Zenon
  <1>7. ASSUME NEW k \in 1 .. Len(out) + 1
        PROVE  NumberOf(Append(out, g)[k]) = Append(s, NumberOf(g))[k]
    <2>1. CASE k = Len(out) + 1
      <3>1. Append(out, g)[k] = g
        BY <2>1
      <3>2. Append(s, NumberOf(g))[k] = NumberOf(g)
        BY <1>1, <1>4, <2>1
      <3> QED
        BY <3>1, <3>2
    <2>2. CASE k \in 1..Len(out)
      <3>1. Append(out, g)[k] = out[k]
        BY <2>2
      <3>2. Append(s, NumberOf(g))[k] = s[k]
        BY <1>1, <1>4, <2>2
      <3> QED
        BY <1>3, <2>2, <3>1, <3>2
    <2>3. k = Len(out) + 1 \/ k \in 1..Len(out)
      BY <1>2
    <2> QED
      BY <2>1, <2>2, <2>3, Zenon
  <1>8. Numbers(Append(out, g)) = Append(s, NumberOf(g))
    BY ONLY <1>5, <1>6, <1>7
  <1> QED
    BY <1>1, <1>8

LEMMA DecodeIs ==
  ASSUME NEW text
  PROVE  Decode(text) = Numbers(Reader(text).out)
  BY DEF Decode, DecodeEnd, Numbers, Reader

LEMMA TwoOrFour == \A n \in {2, 4} : n \in Nat /\ 6 - n \in Nat /\ n # 0
  OBVIOUS

(* The rest is padded with zeros to a character.                             *)
LEMMA Padding ==
  ASSUME NEW p \in Seq(Bit), Len(p) \in {2, 4}
  PROVE  \E z \in Seq(Bit) :
           /\ Len(z) = 6 - Len(p)
           /\ [k \in 1..6 |-> IF k \in DOMAIN p THEN p[k] ELSE 0] = p \o z
  <1> DEFINE z == [k \in 1 .. 6 - Len(p) |-> 0]
             g == [k \in 1..6 |-> IF k \in DOMAIN p THEN p[k] ELSE 0]
  <1>1. z \in Seq(Bit) /\ Len(z) = 6 - Len(p) /\ \A k \in 1 .. 6 - Len(p) : z[k] = 0
    <2>1. 6 - Len(p) \in Nat /\ 0 \in Bit
      <3>1. 6 - Len(p) \in Nat
        BY ONLY Len(p) \in {2, 4}, TwoOrFour
      <3>2. 0 \in Bit
        BY DEF Bit
      <3> QED
        BY Zenon, <3>1, <3>2
    <2> HIDE DEF Bit
    <2> QED
      BY <2>1
  <1>2. DOMAIN p = 1..Len(p)
    OBVIOUS
  <1> HIDE DEF z
  <1>3. p \o z \in Seq(Bit) /\ Len(p \o z) = 6
        /\ \A k \in 1..6 : (p \o z)[k] = IF k <= Len(p) THEN p[k] ELSE z[k - Len(p)]
    BY <1>1, ConcatProperties
  <1>4. p \o z = [k \in 1..6 |-> (p \o z)[k]]
    <2>1. p \o z \in [1..Len(p \o z) -> Bit]
      BY ONLY <1>3, LenProperties, Zenon
    <2> QED
      BY ONLY <1>3, <2>1, Zenon
  <1>5. ASSUME NEW k \in 1..6 PROVE g[k] = (p \o z)[k]
    <2>1. CASE k <= Len(p)
      BY <1>2, <1>3, <2>1
    <2>2. CASE k > Len(p)
      <3>1. k \notin DOMAIN p /\ k - Len(p) \in 1 .. 6 - Len(p) /\ ~ (k <= Len(p))
        BY <1>2, <2>2
      <3>2. (p \o z)[k] = 0
        BY <1>1, <1>3, <3>1
      <3> QED
        BY <3>1, <3>2
    <2>3. Len(p) \in Nat
      OBVIOUS
    <2>4. k <= Len(p) \/ k > Len(p)
      BY ONLY <2>3, k \in 1..6
    <2> QED
      BY <2>1, <2>2, <2>4, Zenon
  <1>6. g = p \o z
    BY ONLY <1>4, <1>5, Zenon
  <1> QED
    BY <1>1, <1>6, Zenon

(* Of a whole text, the reader has all bytes and at most four zeros more.    *)
LEMMA EncodeThenRead ==
  ASSUME NEW s \in Seq(Byte)
  PROVE  /\ Encode(s) \in Seq(Seq(Bit))
         /\ \E z \in Seq(Bit) : Len(z) \in {0, 2, 4}
                                /\ Reader(Encode(s)) = Pending(z, AllBits(s))
  <1> DEFINE p == Coder(s).pending
             o == Coder(s).out
             q == Reader(o).pending
             d == Reader(o).out
  <1>1. InStep(Coder(s), Reader(o), s)
    BY AlwaysInStep
  <1>2. Coder(s) \in Contexts /\ Reader(o) \in Contexts
    BY <1>1 DEF InStep
  <1>3. p \in Seq(Bit) /\ o \in Seq(Seq(Bit)) /\ Coder(s) = Pending(p, o)
    BY <1>2, ContextIs
  <1>4. q \in Seq(Bit) /\ d \in Seq(Seq(Bit)) /\ Reader(o) = Pending(q, d)
    BY <1>2, ContextIs
  <1>5. \/ p = <<>> /\ q = <<>> /\ d = AllBits(s)
        \/ /\ Len(p) \in {2, 4} /\ Len(q) = 8 - Len(p)
           /\ Append(d, q \o p) = AllBits(s)
    BY <1>1, Zenon DEF InStep
  <1>6. Encode(s) = EncodeEnd(Coder(s)).out
    BY DEF Encode, Coder
  <1> HIDE DEF p, o, q, d
  <1>7. EncodeEnd(Pending(p, o)) =
          IF p = <<>> THEN Pending(p, o)
          ELSE Pending(<<>>, Append(o, [k \in 1..6 |-> IF k \in DOMAIN p THEN p[k] ELSE 0]))
    <2>1. Pending(p, o).pending = p /\ Pending(p, o).out = o
      BY DEF Pending
    <2> QED
      BY <2>1 DEF EncodeEnd, Pending
  <1>8. CASE p = <<>> /\ q = <<>> /\ d = AllBits(s)
    <2>1. Encode(s) = o
      <3>1. Pending(<<>>, o).out = o
        BY DEF Pending
      <3> QED
        BY ONLY <1>3, <1>6, <1>7, <1>8, <3>1
    <2>2. <<>> \in Seq(Bit) /\ Len(<<>>) \in {0, 2, 4}
      OBVIOUS
    <2>3. Reader(Encode(s)) = Pending(<<>>, AllBits(s))
      BY <1>4, <1>8, <2>1
    <2> QED
      BY <1>3, <2>1, <2>2, <2>3, Zenon
  <1>9. CASE Len(p) \in {2, 4} /\ Len(q) = 8 - Len(p) /\ Append(d, q \o p) = AllBits(s)
    <2>1. p # <<>>
      <3>1. p = <<>> <=> Len(p) = 0
        BY <1>3, SeqEmpty
      <3>2. Len(p) # 0
        BY ONLY <1>9, TwoOrFour, Zenon
      <3> QED
        BY <3>1, <3>2
    <2>2. PICK z \in Seq(Bit) :
            /\ Len(z) = 6 - Len(p)
            /\ [k \in 1..6 |-> IF k \in DOMAIN p THEN p[k] ELSE 0] = p \o z
      BY <1>3, <1>9, Padding, Zenon
    <2>3. p \o z \in Seq(Bit) /\ <<>> \in Seq(Bit)
      BY <1>3
    <2>4. Append(o, p \o z) \in Seq(Seq(Bit))
      BY <1>3, <2>3
    <2>5. EncodeEnd(Pending(p, o)) = Pending(<<>>, Append(o, p \o z))
      BY ONLY <1>7, <2>1, <2>2, Zenon
    <2>6. Encode(s) = Append(o, p \o z)
      <3>1. Pending(<<>>, Append(o, p \o z)).out = Append(o, p \o z)
        BY DEF Pending
      <3> QED
        BY ONLY <1>3, <1>6, <2>5, <3>1, Zenon
    <2>7. Reader(Append(o, p \o z)) = DecodeByte(Pending(q, d), p \o z)
      BY <1>3, <1>4, <2>3, ReaderReads, Zenon
    <2>8. Len(q) + Len(p) = 8 /\ Len(p) + Len(z) = 6
      BY ONLY <1>9, <2>2
    <2>9. DecodeByte(Pending(q, d), p \o z) = Pending(z, Append(d, q \o p))
      BY ONLY <1>3, <1>4, <2>1, <2>8, z \in Seq(Bit), DecodeOver
    <2>10. Len(z) \in {0, 2, 4}
      <3>1. Len(p) = 2 => Len(z) = 4
        BY ONLY <2>2
      <3>2. Len(p) = 4 => Len(z) = 2
        BY ONLY <2>2
      <3> QED
        BY <1>9, <3>1, <3>2
    <2> QED
      BY <1>9, <2>4, <2>6, <2>7, <2>9, <2>10
  <1> QED
    BY <1>5, <1>8, <1>9

(* What encode_byte and encode_end made of any bytes, decode_byte and        *)
(* decode_end (encode.c) turn back into them.                                *)
THEOREM DecodeInvertsEncode ==
  ASSUME NEW s \in Seq(Byte)
  PROVE  Decode(Encode(s)) = s
  <1>1. PICK z \in Seq(Bit) : Reader(Encode(s)) = Pending(z, AllBits(s))
    BY EncodeThenRead
  <1>2. Reader(Encode(s)).out = AllBits(s)
    BY <1>1 DEF Pending
  <1> QED
    BY <1>2, DecodeIs, NumbersOfAll

(* A character that is not in the table costs one byte at most.              *)
LEMMA DecodeBeyond ==
  ASSUME NEW s \in Seq(Byte)
  PROVE  \/ Decode(Append(Encode(s), Newline)) = s
         \/ \E y \in Byte : Decode(Append(Encode(s), Newline)) = Append(s, y)
  <1> DEFINE zeros == BitsOf(0, 6)
             A == AllBits(s)
             text == Append(Encode(s), Newline)
  <1>1. Encode(s) \in Seq(Seq(Bit))
    BY EncodeThenRead
  <1>2. PICK z \in Seq(Bit) : Len(z) \in {0, 2, 4} /\ Reader(Encode(s)) = Pending(z, A)
    BY EncodeThenRead
  <1>3. zeros \in Seq(Bit) /\ Len(zeros) = 6
    <2>1. 0 \in Nat /\ 6 \in 1..8
      OBVIOUS
    <2> QED
      BY <2>1, BitsTyped, Zenon
  <1>4. A \in Seq(Seq(Bit)) /\ Numbers(A) = s
    BY AllBitsGrow, NumbersOfAll, 0 \in Byte DEF Byte
  <1>5. Reader(text) = DecodeByte(Pending(z, A), Newline)
    <2>1. Newline \in Seq(Bit)
      BY DEF Newline
    <2> QED
      BY <1>1, <1>2, <2>1, ReaderReads
  <1>6. DecodeByte(Pending(z, A), Newline) = Push(Pending(z, A), zeros, 8)
    BY DEF DecodeByte, Dec
  <1>7. Decode(text) = Numbers(Reader(text).out)
    BY DecodeIs
  <1> HIDE DEF zeros, A, text
  <1>8. CASE Len(z) = 0
    <2>1. Len(z) + Len(zeros) < 8
      BY ONLY <1>3, <1>8
    <2>2. Push(Pending(z, A), zeros, 8) = Pending(z \o zeros, A)
      BY ONLY <1>3, <1>4, <2>1, z \in Seq(Bit), 8 \in Nat, PushShort
    <2>3. Reader(text).out = A
      BY <1>5, <1>6, <2>2 DEF Pending
    <2> QED
      BY <1>4, <1>7, <2>3 DEF text
  <1>9. ASSUME NEW k \in 1..6, Len(z) + k = 8
        PROVE  \E y \in Byte : Decode(text) = Append(s, y)
    <2>1. PICK a \in Seq(Bit), b \in Seq(Bit) : Len(a) = k /\ Len(b) = 6 - k /\ a \o b = zeros
      <3> DEFINE a == SubSeq(zeros, 1, k)
                 b == SubSeq(zeros, k + 1, Len(zeros))
      <3>1. k \in 0..Len(zeros)
        BY <1>3
      <3>2. a \in Seq(Bit) /\ b \in Seq(Bit) /\ Len(a) = k /\ Len(b) = Len(zeros) - k /\ a \o b = zeros
        BY <1>3, <3>1, SeqSplit, Zenon
      <3> HIDE DEF a, b
      <3>3. Len(b) = 6 - k
        BY <1>3, <3>2
      <3> QED
        BY Zenon, <3>2, <3>3
    <2>2. Len(z) + Len(a) = 8 /\ Len(b) < 8 /\ Len(a) # 0
      BY ONLY <1>9, <2>1, k \in 1..6
    <2>3. a # <<>>
      BY <2>2, SeqEmpty
    <2>4. Push(Pending(z, A), a \o b, 8) = Pending(b, Append(A, z \o a))
      BY ONLY <1>4, <2>2, <2>3, z \in Seq(Bit), a \in Seq(Bit), b \in Seq(Bit), 8 \in Nat, PushOver
    <2>5. Reader(text) = Pending(b, Append(A, z \o a))
      BY ONLY <1>5, <1>6, <2>1, <2>4
    <2>6. Reader(text).out = Append(A, z \o a)
      BY <2>5 DEF Pending
    <2>7. z \o a \in Seq(Bit) /\ Len(z \o a) = 8
      BY ONLY <2>2, z \in Seq(Bit), a \in Seq(Bit), SeqJoin
    <2>8. NumberOf(z \o a) \in Byte /\ Numbers(Append(A, z \o a)) = Append(s, NumberOf(z \o a))
      BY <1>4, <2>7, NumbersGrow, Zenon
    <2> QED
      BY ONLY <1>7, <2>6, <2>8
  <1>10. CASE Len(z) = 2
    <2>1. 6 \in 1..6 /\ Len(z) + 6 = 8
      BY ONLY <1>10
    <2> QED
      BY <1>9, <2>1 DEF text
  <1>11. CASE Len(z) = 4
    <2>1. 4 \in 1..6 /\ Len(z) + 4 = 8
      BY ONLY <1>11
    <2> QED
      BY <1>9, <2>1 DEF text
  <1> QED
    BY <1>2, <1>8, <1>10, <1>11

(* Without the padding, the last byte is there only when the bits come out   *)
(* even.                                                                     *)
LEMMA DecodeUnflushed ==
  ASSUME NEW s \in Seq(Byte), NEW x \in Byte
  PROVE  Decode(Coder(Append(s, x)).out) = IF Len(s) % 3 = 2 THEN Append(s, x) ELSE s
  <1> DEFINE t == Append(s, x)
             p == Coder(t).pending
             o == Coder(t).out
             q == Reader(o).pending
             d == Reader(o).out
  <1>1. t \in Seq(Byte) /\ Len(t) = Len(s) + 1 /\ Len(s) \in Nat
    OBVIOUS
  <1>2. InStep(Coder(t), Reader(o), t)
    BY <1>1, AlwaysInStep, Zenon
  <1>3. AllBits(s) \in Seq(Seq(Bit)) /\ AllBits(t) = Append(AllBits(s), BitsOf(x, 8))
    BY AllBitsGrow
  <1>4. BitsOf(x, 8) \in Seq(Bit)
    <2>1. x \in Nat /\ 8 \in 1..8
      BY DEF Byte
    <2> QED
      BY <2>1, BitsTyped
  <1>5. Decode(o) = Numbers(d)
    BY DecodeIs
  <1>6. p \in Seq(Bit) /\ q \in Seq(Bit) /\ d \in Seq(Seq(Bit))
    BY <1>2, ContextIs DEF InStep
  <1>7. /\ Len(p) = (2 * Len(t)) % 6
        /\ \/ p = <<>> /\ d = AllBits(t)
           \/ Len(p) \in {2, 4} /\ Append(d, q \o p) = AllBits(t)
    BY <1>2, Zenon DEF InStep
  <1>8. Numbers(AllBits(s)) = s /\ Numbers(AllBits(t)) = t
    BY <1>1, NumbersOfAll, Zenon
  <1> HIDE DEF t, p, o, q, d
  <1>9. Len(s) % 3 = 2 <=> (2 * Len(t)) % 6 = 0
    BY ONLY <1>1
  <1>10. CASE p = <<>> /\ d = AllBits(t)
    <2>1. Len(s) % 3 = 2
      BY ONLY <1>7, <1>9, <1>10, Len(<<>>) = 0
    <2> QED
      BY <1>5, <1>8, <1>10, <2>1 DEF o, t
  <1>11. CASE Len(p) \in {2, 4} /\ Append(d, q \o p) = AllBits(t)
    <2>1. Len(p) # 0
      BY ONLY <1>11, TwoOrFour, Zenon
    <2>2. ~ (Len(s) % 3 = 2)
      BY ONLY <1>7, <1>9, <2>1
    <2>3. q \o p \in Seq(Bit)
      BY <1>6
    <2>4. d = AllBits(s)
      BY ONLY <1>3, <1>4, <1>6, <1>11, <2>3, AppendInjective
    <2> QED
      BY <1>5, <1>8, <2>2, <2>4 DEF o, t
  <1> QED
    BY <1>7, <1>10, <1>11, Zenon

-----------------------------------------------------------------------------
(* The encryptor and the decryptor run through the same states.              *)

Cipher(start, s) == FoldLeft(DoByte, start, s)

LEMMA EncryptIs ==
  ASSUME NEW start, NEW s
  PROVE  Encrypt(start, s) = Cipher(start, s).out /\ Decrypt(start, s) = Cipher(start, s).out
  <1>1. FoldLeft(EncryptByte, start, s) = FoldLeft(DoByte, start, s)
    BY Zenon DEF FoldLeft, MapThenFoldSet, EncryptByte
  <1>2. FoldLeft(DecryptByte, start, s) = FoldLeft(DoByte, start, s)
    BY Zenon DEF FoldLeft, MapThenFoldSet, DecryptByte
  <1> QED
    BY <1>1, <1>2 DEF Encrypt, Decrypt, Cipher

LEMMA CipherGrows ==
  ASSUME NEW start \in States, NEW s \in Seq(Byte), NEW x \in Byte, SboxSize \in Nat \ {0}
  PROVE  /\ Cipher(start, <<>>) = start
         /\ Cipher(start, s) \in States
         /\ Cipher(start, Append(s, x)) = DoByte(Cipher(start, s), x)
  BY DoFold, Zenon DEF Cipher

SameState(c, d) == c.i = d.i /\ c.j = d.j /\ c.sbox = d.sbox

(* One byte there and back, from the same state of the permutation.          *)
LEMMA DoTwice ==
  ASSUME NEW c \in States, NEW d \in States, NEW x \in Byte, SameState(c, d),
         SboxSize \in Nat \ {0}
  PROVE  \E y \in Byte : /\ DoByte(c, x).out = Append(c.out, y)
                         /\ DoByte(d, y).out = Append(d.out, x)
                         /\ SameState(DoByte(c, x), DoByte(d, y))
  <1> DEFINE y == Xor(x, Pad(c))
  <1>1. y \in Byte /\ Xor(y, Pad(c)) = x
    BY StepTyped, XorTwice
  <1>2. Pad(d) = Pad(c) /\ StepI(d) = StepI(c) /\ StepJ(d) = StepJ(c) /\ StepBox(d) = StepBox(c)
    BY DEF SameState, Pad, StepI, StepJ, StepBox
  <1> HIDE DEF y
  <1>3. DoByte(c, x) = [i |-> StepI(c), j |-> StepJ(c), sbox |-> StepBox(c),
                        out |-> Append(c.out, y)]
    BY DoByteIs DEF y
  <1>4. DoByte(d, y) = [i |-> StepI(c), j |-> StepJ(c), sbox |-> StepBox(c),
                        out |-> Append(d.out, x)]
    BY <1>1, <1>2, DoByteIs
  <1>5. SameState(DoByte(c, x), DoByte(d, y))
    BY <1>3, <1>4 DEF SameState
  <1>6. DoByte(c, x).out = Append(c.out, y) /\ DoByte(d, y).out = Append(d.out, x)
    BY <1>3, <1>4
  <1> QED
    BY <1>1, <1>5, <1>6

(* Decrypting what was encrypted so far gives the bytes, and the same state. *)
Undone(start, s) ==
  /\ Cipher(start, s).out \in Seq(Byte) /\ Len(Cipher(start, s).out) = Len(s)
  /\ SameState(Cipher(start, s), Cipher(start, Cipher(start, s).out))
  /\ Cipher(start, Cipher(start, s).out).out = s

LEMMA UndoneGrows ==
  ASSUME NEW start \in States, NEW s \in Seq(Byte), NEW x \in Byte, SboxSize \in Nat \ {0},
         Undone(start, s)
  PROVE  /\ Undone(start, Append(s, x))
         /\ \E y \in Byte : Cipher(start, Append(s, x)).out = Append(Cipher(start, s).out, y)
  <1> DEFINE c == Cipher(start, s)
             d == Cipher(start, c.out)
  <1>1. c.out \in Seq(Byte) /\ Len(c.out) = Len(s) /\ SameState(c, d) /\ d.out = s
    BY DEF Undone
  <1>2. c \in States /\ Cipher(start, Append(s, x)) = DoByte(c, x)
    BY CipherGrows
  <1>3. d \in States /\ \A y \in Byte : Cipher(start, Append(c.out, y)) = DoByte(d, y)
    BY <1>1, CipherGrows
  <1> HIDE DEF c, d
  <1>4. PICK y \in Byte : /\ DoByte(c, x).out = Append(c.out, y)
                          /\ DoByte(d, y).out = Append(d.out, x)
                          /\ SameState(DoByte(c, x), DoByte(d, y))
    BY <1>1, <1>2, <1>3, DoTwice, Zenon
  <1>5. Cipher(start, Append(s, x)).out = Append(c.out, y)
    BY <1>2, <1>4
  <1>6. Cipher(start, Append(c.out, y)) = DoByte(d, y)
    BY <1>3
  <1>7. Append(c.out, y) \in Seq(Byte) /\ Len(Append(c.out, y)) = Len(Append(s, x))
    BY <1>1
  <1>8. Undone(start, Append(s, x))
    BY <1>1, <1>2, <1>4, <1>5, <1>6, <1>7 DEF Undone
  <1> QED
    BY <1>5, <1>8 DEF c

LEMMA AlwaysUndone ==
  ASSUME NEW start \in States, start.out = <<>>, NEW s \in Seq(Byte), SboxSize \in Nat \ {0}
  PROVE  Undone(start, s)
  <1> DEFINE Good == {n \in Nat : \A t \in Seq(Byte) : Len(t) = n => Undone(start, t)}
  <1>1. 0 \in Good
    <2> SUFFICES ASSUME NEW t \in Seq(Byte), Len(t) = 0 PROVE Undone(start, t)
      OBVIOUS
    <2>1. t = <<>>
      OBVIOUS
    <2>2. 0 \in Byte /\ <<>> \in Seq(Byte)
      BY DEF Byte
    <2>3. Cipher(start, <<>>) = start
      BY ONLY <2>2, CipherGrows, start \in States, SboxSize \in Nat \ {0}
    <2> QED
      BY <2>1, <2>2, <2>3, Zenon DEF Undone, SameState
  <1>2. ASSUME NEW n \in Nat, n \in Good PROVE n + 1 \in Good
    <2> SUFFICES ASSUME NEW t \in Seq(Byte), Len(t) = n + 1 PROVE Undone(start, t)
      OBVIOUS
    <2>1. PICK a \in Seq(Byte), x \in Byte : t = Append(a, x) /\ Len(a) = n
      BY SeqLast, Zenon
    <2>2. Undone(start, a)
      BY <1>2, <2>1
    <2> QED
      BY <2>1, <2>2, UndoneGrows
  <1> HIDE DEF Good
  <1>3. Len(s) \in Good
    BY <1>1, <1>2, SetInduction, Len(s) \in Nat
  <1> QED
    BY <1>3 DEF Good

LEMMA EncryptGrows ==
  ASSUME NEW start \in States, start.out = <<>>, NEW s \in Seq(Byte), NEW x \in Byte,
         SboxSize \in Nat \ {0}
  PROVE  /\ Encrypt(start, s) \in Seq(Byte) /\ Len(Encrypt(start, s)) = Len(s)
         /\ \E y \in Byte : Encrypt(start, Append(s, x)) = Append(Encrypt(start, s), y)
  <1>1. Undone(start, s)
    BY AlwaysUndone
  <1>2. \E y \in Byte : Cipher(start, Append(s, x)).out = Append(Cipher(start, s).out, y)
    BY <1>1, UndoneGrows
  <1>3. Cipher(start, s).out \in Seq(Byte) /\ Len(Cipher(start, s).out) = Len(s)
    BY <1>1 DEF Undone
  <1> QED
    BY Zenon, <1>2, <1>3, EncryptIs

(* What encrypt_byte (encrypt.c) made of any bytes, decrypt_byte turns back  *)
(* into them, from any state of the permutation that both start with.        *)
THEOREM DecryptInvertsEncrypt ==
  ASSUME NEW start \in States, start.out = <<>>, NEW s \in Seq(Byte), SboxSize \in Nat \ {0}
  PROVE  Decrypt(start, Encrypt(start, s)) = s
  BY AlwaysUndone, EncryptIs DEF Undone

-----------------------------------------------------------------------------
(* The permutation.                                                          *)

Permutes(f) == f \in [Places -> Places] /\ {f[k] : k \in Places} = Places

LEMMA SwapPermutes ==
  ASSUME NEW f, Permutes(f), NEW i \in Places, NEW j \in Places
  PROVE  Permutes(Swap(f, i, j))
  <1> DEFINE g == Swap(f, i, j)
  <1>1. f \in [Places -> Places] /\ \A p \in Places : \E k \in Places : f[k] = p
    BY DEF Permutes
  <1>2. g \in [Places -> Places]
    BY <1>1, SwapTyped, Zenon
  <1>3. g[i] = f[j] /\ g[j] = f[i] /\ \A k \in Places \ {i, j} : g[k] = f[k]
    BY <1>1 DEF Swap
  <1> HIDE DEF g
  <1>4. ASSUME NEW p \in Places PROVE \E k \in Places : g[k] = p
    <2>1. PICK k \in Places : f[k] = p
      BY <1>1
    <2>2. CASE k = i
      BY <1>3, <2>1, <2>2
    <2>3. CASE k = j
      BY <1>3, <2>1, <2>3
    <2>4. CASE k \notin {i, j}
      BY <1>3, <2>1, <2>4
    <2> QED
      BY <2>2, <2>3, <2>4
  <1>5. {g[k] : k \in Places} = Places
    BY <1>2, <1>4
  <1> QED
    BY <1>2, <1>5, Zenon DEF Permutes, g

(* One turn of the key schedule.                                             *)
Scheduled(key, c, n) ==
  LET j == (c.j + c.sbox[n - 1] + key[((n - 1) % Len(key)) + 1]) % SboxSize
  IN  [j |-> j, sbox |-> Swap(c.sbox, n - 1, j)]
Unkeyed == [j |-> 0, sbox |-> [i \in Places |-> i]]
Schedule(key, m, turn) ==
  turn = [n \in 0..m |-> IF n = 0 THEN Unkeyed ELSE Scheduled(key, turn[n - 1], n)]

LEMMA ScheduleExists ==
  ASSUME NEW key, NEW m \in Nat
  PROVE  \E turn : Schedule(key, m, turn)
  <1> DEFINE Good == {n \in Nat : \E turn : Schedule(key, n, turn)}
  <1>1. 0 \in Good
    <2>1. Schedule(key, 0, [n \in 0..0 |-> Unkeyed])
      BY DEF Schedule
    <2> QED
      BY <2>1
  <1>2. ASSUME NEW n \in Nat, n \in Good PROVE n + 1 \in Good
    <2>1. PICK old : Schedule(key, n, old)
      BY <1>2
    <2> DEFINE new == [k \in 0 .. n + 1 |-> IF k = n + 1 THEN Scheduled(key, old[n], n + 1)
                                            ELSE old[k]]
    <2>2. \A k \in 0..n : new[k] = old[k]
      OBVIOUS
    <2>3. new[n + 1] = Scheduled(key, old[n], n + 1)
      OBVIOUS
    <2>4. new = [k \in 0 .. n + 1 |-> new[k]]
      OBVIOUS
    <2> HIDE DEF new
    <2>5. \A k \in 0..n : old[k] = IF k = 0 THEN Unkeyed ELSE Scheduled(key, old[k - 1], k)
      BY <2>1 DEF Schedule
    <2>6. ASSUME NEW k \in 0 .. n + 1
          PROVE  new[k] = IF k = 0 THEN Unkeyed ELSE Scheduled(key, new[k - 1], k)
      <3>1. CASE k = n + 1
        <4>1. k # 0 /\ k - 1 = n /\ n \in 0..n
          BY <3>1
        <4> QED
          BY <2>2, <2>3, <3>1, <4>1
      <3>2. CASE k \in 0..n
        <4>1. k # 0 => k - 1 \in 0..n
          BY <3>2
        <4> QED
          BY <2>2, <2>5, <3>2, <4>1
      <3> QED
        BY <3>1, <3>2
    <2>7. Schedule(key, n + 1, new)
      BY ONLY <2>4, <2>6, Zenon DEF Schedule
    <2> QED
      BY <2>7
  <1> HIDE DEF Good
  <1>3. m \in Good
    BY <1>1, <1>2, SetInduction
  <1> QED
    BY <1>3 DEF Good

LEMMA ScheduleKeeps ==
  ASSUME SboxSize \in Nat \ {0}, NEW key \in Seq(Byte), key # <<>>,
         NEW turn, Schedule(key, SboxSize, turn)
  PROVE  Permutes(turn[SboxSize].sbox)
  <1> DEFINE Fine(c) == c.j \in Places /\ Permutes(c.sbox)
             Good == {n \in Nat : n <= SboxSize => Fine(turn[n])}
  <1>1. \A n \in 0..SboxSize :
          turn[n] = IF n = 0 THEN Unkeyed ELSE Scheduled(key, turn[n - 1], n)
    BY DEF Schedule
  <1>2. 0 \in Good
    <2>1. turn[0] = Unkeyed
      BY <1>1
    <2>2. 0 \in Places
      BY DEF Places
    <2>3. Permutes([i \in Places |-> i])
      BY DEF Permutes
    <2> QED
      BY <2>1, <2>2, <2>3 DEF Unkeyed
  <1>3. ASSUME NEW n \in Nat, n \in Good PROVE n + 1 \in Good
    <2> SUFFICES ASSUME n + 1 <= SboxSize PROVE Fine(turn[n + 1])
      OBVIOUS
    <2> DEFINE c == turn[n]
               at == (n % Len(key)) + 1
               j == (c.j + c.sbox[n] + key[at]) % SboxSize
    <2>1. c.j \in Places /\ Permutes(c.sbox)
      BY <1>3
    <2>2. turn[n + 1] = Scheduled(key, c, n + 1)
      BY <1>1
    <2>3. n \in Places
      BY DEF Places
    <2>4. at \in 1..Len(key)
      BY DEF Byte
    <2> HIDE DEF c, at
    <2>5. key[at] \in Nat
      <3>1. key[at] \in Byte
        BY <2>4
      <3>2. \A b \in Byte : b \in Nat
        BY DEF Byte
      <3> QED
        BY <3>1, <3>2
    <2>6. c.sbox[n] \in Places
      BY <2>1, <2>3 DEF Permutes
    <2>7. \A p \in Places : p \in Nat
      BY DEF Places
    <2>8. c.j + c.sbox[n] + key[at] \in Nat
      BY <2>1, <2>5, <2>6, <2>7
    <2>9. j \in Places
      BY <2>8, ModInPlaces
    <2>10. turn[n + 1] = [j |-> j, sbox |-> Swap(c.sbox, n, j)]
      <3>1. (n + 1) - 1 = n
        OBVIOUS
      <3> QED
        BY <2>2, <3>1 DEF Scheduled, at
    <2> HIDE DEF j
    <2>11. Permutes(Swap(c.sbox, n, j))
      BY <2>1, <2>3, <2>9, SwapPermutes
    <2> QED
      BY <2>9, <2>10, <2>11
  <1> HIDE DEF Good
  <1>4. SboxSize \in Good
    BY <1>2, <1>3, SetInduction
  <1> QED
    BY <1>4 DEF Good

LEMMA KeyScheduleIs ==
  ASSUME SboxSize \in Nat \ {0}, NEW key \in Seq(Byte), key # <<>>
  PROVE  /\ KeySchedule(key) \in States /\ KeySchedule(key).out = <<>>
         /\ Permutes(KeySchedule(key).sbox)
  <1> DEFINE turn == CHOOSE turn : Schedule(key, SboxSize, turn)
  <1>1. KeySchedule(key) = [i |-> 0, j |-> 0, out |-> <<>>, sbox |-> turn[SboxSize].sbox]
    BY Zenon DEF KeySchedule, Schedule, Scheduled, Unkeyed
  <1>2. Schedule(key, SboxSize, turn)
    BY ScheduleExists, Zenon
  <1> HIDE DEF turn
  <1>3. Permutes(turn[SboxSize].sbox)
    BY <1>2, ScheduleKeeps
  <1>4. 0 \in Places /\ <<>> \in Seq(Byte)
    BY DEF Places
  <1>5. turn[SboxSize].sbox \in [Places -> Places]
    BY <1>3 DEF Permutes
  <1> QED
    BY <1>1, <1>3, <1>4, <1>5 DEF States

LEMMA DoPermutes ==
  ASSUME NEW c \in States, NEW x \in Byte, SboxSize \in Nat \ {0}, Permutes(c.sbox)
  PROVE  Permutes(DoByte(c, x).sbox)
  <1>1. DoByte(c, x).sbox = Swap(c.sbox, StepI(c), StepJ(c))
    BY DoByteIs DEF StepBox
  <1> QED
    BY <1>1, StepTyped, SwapPermutes

(* The encryptor never loses an entry of its table.                          *)
LEMMA CipherPermutes ==
  ASSUME NEW start \in States, Permutes(start.sbox), NEW s \in Seq(Byte), SboxSize \in Nat \ {0}
  PROVE  Permutes(Cipher(start, s).sbox)
  <1> DEFINE Good == {n \in Nat : \A t \in Seq(Byte) :
                        Len(t) = n => Permutes(Cipher(start, t).sbox)}
  <1>1. 0 \in Good
    <2> SUFFICES ASSUME NEW t \in Seq(Byte), Len(t) = 0 PROVE Permutes(Cipher(start, t).sbox)
      OBVIOUS
    <2>1. t = <<>>
      OBVIOUS
    <2>2. 0 \in Byte /\ <<>> \in Seq(Byte)
      BY DEF Byte
    <2>3. Cipher(start, <<>>) = start
      BY ONLY <2>2, CipherGrows, start \in States, SboxSize \in Nat \ {0}
    <2> QED
      BY <2>1, <2>3
  <1>2. ASSUME NEW n \in Nat, n \in Good PROVE n + 1 \in Good
    <2> SUFFICES ASSUME NEW t \in Seq(Byte), Len(t) = n + 1 PROVE Permutes(Cipher(start, t).sbox)
      OBVIOUS
    <2>1. PICK a \in Seq(Byte), x \in Byte : t = Append(a, x) /\ Len(a) = n
      BY SeqLast, Zenon
    <2>2. Permutes(Cipher(start, a).sbox)
      BY <1>2, <2>1
    <2>3. Cipher(start, a) \in States /\ Cipher(start, t) = DoByte(Cipher(start, a), x)
      BY <2>1, CipherGrows
    <2> QED
      BY <2>2, <2>3, DoPermutes
  <1> HIDE DEF Good
  <1>3. Len(s) \in Good
    BY <1>1, <1>2, SetInduction, Len(s) \in Nat
  <1> QED
    BY <1>3 DEF Good

-----------------------------------------------------------------------------
(* decfile and the key feeder of syscmd read what encfile, mkkey and mkpass  *)
(* wrote, for every key and every string, of any length; and the table of    *)
(* the encryptor stays a permutation (encode.c, encrypt.c).                  *)
THEOREM CodecIsFaithful ==
  ASSUME SboxSize \in Nat \ {0}, NEW key \in Seq(Byte), key # <<>>, NEW bytes \in Seq(Byte)
  PROVE  /\ ProgramsRoundTrip(KeySchedule(key), bytes)
         /\ SboxIsPermutation(KeySchedule(key), bytes)
  <1> DEFINE start == KeySchedule(key)
             E == Encrypt(start, bytes)
  <1>1. start \in States /\ start.out = <<>> /\ Permutes(start.sbox)
    BY KeyScheduleIs
  <1> HIDE DEF start
  <1>2. E \in Seq(Byte) /\ Len(E) = Len(bytes)
    <2>1. 0 \in Byte
      BY DEF Byte
    <2> QED
      BY <1>1, <2>1, EncryptGrows
  <1>3. Decrypt(start, E) = bytes
    BY <1>1, DecryptInvertsEncrypt
  <1>4. Decode(Encode(E)) = E
    BY <1>2, DecodeInvertsEncode
  <1>5. Decfile(start, Encfile(start, bytes)) = bytes
    BY <1>3, <1>4 DEF Decfile, Encfile
  <1>6. FeedKey(start, Mkkey(start, bytes)) = bytes
    BY <1>3, <1>4 DEF FeedKey, Mkkey
  <1>7. Decfile(start, Mkpass(start, bytes)) =
          IF Len(bytes) % 3 = 2 THEN Append(bytes, 255) ELSE bytes
    <2>1. 255 \in Byte /\ Append(bytes, 255) \in Seq(Byte)
      BY DEF Byte
    <2>2. PICK y \in Byte : Encrypt(start, Append(bytes, 255)) = Append(E, y)
      BY <1>1, <2>1, EncryptGrows
    <2> HIDE DEF E
    <2>3. Decrypt(start, Append(E, y)) = Append(bytes, 255)
      <3>1. Decrypt(start, Encrypt(start, Append(bytes, 255))) = Append(bytes, 255)
        BY ONLY <1>1, <2>1, DecryptInvertsEncrypt, SboxSize \in Nat \ {0}, Zenon
      <3> QED
        BY ONLY <2>2, <3>1, Zenon
    <2>4. Mkpass(start, bytes) = Coder(Append(E, y)).out
      BY <2>2, Zenon DEF Mkpass, Coder
    <2>5. Decode(Mkpass(start, bytes)) = IF Len(E) % 3 = 2 THEN Append(E, y) ELSE E
      BY <1>2, <2>4, DecodeUnflushed
    <2> QED
      BY <1>2, <1>3, <2>3, <2>5, Zenon DEF Decfile
  <1>8. LET more == Decfile(start, Append(Encfile(start, bytes), Newline))
        IN  SubSeq(more, 1, Len(bytes)) = bytes /\ Len(more) <= Len(bytes) + 1
    <2> DEFINE text == Append(Encode(E), Newline)
               more == Decrypt(start, Decode(text))
    <2>1. Decfile(start, Append(Encfile(start, bytes), Newline)) = more
      BY DEF Decfile, Encfile
    <2>2. Decode(text) = E \/ \E y \in Byte : Decode(text) = Append(E, y)
      BY <1>2, DecodeBeyond
    <2> HIDE DEF E, text
    <2>3. CASE Decode(text) = E
      <3>1. more = bytes
        BY <1>3, <2>3
      <3>2. SubSeq(bytes, 1, Len(bytes)) = bytes /\ Len(bytes) <= Len(bytes) + 1
        OBVIOUS
      <3> QED
        BY <2>1, <3>1, <3>2
    <2>4. CASE \E y \in Byte : Decode(text) = Append(E, y)
      <3>1. PICK y \in Byte : Decode(text) = Append(E, y)
        BY <2>4
      <3>2. Cipher(start, E) \in States /\ Cipher(start, Append(E, y)) = DoByte(Cipher(start, E), y)
        BY <1>1, <1>2, CipherGrows
      <3>3. PICK w \in Byte : DoByte(Cipher(start, E), y).out = Append(Cipher(start, E).out, w)
        BY <3>2, DoTwice, Zenon DEF SameState
      <3>4. more = Append(bytes, w)
        BY <1>3, <3>1, <3>2, <3>3, EncryptIs
      <3>5. /\ Append(bytes, w) = bytes \o <<w>> /\ <<w>> \in Seq(Byte)
            /\ Len(Append(bytes, w)) = Len(bytes) + 1
        BY AppendIsConcat
      <3>6. SubSeq(bytes \o <<w>>, 1, Len(bytes)) = bytes
        BY <3>5, SeqJoin
      <3>7. SubSeq(more, 1, Len(bytes)) = bytes
        BY ONLY <3>4, <3>5, <3>6
      <3>8. Len(more) <= Len(bytes) + 1
        BY ONLY <3>4, <3>5, Len(bytes) \in Nat
      <3> QED
        BY <2>1, <3>7, <3>8
    <2> QED
      BY <2>2, <2>3, <2>4
  <1>9. ProgramsRoundTrip(start, bytes)
    BY <1>5, <1>6, <1>7, <1>8 DEF ProgramsRoundTrip
  <1>10. SboxIsPermutation(start, bytes)
    BY <1>1, CipherPermutes, Zenon DEF SboxIsPermutation, Cipher, Permutes
  <1> QED
    BY <1>9, <1>10 DEF start

-----------------------------------------------------------------------------
LEMMA InputIsTyped == Spec => [](input \in Seq(Symbol))
  <1>1. Init => input \in Seq(Symbol)
    BY DEF Init
  <1>2. input \in Seq(Symbol) /\ [Next]_input => (input \in Seq(Symbol))'
    BY DEF Next, Type
  <1> QED
    BY <1>1, <1>2, PTL DEF Spec

LEMMA SpelledIn ==
  ASSUME input \in Seq(Symbol), NEW T, NEW alphabet, \A c \in Symbol : alphabet[c] \in T
  PROVE  Spell(alphabet) \in Seq(T)
  <1> DEFINE s == [i \in DOMAIN input |-> alphabet[input[i]]]
  <1>1. DOMAIN input = 1..Len(input) /\ Len(input) \in Nat /\ \A i \in DOMAIN input : input[i] \in Symbol
    OBVIOUS
  <1>2. s \in [1..Len(input) -> T]
    BY <1>1
  <1>3. s \in Seq(T)
    BY <1>1, <1>2
  <1> HIDE DEF s
  <1>4. Len(s) = Len(input)
    BY <1>1, <1>2
  <1>5. SubSeq(s, 1, Len(input)) \in Seq(T)
    BY <1>1, <1>3, <1>4
  <1> QED
    BY <1>5 DEF Spell, s

LEMMA SymbolIs == \A c \in Symbol : c = 1 \/ c = 2 \/ c = 3 \/ c = 4 \/ c = 5 \/ c = 6
  BY DEF Symbol

LEMMA SpelledInBytes ==
  ASSUME input \in Seq(Symbol)
  PROVE  Spell(<<0, 1, 63, 64, 128, 255>>) \in Seq(Byte)
  <1> DEFINE alphabet == <<0, 1, 63, 64, 128, 255>>
  <1>1. /\ alphabet[1] = 0 /\ alphabet[2] = 1 /\ alphabet[3] = 63
        /\ alphabet[4] = 64 /\ alphabet[5] = 128 /\ alphabet[6] = 255
    OBVIOUS
  <1>2. 0 \in Byte /\ 1 \in Byte /\ 63 \in Byte /\ 64 \in Byte /\ 128 \in Byte /\ 255 \in Byte
    BY DEF Byte
  <1> HIDE DEF alphabet
  <1>3. \A c \in Symbol : alphabet[c] \in Byte
    BY <1>1, <1>2, SymbolIs
  <1>4. Spell(alphabet) \in Seq(Byte)
    BY <1>3, SpelledIn
  <1> QED
    BY <1>4 DEF alphabet

(* encode.c and encrypt.c: what encfile and mkkey write of any input, decfile*)
(* and the feeder of syscmd read, with any number of entries in the table.   *)
THEOREM InputsRoundTrip == Spec => []CodecRoundTrips
  <1> DEFINE key == <<83, 121, 115, 65, 100, 109>>
  <1>1. key \in Seq(Byte) /\ key # <<>>
    BY DEF Byte
  <1> HIDE DEF key
  <1>2. input \in Seq(Symbol) => CodecRoundTrips
    BY <1>1, SpelledInBytes, CodecIsFaithful, SboxAssumption, Zenon DEF CodecRoundTrips, Start, key
  <1> QED
    BY <1>2, InputIsTyped, PTL

-----------------------------------------------------------------------------
(* vgdisplay (vg.c).  What the parser's state holds.                         *)

Outputs(S) == {line \in [mark : S, name : S \cup Seq(S), n : Nat, m : Nat, unit : S] :
                 line.mark = "PV Name" => line.name \in Seq(S)}
PeType == [size : Nat, total : Nat, alloc : Nat, free : Nat]
PvType(S) == [name : Seq(S), total : Nat, free : Nat, size : Nat]
LvType(S) == [name : S \cup Seq(S), size : Nat]
VgType(S) == [name : S \cup Seq(S), size : Nat, pe : PeType, pv : Seq(PvType(S)),
              lv : Seq(LvType(S))]
Parses(S) == [vgs : Seq(VgType(S)), vg : VgType(S), pv : PvType(S), lv : LvType(S),
              state : {"NONE", "IN_VG", "IN_LV", "IN_PV"}, have_vg : BOOLEAN]
MapType(S) == [name : Seq(S), alt_name : Seq(S), devs : Seq(Seq(S))]
NamesOf(pvs) == {pvs[k].name : k \in DOMAIN pvs}

(* The pieces of names include the two that the parser begins with.          *)
Pieces(S) == NoVol \in S /\ "?" \in S

LEMMA SizesTyped ==
  ASSUME NEW n \in Nat, NEW unit
  PROVE  V2b(n, unit) \in Nat
  <1>1. n * 1048576 \in Nat /\ n * 1024 \in Nat
    OBVIOUS
  <1>2. n \div 1024 \in Nat /\ n \div 1048576 \in Nat
    OBVIOUS
  <1> QED
    BY <1>1, <1>2 DEF V2b

LEMMA ParsingTyped ==
  ASSUME NEW S, Pieces(S)
  PROVE  Parsing \in Parses(S)
  <1>1. NewPe \in PeType
    BY DEF NewPe, PeType
  <1>2. NewVg \in VgType(S)
    <2>1. <<>> \in Seq(PvType(S)) /\ <<>> \in Seq(LvType(S)) /\ NoVol \in S \cup Seq(S) /\ 0 \in Nat
      BY DEF Pieces
    <2> QED
      BY <1>1, <2>1 DEF NewVg, VgType
  <1>3. <<"?">> \in Seq(S)
    BY DEF Pieces
  <1>4. NewPv \in PvType(S)
    BY <1>3 DEF NewPv, PvType
  <1>5. NewLv \in LvType(S)
    BY <1>3 DEF NewLv, LvType
  <1>6. <<>> \in Seq(VgType(S))
    OBVIOUS
  <1> QED
    BY <1>2, <1>4, <1>5, <1>6 DEF Parsing, Parses

LEMMA FinishIs ==
  ASSUME NEW S, NEW p \in Parses(S)
  PROVE  /\ Finish(p) \in Seq(VgType(S))
         /\ ~p.have_vg => Finish(p) = p.vgs
         /\ p.have_vg =>
              /\ Len(Finish(p)) = Len(p.vgs) + 1
              /\ \A g \in 1..Len(p.vgs) : Finish(p)[g] = p.vgs[g]
              /\ Finish(p)[Len(p.vgs) + 1].name = p.vg.name
              /\ Finish(p)[Len(p.vgs) + 1].pv = p.vg.pv
  <1> DEFINE size == p.vg.pe.total * p.vg.pe.size
             new == [p.vg EXCEPT !.size = size]
  <1>1. p.vg \in VgType(S) /\ p.vgs \in Seq(VgType(S)) /\ p.have_vg \in BOOLEAN
    BY DEF Parses
  <1>2. size \in Nat
    <2>1. p.vg.pe \in PeType
      BY <1>1 DEF VgType
    <2>2. p.vg.pe.total \in Nat /\ p.vg.pe.size \in Nat
      BY <2>1 DEF PeType
    <2> QED
      BY <2>2
  <1> HIDE DEF size
  <1>3. new \in VgType(S) /\ new.name = p.vg.name /\ new.pv = p.vg.pv
    BY <1>1, <1>2, Zenon DEF VgType
  <1>4. Finish(p) = IF p.have_vg THEN Append(p.vgs, new) ELSE p.vgs
    BY DEF Finish, size
  <1> HIDE DEF new
  <1>5. /\ Append(p.vgs, new) \in Seq(VgType(S))
        /\ Len(Append(p.vgs, new)) = Len(p.vgs) + 1
        /\ \A g \in 1..Len(p.vgs) : Append(p.vgs, new)[g] = p.vgs[g]
        /\ Append(p.vgs, new)[Len(p.vgs) + 1] = new
    BY <1>1, <1>3
  <1> QED
    BY <1>1, <1>3, <1>4, <1>5

(* A line of a group and a line of a logical volume.                         *)
LEMMA VgLineIs ==
  ASSUME NEW S, NEW p \in Parses(S), NEW line \in Outputs(S), NEW os \in {"linux", "hpux"}
  PROVE  LET q == VgLine(p, line, os)
         IN  /\ q \in Parses(S)
             /\ q.vgs = p.vgs /\ q.vg.pv = p.vg.pv /\ q.pv = p.pv
             /\ q.have_vg = p.have_vg /\ q.state = p.state
             /\ q.vg.name = IF line.mark = "VG Name" THEN line.name ELSE p.vg.name
  <1> DEFINE pe == p.vg.pe
             size == IF os = "hpux" THEN HpuxGetsize(line) ELSE Getsize(line)
  <1>1. p.vg \in VgType(S)
    BY DEF Parses
  <1>2. pe \in PeType
    BY <1>1 DEF VgType
  <1>3. line.n \in Nat /\ line.name \in S \cup Seq(S)
    BY Zenon DEF Outputs
  <1>4. size \in Nat
    BY <1>3, SizesTyped DEF Getsize, HpuxGetsize
  <1> HIDE DEF size
  <1>5. ASSUME NEW new \in PeType
        PROVE  LET q == [p EXCEPT !.vg.pe = new]
               IN  /\ q \in Parses(S)
                   /\ q.vgs = p.vgs /\ q.vg.pv = p.vg.pv /\ q.pv = p.pv
                   /\ q.have_vg = p.have_vg /\ q.state = p.state /\ q.vg.name = p.vg.name
    BY <1>1, Zenon DEF Parses, VgType
  <1>6. LET q == [p EXCEPT !.vg.name = line.name]
        IN  /\ q \in Parses(S)
            /\ q.vgs = p.vgs /\ q.vg.pv = p.vg.pv /\ q.pv = p.pv
            /\ q.have_vg = p.have_vg /\ q.state = p.state /\ q.vg.name = line.name
    BY <1>1, <1>3, Zenon DEF Parses, VgType
  <1>7. /\ [pe EXCEPT !.size = size] \in PeType /\ [pe EXCEPT !.total = line.n] \in PeType
        /\ [pe EXCEPT !.alloc = line.n] \in PeType /\ [pe EXCEPT !.free = line.n] \in PeType
    BY <1>2, <1>3, <1>4, Zenon DEF PeType
  <1> HIDE DEF pe
  <1>8. VgLine(p, line, os) =
          CASE line.mark = "VG Name" -> [p EXCEPT !.vg.name = line.name]
            [] line.mark = "PE Size" -> [p EXCEPT !.vg.pe = [pe EXCEPT !.size = size]]
            [] line.mark = "Total PE" -> [p EXCEPT !.vg.pe = [pe EXCEPT !.total = line.n]]
            [] line.mark = "Alloc PE" -> [p EXCEPT !.vg.pe = [pe EXCEPT !.alloc = line.n]]
            [] line.mark = "Free PE" -> [p EXCEPT !.vg.pe = [pe EXCEPT !.free = line.n]]
            [] OTHER -> p
    BY DEF VgLine, pe, size
  <1>9. CASE line.mark = "VG Name"
    BY <1>6, <1>8, <1>9, Zenon
  <1>10. CASE line.mark = "PE Size"
    <2> DEFINE new == [pe EXCEPT !.size = size]
    <2>1. new \in PeType
      BY <1>7
    <2>2. VgLine(p, line, os) = [p EXCEPT !.vg.pe = new]
      BY <1>8, <1>10, Zenon
    <2>3. line.mark # "VG Name"
      BY <1>10, Zenon
    <2> HIDE DEF new
    <2> QED
      BY <1>5, <2>1, <2>2, <2>3, Zenon
  <1>11. CASE line.mark = "Total PE"
    <2> DEFINE new == [pe EXCEPT !.total = line.n]
    <2>1. new \in PeType
      BY <1>7
    <2>2. VgLine(p, line, os) = [p EXCEPT !.vg.pe = new]
      BY <1>8, <1>11, Zenon
    <2>3. line.mark # "VG Name"
      BY <1>11, Zenon
    <2> HIDE DEF new
    <2> QED
      BY <1>5, <2>1, <2>2, <2>3, Zenon
  <1>12. CASE line.mark = "Alloc PE"
    <2> DEFINE new == [pe EXCEPT !.alloc = line.n]
    <2>1. new \in PeType
      BY <1>7
    <2>2. VgLine(p, line, os) = [p EXCEPT !.vg.pe = new]
      BY <1>8, <1>12, Zenon
    <2>3. line.mark # "VG Name"
      BY <1>12, Zenon
    <2> HIDE DEF new
    <2> QED
      BY <1>5, <2>1, <2>2, <2>3, Zenon
  <1>13. CASE line.mark = "Free PE"
    <2> DEFINE new == [pe EXCEPT !.free = line.n]
    <2>1. new \in PeType
      BY <1>7
    <2>2. VgLine(p, line, os) = [p EXCEPT !.vg.pe = new]
      BY <1>8, <1>13, Zenon
    <2>3. line.mark # "VG Name"
      BY <1>13, Zenon
    <2> HIDE DEF new
    <2> QED
      BY <1>5, <2>1, <2>2, <2>3, Zenon
  <1>14. CASE line.mark \notin {"VG Name", "PE Size", "Total PE", "Alloc PE", "Free PE"}
    BY <1>8, <1>14, Zenon
  <1> QED
    BY <1>9, <1>10, <1>11, <1>12, <1>13, <1>14, Zenon

LEMMA LvLineIs ==
  ASSUME NEW S, NEW p \in Parses(S), NEW line \in Outputs(S), NEW os \in {"linux", "hpux"}
  PROVE  LET q == LvLine(p, line, os)
         IN  /\ q \in Parses(S)
             /\ q.vgs = p.vgs /\ q.vg.pv = p.vg.pv /\ q.pv = p.pv
             /\ q.have_vg = p.have_vg /\ q.state = p.state /\ q.vg.name = p.vg.name
  <1> DEFINE size == IF os = "hpux" THEN HpuxGetsize(line) ELSE Getsize(line)
             lv == [p.lv EXCEPT !.size = size]
             named == [NewLv EXCEPT !.name = line.name]
  <1>1. p.vg \in VgType(S) /\ p.lv \in LvType(S)
    BY DEF Parses
  <1>2. line.n \in Nat /\ line.name \in S \cup Seq(S)
    BY Zenon DEF Outputs
  <1>3. size \in Nat
    BY <1>2, SizesTyped DEF Getsize, HpuxGetsize
  <1>4. LvLine(p, line, os) =
          CASE line.mark = "LV Name" -> [p EXCEPT !.lv = named]
            [] line.mark = "LV Size" -> [p EXCEPT !.lv = lv, !.vg.lv = Append(@, lv)]
            [] OTHER -> p
    BY DEF LvLine
  <1> HIDE DEF size
  <1>5. lv \in LvType(S) /\ named \in LvType(S)
    BY <1>1, <1>2, <1>3 DEF LvType, NewLv
  <1> HIDE DEF lv, named
  <1>6. p.vg.lv \in Seq(LvType(S))
    BY <1>1 DEF VgType
  <1>7. Append(p.vg.lv, lv) \in Seq(LvType(S))
    BY <1>5, <1>6
  <1>8. [p.vg EXCEPT !.lv = Append(@, lv)] \in VgType(S)
    BY <1>1, <1>7, Zenon DEF VgType
  <1>9. CASE line.mark = "LV Name"
    <2>1. LvLine(p, line, os) = [p EXCEPT !.lv = named]
      BY <1>4, <1>9, Zenon
    <2> QED
      BY <1>5, <2>1 DEF Parses
  <1>10. CASE line.mark = "LV Size"
    <2>1. LvLine(p, line, os) = [p EXCEPT !.lv = lv, !.vg.lv = Append(@, lv)]
      BY <1>4, <1>10, Zenon
    <2>2. LvLine(p, line, os) = [p EXCEPT !.lv = lv, !.vg = [p.vg EXCEPT !.lv = Append(@, lv)]]
      BY <2>1 DEF Parses
    <2>3. /\ [p.vg EXCEPT !.lv = Append(@, lv)].name = p.vg.name
          /\ [p.vg EXCEPT !.lv = Append(@, lv)].pv = p.vg.pv
      BY <1>1 DEF VgType
    <2> QED
      BY <1>5, <1>8, <2>2, <2>3, Zenon DEF Parses
  <1>11. CASE line.mark \notin {"LV Name", "LV Size"}
    BY <1>4, <1>11, Zenon
  <1> QED
    BY <1>9, <1>10, <1>11, Zenon

(* A physical volume: which names the list gains.                            *)
LEMMA AppendNames ==
  ASSUME NEW T, NEW pvs \in Seq(T), NEW more \in Seq(T)
  PROVE  NamesOf(pvs \o more) = NamesOf(pvs) \cup NamesOf(more)
  <1>1. /\ Len(pvs) \in Nat /\ Len(more) \in Nat /\ Len(pvs \o more) = Len(pvs) + Len(more)
        /\ DOMAIN pvs = 1..Len(pvs) /\ DOMAIN more = 1..Len(more)
        /\ DOMAIN (pvs \o more) = 1..Len(pvs) + Len(more)
    OBVIOUS
  <1>2. \A k \in 1..Len(pvs) : (pvs \o more)[k] = pvs[k]
    OBVIOUS
  <1>3. \A k \in 1..Len(more) : (pvs \o more)[Len(pvs) + k] = more[k]
    OBVIOUS
  <1> DEFINE s == pvs \o more
  <1> HIDE DEF s
  <1>4. \A k \in DOMAIN s : k \in DOMAIN pvs \/ \E j \in DOMAIN more : k = Len(pvs) + j
    <2> SUFFICES ASSUME NEW k \in DOMAIN s, k \notin DOMAIN pvs
                 PROVE  \E j \in DOMAIN more : k = Len(pvs) + j
      OBVIOUS
    <2>1. k \in 1..Len(pvs) + Len(more) /\ k \notin 1..Len(pvs)
      BY <1>1 DEF s
    <2>2. k - Len(pvs) \in 1..Len(more) /\ k = Len(pvs) + (k - Len(pvs))
      BY <1>1, <2>1
    <2> QED
      BY <1>1, <2>2
  <1>5. /\ \A k \in DOMAIN pvs : k \in DOMAIN s /\ s[k] = pvs[k]
        /\ \A j \in DOMAIN more : Len(pvs) + j \in DOMAIN s /\ s[Len(pvs) + j] = more[j]
    BY <1>1, <1>2, <1>3 DEF s
  <1>6. NamesOf(s) = NamesOf(pvs) \cup NamesOf(more)
    <2>1. ASSUME NEW x \in NamesOf(s) PROVE x \in NamesOf(pvs) \cup NamesOf(more)
      <3>1. PICK k \in DOMAIN s : x = s[k].name
        BY <2>1 DEF NamesOf
      <3>2. CASE k \in DOMAIN pvs
        BY <1>5, <3>1, <3>2 DEF NamesOf
      <3>3. CASE \E j \in DOMAIN more : k = Len(pvs) + j
        <4>1. PICK j \in DOMAIN more : k = Len(pvs) + j
          BY <3>3
        <4>2. s[k] = more[j]
          BY <1>5, <4>1
        <4> QED
          BY <3>1, <4>2 DEF NamesOf
      <3> QED
        BY <1>4, <3>2, <3>3
    <2>2. ASSUME NEW x \in NamesOf(pvs) PROVE x \in NamesOf(s)
      BY <1>5 DEF NamesOf
    <2>3. ASSUME NEW x \in NamesOf(more) PROVE x \in NamesOf(s)
      <3>1. PICK j \in DOMAIN more : x = more[j].name
        BY DEF NamesOf
      <3>2. Len(pvs) + j \in DOMAIN s /\ s[Len(pvs) + j] = more[j]
        BY <1>5
      <3> QED
        BY <3>1, <3>2 DEF NamesOf
    <2> QED
      BY <2>1, <2>2, <2>3
  <1> QED
    BY <1>6 DEF s

LEMMA NamesTyped ==
  ASSUME NEW S, NEW name \in Seq(S), NEW mpdevs \in Seq(MapType(S))
  PROVE  /\ DiskOfPartition(name) \in Seq(S)
         /\ IsMp(mpdevs, name) => GetMpDevs(mpdevs, name) \in Seq(Seq(S))
  <1>1. SubSeq(name, 1, Len(name) - 1) \in Seq(S)
    <2>1. CASE name = <<>>
      <3>1. SubSeq(name, 1, Len(name) - 1) = <<>>
        BY <2>1
      <3> QED
        BY <3>1
    <2>2. CASE name # <<>>
      BY <2>2
    <2> QED
      BY <2>1, <2>2
  <1>2. DiskOfPartition(name) \in Seq(S)
    BY <1>1 DEF DiskOfPartition
  <1>3. ASSUME IsMp(mpdevs, name) PROVE GetMpDevs(mpdevs, name) \in Seq(Seq(S))
    <2> DEFINE found == Matches(mpdevs, name)
    <2>1. found # {} /\ found \in SUBSET (1..Len(mpdevs)) /\ Len(mpdevs) \in Nat
      BY <1>3 DEF IsMp, Matches
    <2>2. \E k \in found : \A m \in found : k >= m
      <3>1. Max(found) \in found /\ \A x \in found : x <= Max(found)
        BY <2>1, MaxOfSet, Zenon
      <3>2. found \subseteq Int
        BY <2>1
      <3> HIDE DEF found
      <3> QED
        BY <3>1, <3>2, Zenon
    <2> DEFINE k == CHOOSE k \in found : \A m \in found : k >= m
    <2>3. k \in found
      BY <2>2
    <2>4. mpdevs[k] \in MapType(S)
      <3> HIDE DEF k, found
      <3> QED
        BY <2>1, <2>3
    <2>5. GetMpDevs(mpdevs, name) = mpdevs[k].devs
      BY <2>1 DEF GetMpDevs
    <2> HIDE DEF k
    <2> QED
      BY <2>4, <2>5 DEF MapType
  <1> QED
    BY <1>2, <1>3

(* add_pv: the list gains the disks of the volume.                           *)
LEMMA AddPvIs ==
  ASSUME NEW S, NEW p \in Parses(S), NEW pv \in PvType(S), NEW mpdevs \in Seq(MapType(S))
  PROVE  LET q == AddPv(p, mpdevs, pv)
         IN  /\ q \in Parses(S)
             /\ q.vgs = p.vgs /\ q.vg.name = p.vg.name
             /\ q.have_vg = p.have_vg /\ q.state = p.state
             /\ NamesOf(q.vg.pv) = NamesOf(p.vg.pv) \cup DisksOf(pv.name, "linux", mpdevs)
  <1> DEFINE names == IF IsMp(mpdevs, pv.name) THEN GetMpDevs(mpdevs, pv.name)
                      ELSE <<DiskOfPartition(pv.name)>>
             more == [k \in DOMAIN names |-> [pv EXCEPT !.name = names[k]]]
             last == IF names = <<>> THEN pv.name ELSE names[Len(names)]
             new == [p.vg EXCEPT !.pv = @ \o more]
  <1>1. pv.name \in Seq(S)
    BY DEF PvType
  <1>2. names \in Seq(Seq(S))
    BY <1>1, NamesTyped
  <1>3. Range(names) = DisksOf(pv.name, "linux", mpdevs)
    <2>1. CASE IsMp(mpdevs, pv.name)
      BY <2>1 DEF DisksOf
    <2>2. CASE ~IsMp(mpdevs, pv.name)
      <3>1. names = <<DiskOfPartition(pv.name)>>
        BY <2>2
      <3>2. Range(<<DiskOfPartition(pv.name)>>) = {DiskOfPartition(pv.name)}
        BY DEF Range
      <3>3. DisksOf(pv.name, "linux", mpdevs) = {DiskOfPartition(pv.name)}
        BY <2>2 DEF DisksOf, DiskOfPartition, Front
      <3> QED
        BY <3>1, <3>2, <3>3, Zenon
    <2> QED
      BY <2>1, <2>2
  <1>4. AddPv(p, mpdevs, pv) = [p EXCEPT !.pv = [pv EXCEPT !.name = last], !.vg.pv = @ \o more]
    <2>1. [pv EXCEPT !.name = IF names = <<>> THEN @ ELSE names[Len(names)]]
          = [pv EXCEPT !.name = last]
      BY DEF PvType
    <2> QED
      BY <2>1 DEF AddPv
  <1> HIDE DEF names
  <1>5. /\ DOMAIN names = 1..Len(names) /\ Len(names) \in Nat
        /\ \A k \in DOMAIN names : names[k] \in Seq(S)
        /\ names # <<>> => Len(names) \in DOMAIN names
    BY <1>2
  <1>6. more \in [1..Len(names) -> PvType(S)] /\ \A k \in DOMAIN names : more[k].name = names[k]
    BY <1>5, Zenon DEF PvType
  <1>7. more \in Seq(PvType(S)) /\ DOMAIN more = DOMAIN names
    BY <1>5, <1>6
  <1>8. NamesOf(more) = Range(names)
    <2> HIDE DEF more
    <2> QED
      BY <1>6, <1>7 DEF NamesOf, Range
  <1>9. last \in Seq(S)
    BY <1>1, <1>5
  <1>10. p.vg \in VgType(S)
    BY DEF Parses
  <1>11. p.vg.pv \in Seq(PvType(S))
    BY <1>10 DEF VgType
  <1> HIDE DEF more, last
  <1>12. p.vg.pv \o more \in Seq(PvType(S))
    BY <1>7, <1>11
  <1>13. new \in VgType(S) /\ new.name = p.vg.name /\ new.pv = p.vg.pv \o more
    BY <1>10, <1>12, Zenon DEF VgType
  <1>14. [pv EXCEPT !.name = last] \in PvType(S)
    BY <1>9, Zenon DEF PvType
  <1> DEFINE q == AddPv(p, mpdevs, pv)
  <1>15. q = [p EXCEPT !.pv = [pv EXCEPT !.name = last], !.vg = new]
    BY <1>4 DEF Parses
  <1>16. NamesOf(p.vg.pv \o more) = NamesOf(p.vg.pv) \cup NamesOf(more)
    BY <1>7, <1>11, AppendNames
  <1> HIDE DEF new
  <1>17. /\ q \in Parses(S)
         /\ q.vgs = p.vgs /\ q.vg = new /\ q.have_vg = p.have_vg /\ q.state = p.state
    BY <1>13, <1>14, <1>15, Zenon DEF Parses
  <1> HIDE DEF q
  <1> QED
    BY <1>3, <1>8, <1>13, <1>16, <1>17, Zenon DEF q

(* What a line does in the section of a physical volume.                     *)
PvStep(S, p, q, line, os, mpdevs) ==
  /\ q \in Parses(S)
  /\ q.vgs = p.vgs /\ q.vg.name = p.vg.name
  /\ q.have_vg = p.have_vg /\ q.state = p.state
  /\ NamesOf(q.vg.pv) = IF Completes(line, os)
                        THEN NamesOf(p.vg.pv) \cup DisksOf(p.pv.name, os, mpdevs)
                        ELSE NamesOf(p.vg.pv)
  /\ line.mark = "PV Name" => q.pv.name = line.name
  /\ line.mark # "PV Name" /\ ~Completes(line, os) => q.pv.name = p.pv.name

LEMMA PvLineIs ==
  ASSUME NEW S, NEW p \in Parses(S), NEW line \in Outputs(S), NEW mpdevs \in Seq(MapType(S)),
         NEW os \in {"linux", "hpux"}, NEW q, q = PvLine(p, line, os, mpdevs)
  PROVE  PvStep(S, p, q, line, os, mpdevs)
  <1> DEFINE pv == p.pv
             full == [pv EXCEPT !.free = line.n, !.size = pv.total * p.vg.pe.size]
             counted == [pv EXCEPT !.total = line.n, !.free = line.m, !.size = line.n * p.vg.pe.size]
             named == [NewPv EXCEPT !.name = line.name]
             total == [pv EXCEPT !.total = line.n]
             new == [p.vg EXCEPT !.pv = Append(@, full)]
  <1>1. /\ pv \in PvType(S) /\ p.vg \in VgType(S) /\ line.n \in Nat /\ line.m \in Nat
        /\ line.mark = "PV Name" => line.name \in Seq(S)
    BY Zenon DEF Parses, Outputs
  <1>2. p.vg.pe.size \in Nat /\ p.vg.pv \in Seq(PvType(S)) /\ pv.total \in Nat
    BY <1>1, Zenon DEF VgType, PeType, PvType
  <1>3. line.n * p.vg.pe.size \in Nat /\ pv.total * p.vg.pe.size \in Nat
    <2>1. \A a, b \in Nat : a * b \in Nat
      OBVIOUS
    <2> QED
      BY ONLY <1>1, <1>2, <2>1, Zenon DEF PvStep
  <1>4. /\ full \in PvType(S) /\ full.name = pv.name
        /\ counted \in PvType(S) /\ counted.name = pv.name
        /\ total \in PvType(S) /\ total.name = pv.name
    BY <1>1, <1>3, Zenon DEF PvType
  <1>5. line.mark = "PV Name" => named \in PvType(S) /\ named.name = line.name
    BY <1>1, Zenon DEF NewPv, PvType
  <1>6. q = CASE line.mark = "PV Name" -> [p EXCEPT !.pv = named]
              [] line.mark = "Total PE" /\ os = "linux" -> AddPv(p, mpdevs, counted)
              [] line.mark = "Total PE" /\ os = "hpux" -> [p EXCEPT !.pv = total]
              [] line.mark = "Free PE" /\ os = "hpux" ->
                   [p EXCEPT !.pv = full, !.vg.pv = Append(@, full)]
              [] OTHER -> p
    BY Zenon DEF PvLine, full, counted, named, total
  <1> HIDE DEF full, counted, named, total
  <1>7. CASE line.mark = "PV Name"
    <2>1. q = [p EXCEPT !.pv = named] /\ ~Completes(line, os)
      BY <1>6, <1>7, Zenon DEF Completes
    <2> QED
      BY <1>5, <1>7, <2>1, Zenon DEF Parses, PvStep
  <1>8. CASE line.mark = "Total PE" /\ os = "linux"
    <2>1. q = AddPv(p, mpdevs, counted) /\ Completes(line, os)
      BY <1>6, <1>8, Zenon DEF Completes
    <2>2. /\ q \in Parses(S)
          /\ q.vgs = p.vgs /\ q.vg.name = p.vg.name
          /\ q.have_vg = p.have_vg /\ q.state = p.state
          /\ NamesOf(q.vg.pv) = NamesOf(p.vg.pv) \cup DisksOf(counted.name, "linux", mpdevs)
      <3> DEFINE a == AddPv(p, mpdevs, counted)
      <3>2. /\ a \in Parses(S)
            /\ a.vgs = p.vgs /\ a.vg.name = p.vg.name
            /\ a.have_vg = p.have_vg /\ a.state = p.state
            /\ NamesOf(a.vg.pv) = NamesOf(p.vg.pv) \cup DisksOf(counted.name, "linux", mpdevs)
        <4>1. counted \in PvType(S) /\ p \in Parses(S) /\ mpdevs \in Seq(MapType(S))
          BY <1>4
        <4> QED
          BY ONLY <4>1, AddPvIs
      <3> HIDE DEF a
      <3>3. q = a
        BY <2>1 DEF a
      <3> QED
        BY <1>8, <3>2, <3>3, Zenon
    <2> QED
      BY <1>4, <1>8, <2>1, <2>2, Zenon DEF PvStep
  <1>9. CASE line.mark = "Total PE" /\ os = "hpux"
    <2>1. q = [p EXCEPT !.pv = total] /\ ~Completes(line, os)
      BY <1>6, <1>9, Zenon DEF Completes
    <2> QED
      BY <1>4, <1>9, <2>1, Zenon DEF Parses, PvStep
  <1>10. CASE line.mark = "Free PE" /\ os = "hpux"
    <2>1. q = [p EXCEPT !.pv = full, !.vg.pv = Append(@, full)] /\ Completes(line, os)
      BY <1>6, <1>10, Zenon DEF Completes
    <2>2. q = [p EXCEPT !.pv = full, !.vg = new]
      BY <2>1 DEF Parses
    <2>3. Append(p.vg.pv, full) = p.vg.pv \o <<full>> /\ <<full>> \in Seq(PvType(S))
      <3>1. p.vg.pv \in Seq(PvType(S)) /\ full \in PvType(S)
        BY ONLY <1>2, <1>4
      <3> HIDE DEF full
      <3>2. <<full>> \in Seq(PvType(S))
        BY ONLY <3>1
      <3> QED
        BY ONLY <3>1, <3>2, AppendIsConcat, Zenon
    <2>4. NamesOf(<<full>>) = {pv.name}
      BY <1>4 DEF NamesOf
    <2>5. NamesOf(Append(p.vg.pv, full)) = NamesOf(p.vg.pv) \cup {pv.name}
      <3>1. NamesOf(p.vg.pv \o <<full>>) = NamesOf(p.vg.pv) \cup NamesOf(<<full>>)
        BY Zenon, <1>2, <2>3, AppendNames
      <3> QED
        BY <2>3, <2>4, <3>1
    <2>6. new \in VgType(S) /\ new.name = p.vg.name /\ new.pv = Append(p.vg.pv, full)
      <3>1. Append(p.vg.pv, full) \in Seq(PvType(S))
        BY <1>2, <1>4
      <3> QED
        BY <1>1, <3>1, Zenon DEF VgType
    <2>7. DisksOf(p.pv.name, os, mpdevs) = {pv.name}
      BY <1>10, Zenon DEF DisksOf
    <2> HIDE DEF new
    <2>8. /\ q \in Parses(S)
          /\ q.vgs = p.vgs /\ q.vg = new /\ q.have_vg = p.have_vg /\ q.state = p.state
      BY <1>4, <2>2, <2>6, Zenon DEF Parses
    <2> QED
      BY <1>10, <2>1, <2>5, <2>6, <2>7, <2>8, Zenon DEF PvStep
  <1>11. CASE /\ line.mark # "PV Name" /\ ~(line.mark = "Total PE" /\ os = "linux")
             /\ ~(line.mark = "Total PE" /\ os = "hpux") /\ ~(line.mark = "Free PE" /\ os = "hpux")
    <2>1. q = p /\ ~Completes(line, os)
      BY <1>6, <1>11, Zenon DEF Completes
    <2> QED
      BY <1>11, <2>1, Zenon DEF PvStep
  <1> QED
    BY <1>7, <1>8, <1>9, <1>10, <1>11, Zenon

(* One line of the output, whatever section it stands in.                    *)
LineStep(S, p, q, line, os, mpdevs) ==
  /\ q \in Parses(S)
  /\ q.state = NextState(p, line)
  /\ line.mark = "VGSTART" =>
       /\ q.have_vg = TRUE /\ q.vgs = Finish(p) /\ q.pv = p.pv
       /\ q.vg.pv = <<>> /\ q.vg.name = NoVol
  /\ line.mark # "VGSTART" =>
       /\ q.have_vg = p.have_vg /\ q.vgs = p.vgs
       /\ q.vg.name = IF q.state = "IN_VG" /\ line.mark = "VG Name"
                      THEN line.name ELSE p.vg.name
       /\ NamesOf(q.vg.pv) = IF q.state = "IN_PV" /\ Completes(line, os)
                             THEN NamesOf(p.vg.pv) \cup DisksOf(p.pv.name, os, mpdevs)
                             ELSE NamesOf(p.vg.pv)
       /\ q.state = "IN_PV" /\ line.mark = "PV Name" => q.pv.name = line.name
       /\ ~(q.state = "IN_PV" /\ (line.mark = "PV Name" \/ Completes(line, os)))
            => q.pv.name = p.pv.name

LEMMA VgInfoLineIs ==
  ASSUME NEW S, Pieces(S), NEW p \in Parses(S), NEW line \in Outputs(S),
         NEW mpdevs \in Seq(MapType(S)), NEW os \in {"linux", "hpux"}
  PROVE  LineStep(S, p, VgInfoLine(p, line, os, mpdevs), line, os, mpdevs)
  <1> DEFINE begun == IF line.mark = "VGSTART"
                      THEN [p EXCEPT !.vgs = Finish(p), !.vg = NewVg, !.have_vg = TRUE] ELSE p
             r == [begun EXCEPT !.state = NextState(p, line)]
             q == VgInfoLine(p, line, os, mpdevs)
  <1>1. NextState(p, line) \in {"NONE", "IN_VG", "IN_LV", "IN_PV"}
    BY DEF NextState, Parses
  <1>2. NewVg \in VgType(S)
    <2>1. Parsing \in Parses(S) /\ Parsing.vg = NewVg
      BY ParsingTyped, Zenon DEF Parsing
    <2>2. \A x \in Parses(S) : x.vg \in VgType(S)
      BY DEF Parses
    <2> QED
      BY <2>1, <2>2
  <1>3. Finish(p) \in Seq(VgType(S))
    BY FinishIs
  <1>4. /\ r \in Parses(S) /\ r.state = NextState(p, line) /\ r.pv = p.pv
        /\ line.mark = "VGSTART" => r.vgs = Finish(p) /\ r.vg = NewVg /\ r.have_vg = TRUE
        /\ line.mark # "VGSTART" => r.vgs = p.vgs /\ r.vg = p.vg /\ r.have_vg = p.have_vg
    <2>1. CASE line.mark = "VGSTART"
      BY <1>1, <1>2, <1>3, <2>1, Zenon DEF Parses
    <2>2. CASE line.mark # "VGSTART"
      BY <1>1, <2>2 DEF Parses
    <2> QED
      BY <2>1, <2>2, Zenon
  <1>5. NewVg.name = NoVol /\ NewVg.pv = <<>>
    BY DEF NewVg
  <1>6. line.mark = "VGSTART" => r.state = "IN_VG"
    BY <1>4 DEF NextState
  <1>7. q = CASE r.state = "IN_VG" -> VgLine(r, line, os)
              [] r.state = "IN_LV" -> LvLine(r, line, os)
              [] r.state = "IN_PV" -> PvLine(r, line, os, mpdevs)
              [] OTHER -> r
    BY DEF VgInfoLine
  <1> HIDE DEF r, q
  <1>8. CASE r.state = "IN_VG"
    <2>1. q = VgLine(r, line, os)
      BY <1>7, <1>8
    <2> DEFINE a == VgLine(r, line, os)
    <2>2. r \in Parses(S)
      BY <1>4
    <2> HIDE DEF begun
    <2>3. /\ a \in Parses(S)
          /\ a.vgs = r.vgs /\ a.vg.pv = r.vg.pv /\ a.pv = r.pv
          /\ a.have_vg = r.have_vg /\ a.state = r.state
          /\ a.vg.name = IF line.mark = "VG Name" THEN line.name ELSE r.vg.name
      BY ONLY <2>2, VgLineIs, line \in Outputs(S), mpdevs \in Seq(MapType(S)),
              os \in {"linux", "hpux"}
    <2> HIDE DEF a
    <2>4. q = a
      BY <2>1 DEF a
    <2> QED
      BY <1>4, <1>5, <1>8, <2>3, <2>4, Zenon DEF q, LineStep
  <1>9. CASE r.state = "IN_LV"
    <2>1. q = LvLine(r, line, os)
      BY <1>7, <1>9
    <2>2. /\ q \in Parses(S)
          /\ q.vgs = r.vgs /\ q.vg.pv = r.vg.pv /\ q.pv = r.pv
          /\ q.have_vg = r.have_vg /\ q.state = r.state /\ q.vg.name = r.vg.name
      BY <1>4, <2>1, LvLineIs
    <2> QED
      BY <1>4, <1>6, <1>9, <2>2 DEF q, LineStep
  <1>10. CASE r.state = "IN_PV"
    <2>1. q = PvLine(r, line, os, mpdevs)
      BY <1>7, <1>10
    <2>2. r \in Parses(S)
      BY <1>4
    <2> HIDE DEF begun
    <2>3. PvStep(S, r, q, line, os, mpdevs)
      BY ONLY <2>1, <2>2, PvLineIs, line \in Outputs(S), mpdevs \in Seq(MapType(S)),
              os \in {"linux", "hpux"}
    <2> QED
      BY <1>4, <1>6, <1>10, <2>3, Zenon DEF q, LineStep, PvStep
  <1>11. CASE r.state \notin {"IN_VG", "IN_LV", "IN_PV"}
    <2>1. q = r
      BY <1>7, <1>11
    <2> QED
      BY <1>4, <1>6, <1>11, <2>1, Zenon DEF q, LineStep
  <1> QED
    BY <1>8, <1>9, <1>10, <1>11

-----------------------------------------------------------------------------
(* get_vginfo is a run over the lines.                                       *)

VgRun(lines, os, mpdevs, p) ==
  /\ p[0] = Parsing
  /\ \A k \in 1..Len(lines) : p[k] = VgInfoLine(p[k - 1], lines[k], os, mpdevs)

VgTurns(lines, os, mpdevs, it) ==
  it = [T \in SUBSET DOMAIN lines |->
          IF T = {} THEN Parsing ELSE VgInfoLine(it[T \ {Max(T)}], lines[Max(T)], os, mpdevs)]

LEMMA VgInfoIsFold ==
  ASSUME NEW lines, NEW os, NEW mpdevs
  PROVE  GetVginfo(lines, os, mpdevs)
         = Finish((CHOOSE it : VgTurns(lines, os, mpdevs, it))[DOMAIN lines])
  BY Zenon DEF GetVginfo, FoldLeft, MapThenFoldSet, VgTurns

LEMMA VgHasRun ==
  ASSUME NEW S, Pieces(S), NEW lines \in Seq(Outputs(S)),
         NEW mpdevs \in Seq(MapType(S)), NEW os \in {"linux", "hpux"}
  PROVE  \E p : /\ VgRun(lines, os, mpdevs, p)
                /\ \A k \in 0..Len(lines) : p[k] \in Parses(S)
                /\ GetVginfo(lines, os, mpdevs) = Finish(p[Len(lines)])
  <1> DEFINE n == Len(lines)
             C == Parses(S)
             f == [k \in 1..n |-> [c \in C |-> VgInfoLine(c, lines[k], os, mpdevs)]]
  <1>1. n \in Nat /\ DOMAIN lines = 1..n /\ \A k \in 1..n : lines[k] \in Outputs(S)
    OBVIOUS
  <1>2. \A k \in 1..n, c \in C : VgInfoLine(c, lines[k], os, mpdevs) \in C
    <2> SUFFICES ASSUME NEW k \in 1..n, NEW c \in C
                 PROVE  VgInfoLine(c, lines[k], os, mpdevs) \in C
      OBVIOUS
    <2>1. LineStep(S, c, VgInfoLine(c, lines[k], os, mpdevs), lines[k], os, mpdevs)
      BY <1>1, VgInfoLineIs
    <2> QED
      BY <2>1, Zenon DEF LineStep
  <1>3. f \in [1..n -> [C -> C]]
    BY <1>2
  <1>4. Parsing \in C
    BY ParsingTyped
  <1>5. PICK it \in [SUBSET (1..n) -> C] : Turns(f, Parsing, n, it)
    <2> HIDE DEF f, n, C
    <2>1. HasTurns(C, f, Parsing, n)
      BY <1>1, <1>3, <1>4, TurnsExist, Zenon
    <2> QED
      BY <2>1 DEF HasTurns
  <1>6. VgTurns(lines, os, mpdevs, it)
    <2>1. \A T \in SUBSET (1..n) : T # {} =>
            f[Max(T)][it[T \ {Max(T)}]] = VgInfoLine(it[T \ {Max(T)}], lines[Max(T)], os, mpdevs)
      <3> SUFFICES ASSUME NEW T \in SUBSET (1..n), T # {}
                   PROVE  f[Max(T)][it[T \ {Max(T)}]]
                          = VgInfoLine(it[T \ {Max(T)}], lines[Max(T)], os, mpdevs)
        BY Zenon
      <3>1. Max(T) \in 1..n /\ T \ {Max(T)} \in SUBSET (1..n)
        BY <1>1, MaxOfSet, Zenon
      <3>2. it[T \ {Max(T)}] \in C
        BY <3>1
      <3> QED
        BY <3>1, <3>2
    <2>2. it = [T \in SUBSET (1..n) |->
                  IF T = {} THEN Parsing ELSE f[Max(T)][it[T \ {Max(T)}]]]
      BY <1>5, Zenon DEF Turns
    <2>3. it = [T \in SUBSET (1..n) |->
                  IF T = {} THEN Parsing
                  ELSE VgInfoLine(it[T \ {Max(T)}], lines[Max(T)], os, mpdevs)]
      <3> HIDE DEF f
      <3> QED
        BY <2>1, <2>2, Zenon
    <2> QED
      BY <1>1, <2>3, Zenon DEF VgTurns
  <1> DEFINE jt == CHOOSE x : VgTurns(lines, os, mpdevs, x)
             p == [k \in 0..n |-> jt[1..k]]
  <1>7. VgTurns(lines, os, mpdevs, jt)
    BY <1>6
  <1> HIDE DEF jt, f
  <1>8. /\ jt[{}] = Parsing
        /\ \A T \in SUBSET (1..n) : T # {} =>
             jt[T] = VgInfoLine(jt[T \ {Max(T)}], lines[Max(T)], os, mpdevs)
    <2>1. jt = [T \in SUBSET (1..n) |->
                  IF T = {} THEN Parsing
                  ELSE VgInfoLine(jt[T \ {Max(T)}], lines[Max(T)], os, mpdevs)]
      BY <1>1, <1>7, Zenon DEF VgTurns
    <2>2. {} \in SUBSET (1..n)
      OBVIOUS
    <2> QED
      BY <2>1, <2>2, Zenon
  <1>9. p[0] = Parsing
    <2>1. 1..0 = {} /\ 0 \in 0..n
      BY <1>1
    <2> QED
      BY <1>8, <2>1
  <1>10. \A k \in 1..n : p[k] = VgInfoLine(p[k - 1], lines[k], os, mpdevs)
    <2> SUFFICES ASSUME NEW k \in 1..n
                 PROVE  p[k] = VgInfoLine(p[k - 1], lines[k], os, mpdevs)
      BY Zenon
    <2>1. /\ 1..k \in SUBSET (1..n) /\ 1..k # {}
          /\ Max(1..k) = k /\ (1..k) \ {Max(1..k)} = 1 .. k - 1
      BY <1>1, PrefixMax
    <2>2. jt[1..k] = VgInfoLine(jt[1 .. k - 1], lines[k], os, mpdevs)
      BY ONLY <1>8, <2>1, Zenon
    <2>3. k \in 0..n /\ k - 1 \in 0..n
      BY <1>1
    <2> QED
      BY ONLY <2>2, <2>3
  <1> HIDE DEF p
  <1>11. \A k \in 0..n : p[k] \in C
    <2>1. \A k \in 1..n : p[k - 1] \in C => p[k] \in C
      BY <1>2, <1>10, Zenon
    <2> HIDE DEF C, n
    <2> QED
      BY <1>1, <1>4, <1>9, <2>1, RunTyped, Zenon
  <1>12. GetVginfo(lines, os, mpdevs) = Finish(p[n])
    <2>1. n \in 0..n /\ p[n] = jt[1..n]
      BY <1>1 DEF p
    <2> QED
      BY <1>1, <2>1, VgInfoIsFold DEF jt
  <1> QED
    BY <1>9, <1>10, <1>11, <1>12 DEF VgRun

-----------------------------------------------------------------------------
(* Where a line stands: line by line.                                        *)

LEMMA LastIs ==
  ASSUME NEW n \in Nat, NEW T \in SUBSET (1..n), T # {}
  PROVE  LastOf(T) \in T /\ \A x \in T : x <= LastOf(T)
  <1>1. Max(T) \in T /\ \A x \in T : x <= Max(T)
    BY MaxOfSet
  <1>2. T \subseteq Int
    OBVIOUS
  <1>3. \E k \in T : \A m \in T : k >= m
    BY <1>1, <1>2, Zenon
  <1>4. LastOf(T) \in T /\ \A m \in T : LastOf(T) >= m
    BY <1>3, Zenon DEF LastOf
  <1> QED
    BY <1>2, <1>4

LEMMA LastIsIt ==
  ASSUME NEW n \in Nat, NEW T \in SUBSET (1..n), NEW k \in T, \A x \in T : x <= k
  PROVE  LastOf(T) = k
  <1>1. LastOf(T) \in T /\ k <= LastOf(T) /\ LastOf(T) <= k
    BY LastIs, Zenon
  <1>2. LastOf(T) \in Int /\ k \in Int
    <2>1. T \subseteq Int
      OBVIOUS
    <2> QED
      BY <1>1, <2>1, Zenon
  <1> QED
    BY ONLY <1>1, <1>2

LEMMA FirstIs ==
  ASSUME NEW T \in SUBSET Nat, T # {}
  PROVE  FirstOf(T) \in T /\ \A m \in T : FirstOf(T) <= m
  BY LeastElement, Zenon DEF FirstOf

LEMMA FirstIsIt ==
  ASSUME NEW T \in SUBSET Nat, NEW k \in T, \A m \in T : k <= m
  PROVE  FirstOf(T) = k
  <1>1. FirstOf(T) \in T /\ FirstOf(T) <= k /\ k <= FirstOf(T)
    BY FirstIs, Zenon
  <1>2. FirstOf(T) \in Int /\ k \in Int
    <2>1. T \subseteq Int
      OBVIOUS
    <2> QED
      BY <1>1, <2>1, Zenon
  <1> QED
    BY ONLY <1>1, <1>2

Begins(lines, i) == lines[i].mark \in Heads /\ GroupStarts(lines, i) # {}

LEMMA NothingBefore ==
  ASSUME NEW lines
  PROVE  GroupStarts(lines, 0) = {} /\ SectionStarts(lines, 0) = {} /\ PvNames(lines, 0) = {}
  BY DEF GroupStarts, SectionStarts, PvNames

LEMMA GroupStartsNext ==
  ASSUME NEW lines, NEW i \in Nat \ {0}
  PROVE  GroupStarts(lines, i) = IF lines[i].mark = "VGSTART" THEN GroupStarts(lines, i - 1) \cup {i}
                                 ELSE GroupStarts(lines, i - 1)
  <1>1. 1..i = (1 .. i - 1) \cup {i}
    OBVIOUS
  <1> QED
    BY <1>1 DEF GroupStarts

LEMMA PvNamesNext ==
  ASSUME NEW lines, NEW i \in Nat \ {0}
  PROVE  PvNames(lines, i) = IF InSection(lines, i, "PVSTART") /\ lines[i].mark = "PV Name"
                             THEN PvNames(lines, i - 1) \cup {i} ELSE PvNames(lines, i - 1)
  <1>1. 1..i = (1 .. i - 1) \cup {i}
    OBVIOUS
  <1> QED
    BY <1>1, Zenon DEF PvNames

LEMMA SectionNext ==
  ASSUME NEW lines, NEW i \in Nat \ {0}, NEW mark
  PROVE  InSection(lines, i, mark) <=>
           IF Begins(lines, i) THEN lines[i].mark = mark ELSE InSection(lines, i - 1, mark)
  <1>1. 1..i = (1 .. i - 1) \cup {i}
    OBVIOUS
  <1>2. SectionStarts(lines, i) = SectionStarts(lines, i - 1)
                                  \cup (IF Begins(lines, i) THEN {i} ELSE {})
    BY <1>1 DEF SectionStarts, Begins
  <1>3. CASE Begins(lines, i)
    <2>1. /\ SectionStarts(lines, i) \in SUBSET (1..i) /\ i \in SectionStarts(lines, i)
          /\ \A x \in SectionStarts(lines, i) : x <= i
      BY <1>2, <1>3 DEF SectionStarts
    <2>2. LastOf(SectionStarts(lines, i)) = i
      BY <2>1, LastIsIt, Zenon
    <2> QED
      BY <1>3, <2>1, <2>2 DEF InSection
  <1>4. CASE ~Begins(lines, i)
    <2>1. SectionStarts(lines, i) = SectionStarts(lines, i - 1)
      BY <1>2, <1>4
    <2> QED
      BY <1>4, <2>1 DEF InSection
  <1> QED
    BY <1>3, <1>4

(* A section lies in a group, and in no other section.                       *)
LEMMA SectionIsOne ==
  ASSUME NEW lines, NEW i \in Nat, NEW mark, InSection(lines, i, mark)
  PROVE  GroupStarts(lines, i) # {} /\ \A other : InSection(lines, i, other) => other = mark
  <1>1. PICK k \in 1..i : GroupStarts(lines, k) # {}
    BY DEF InSection, SectionStarts
  <1>2. GroupStarts(lines, k) \subseteq GroupStarts(lines, i)
    BY DEF GroupStarts
  <1> QED
    BY <1>1, <1>2 DEF InSection

LEMMA GroupNameNext ==
  ASSUME NEW lines, NEW i \in Nat \ {0}
  PROVE  /\ lines[i].mark = "VGSTART" => GroupName(lines, i) = NoVol
         /\ lines[i].mark # "VGSTART" /\ GroupStarts(lines, i) # {} =>
              GroupName(lines, i) = IF InSection(lines, i, "VGSTART") /\ lines[i].mark = "VG Name"
                                    THEN lines[i].name ELSE GroupName(lines, i - 1)
  <1>1. ASSUME lines[i].mark = "VGSTART" PROVE GroupName(lines, i) = NoVol
    <2>1. /\ GroupStarts(lines, i) \in SUBSET (1..i) /\ i \in GroupStarts(lines, i)
          /\ \A x \in GroupStarts(lines, i) : x <= i
      BY <1>1 DEF GroupStarts
    <2>2. LastOf(GroupStarts(lines, i)) = i
      BY <2>1, LastIsIt, Zenon
    <2>3. \A k \in i..i : k = i
      OBVIOUS
    <2>4. Titles(lines, i) = {}
      BY <1>1, <2>2, <2>3, Zenon DEF Titles
    <2> QED
      BY <2>4 DEF GroupName
  <1>2. ASSUME lines[i].mark # "VGSTART", GroupStarts(lines, i) # {}
        PROVE  GroupName(lines, i) = IF InSection(lines, i, "VGSTART") /\ lines[i].mark = "VG Name"
                                     THEN lines[i].name ELSE GroupName(lines, i - 1)
    <2> DEFINE g == LastOf(GroupStarts(lines, i))
               Title(k) == InSection(lines, k, "VGSTART") /\ lines[k].mark = "VG Name"
    <2>1. GroupStarts(lines, i) = GroupStarts(lines, i - 1)
      BY <1>2, GroupStartsNext
    <2>2. g \in 1..i
      BY <1>2, LastIs, Zenon DEF GroupStarts
    <2>3. g # i
      <3>1. g \in GroupStarts(lines, i) /\ GroupStarts(lines, i) \in SUBSET (1..i)
        BY <1>2, LastIs, Zenon DEF GroupStarts
      <3>2. i \notin GroupStarts(lines, i)
        BY <1>2 DEF GroupStarts
      <3> QED
        BY <3>1, <3>2
    <2> HIDE DEF g
    <2>4. g..i = (g .. i - 1) \cup {i}
      BY <2>2, <2>3
    <2>5. Titles(lines, i) = {k \in g..i : Title(k)} /\ Titles(lines, i - 1) = {k \in g .. i - 1 : Title(k)}
      BY <2>1 DEF Titles, g
    <2>6. CASE Title(i)
      <3>1. /\ Titles(lines, i) \in SUBSET (1..i) /\ i \in Titles(lines, i)
            /\ \A x \in Titles(lines, i) : x <= i
        <4>1. i \in g..i /\ g..i \subseteq 1..i /\ \A x \in g..i : x <= i
          BY <2>2
        <4> HIDE DEF Title
        <4> QED
          BY <2>5, <2>6, <4>1
      <3>2. LastOf(Titles(lines, i)) = i
        BY <3>1, LastIsIt, Zenon
      <3> QED
        BY <2>6, <3>1, <3>2, Zenon DEF GroupName
    <2>7. CASE ~Title(i)
      <3>1. Titles(lines, i) = Titles(lines, i - 1)
        <4> HIDE DEF Title
        <4> QED
          BY <2>4, <2>5, <2>7
      <3> QED
        BY <2>7, <3>1, Zenon DEF GroupName
    <2> QED
      BY <2>6, <2>7, Zenon
  <1> QED
    BY <1>1, <1>2, Zenon

-----------------------------------------------------------------------------
(* The invariant of the parser: p[i] is its state behind line i.             *)

Turn(p, i) == Len(p[i].vgs) + 1        \* the number of the group that is read
Held(lines, os, mpdevs, p, i, g) ==
  UNION {DisksAt(lines, d, os, mpdevs) :
           d \in {d \in Completions(lines, os) : d <= i /\ Turn(p, d) = g}}

KnowsSection(lines, p, i) ==
  /\ p[i].have_vg <=> GroupStarts(lines, i) # {}
  /\ p[i].state = "IN_VG" <=> InSection(lines, i, "VGSTART")
  /\ p[i].state = "IN_LV" <=> InSection(lines, i, "LVSTART")
  /\ p[i].state = "IN_PV" <=> InSection(lines, i, "PVSTART")
KnowsGroup(lines, p, i) ==
  GroupStarts(lines, i) # {} => p[i].vg.name = GroupName(lines, i)
KnowsVolume(lines, os, p, i) ==
  /\ PvNames(lines, i) # {}
  /\ \A d \in Completions(lines, os) :
       d <= i => LastOf(PvNames(lines, d)) # LastOf(PvNames(lines, i))
  => p[i].pv.name = lines[LastOf(PvNames(lines, i))].name
TurnsGrow(p, i) == \A d \in 0..i : Turn(p, d) <= Turn(p, i)
HoldsDisks(lines, os, mpdevs, p, i) ==
  /\ \A g \in 1..Len(p[i].vgs) :
       NamesOf(p[i].vgs[g].pv) = Held(lines, os, mpdevs, p, i, g)
  /\ NamesOf(p[i].vg.pv) = Held(lines, os, mpdevs, p, i, Turn(p, i))
NamesGroups(lines, os, p, i) ==
  \A d \in Completions(lines, os) :
    d <= i => IF Turn(p, d) <= Len(p[i].vgs)
              THEN p[i].vgs[Turn(p, d)].name = GroupName(lines, d)
              ELSE /\ GroupName(lines, d) = GroupName(lines, i)
                   /\ ~InSection(lines, i, "VGSTART")

VgInv(lines, os, mpdevs, p, i) ==
  /\ KnowsSection(lines, p, i)
  /\ KnowsGroup(lines, p, i)
  /\ KnowsVolume(lines, os, p, i)
  /\ TurnsGrow(p, i)
  /\ HoldsDisks(lines, os, mpdevs, p, i)
  /\ NamesGroups(lines, os, p, i)

(* Each volume is named before it is completed, and completed once.          *)
Orderly(lines, os) ==
  \A d \in Completions(lines, os) :
    /\ PvNames(lines, d) # {}
    /\ \A e \in Completions(lines, os) :
         LastOf(PvNames(lines, e)) = LastOf(PvNames(lines, d)) => e = d

LEMMA VgInvBegins ==
  ASSUME NEW S, NEW lines \in Seq(Outputs(S)), NEW os, NEW mpdevs, NEW p, p[0] = Parsing
  PROVE  VgInv(lines, os, mpdevs, p, 0)
  <1>1. /\ p[0].have_vg = FALSE /\ p[0].state = "NONE" /\ p[0].vgs = <<>> /\ p[0].vg.pv = <<>>
    BY DEF Parsing, NewVg
  <1>2. GroupStarts(lines, 0) = {} /\ PvNames(lines, 0) = {} /\ SectionStarts(lines, 0) = {}
    BY NothingBefore
  <1>3. \A d \in Completions(lines, os) : d \in 1..Len(lines)
    BY DEF Completions
  <1>4. \A mark : ~InSection(lines, 0, mark)
    BY <1>2 DEF InSection
  <1>5. KnowsSection(lines, p, 0)
    BY <1>1, <1>2, <1>4 DEF KnowsSection
  <1>6. KnowsGroup(lines, p, 0) /\ KnowsVolume(lines, os, p, 0)
    BY <1>2 DEF KnowsGroup, KnowsVolume
  <1>7. TurnsGrow(p, 0)
    <2>1. Turn(p, 0) = 1
      BY <1>1 DEF Turn
    <2>2. \A d \in 0..0 : d = 0
      OBVIOUS
    <2> QED
      BY <2>1, <2>2 DEF TurnsGrow
  <1>8. \A g : Held(lines, os, mpdevs, p, 0, g) = {}
    <2>1. \A d \in Completions(lines, os) : ~(d <= 0)
      BY <1>3
    <2> QED
      BY <2>1 DEF Held
  <1>9. HoldsDisks(lines, os, mpdevs, p, 0)
    BY <1>1, <1>8 DEF HoldsDisks, NamesOf
  <1>10. NamesGroups(lines, os, p, 0)
    BY <1>3 DEF NamesGroups
  <1> QED
    BY <1>5, <1>6, <1>7, <1>9, <1>10 DEF VgInv

LEMMA SectionKnown ==
  ASSUME NEW S, NEW lines \in Seq(Outputs(S)), NEW os, NEW mpdevs, NEW p, NEW i \in 1..Len(lines),
         p[i - 1] \in Parses(S), p[i] \in Parses(S),
         LineStep(S, p[i - 1], p[i], lines[i], os, mpdevs), KnowsSection(lines, p, i - 1)
  PROVE  KnowsSection(lines, p, i)
  <1> DEFINE mark == lines[i].mark
             have == p[i - 1].have_vg
  <1>1. i \in Nat \ {0}
    OBVIOUS
  <1>2. /\ p[i].state = NextState(p[i - 1], lines[i])
        /\ p[i].have_vg = IF mark = "VGSTART" THEN TRUE ELSE have
    BY Zenon DEF LineStep
  <1>3. GroupStarts(lines, i) = IF mark = "VGSTART" THEN GroupStarts(lines, i - 1) \cup {i}
                                ELSE GroupStarts(lines, i - 1)
    BY <1>1, GroupStartsNext
  <1>4. p[i].have_vg <=> GroupStarts(lines, i) # {}
    BY <1>2, <1>3, Zenon DEF KnowsSection
  <1>5. Begins(lines, i) <=> mark = "VGSTART" \/ (mark \in {"LVSTART", "PVSTART"} /\ have)
    BY <1>3, Zenon DEF Begins, Heads, KnowsSection
  <1>6. NextState(p[i - 1], lines[i]) =
          IF mark = "VGSTART" THEN "IN_VG"
          ELSE IF mark = "LVSTART" /\ have THEN "IN_LV"
          ELSE IF mark = "PVSTART" /\ have THEN "IN_PV" ELSE p[i - 1].state
    BY DEF NextState
  <1>7. ASSUME NEW which \in {"VGSTART", "LVSTART", "PVSTART"}, NEW state,
               state = IF which = "VGSTART" THEN "IN_VG" ELSE IF which = "LVSTART" THEN "IN_LV" ELSE "IN_PV"
        PROVE  p[i].state = state <=> InSection(lines, i, which)
    <2>1. InSection(lines, i, which) <=>
            IF Begins(lines, i) THEN mark = which ELSE InSection(lines, i - 1, which)
      BY <1>1, SectionNext
    <2>2. (p[i - 1].state = state) <=> InSection(lines, i - 1, which)
      BY <1>7 DEF KnowsSection
    <2>3. CASE Begins(lines, i)
      BY <1>2, <1>5, <1>6, <1>7, <2>1, <2>3
    <2>4. CASE ~Begins(lines, i)
      <3>1. p[i].state = p[i - 1].state
        BY <1>2, <1>5, <1>6, <2>4
      <3> QED
        BY <2>1, <2>2, <2>4, <3>1
    <2> QED
      BY <2>3, <2>4
  <1> QED
    BY <1>4, <1>7 DEF KnowsSection

LEMMA VgInvNext ==
  ASSUME NEW S, Pieces(S), NEW lines \in Seq(Outputs(S)), NEW mpdevs \in Seq(MapType(S)),
         NEW os \in {"linux", "hpux"}, Orderly(lines, os),
         NEW p, VgRun(lines, os, mpdevs, p), \A k \in 0..Len(lines) : p[k] \in Parses(S),
         NEW i \in 1..Len(lines), VgInv(lines, os, mpdevs, p, i - 1)
  PROVE  VgInv(lines, os, mpdevs, p, i)
  <1> DEFINE done == Completions(lines, os)
             mark == lines[i].mark
             h == i - 1
             Now == InSection(lines, i, "PVSTART") /\ Completes(lines[i], os)
  <1>1. /\ i \in Nat \ {0} /\ h \in Nat /\ h \in 0..Len(lines) /\ i \in 0..Len(lines)
        /\ lines[i] \in Outputs(S)
    OBVIOUS
  <1>2. p[h] \in Parses(S) /\ p[i] \in Parses(S)
    BY <1>1
  <1>3. LineStep(S, p[h], p[i], lines[i], os, mpdevs)
    <2>1. p[i] = VgInfoLine(p[h], lines[i], os, mpdevs)
      BY DEF VgRun
    <2>2. LineStep(S, p[h], VgInfoLine(p[h], lines[i], os, mpdevs), lines[i], os, mpdevs)
      BY <1>1, <1>2, VgInfoLineIs
    <2> QED
      BY <2>1, <2>2
  <1>4. /\ KnowsSection(lines, p, h) /\ KnowsGroup(lines, p, h) /\ KnowsVolume(lines, os, p, h)
        /\ TurnsGrow(p, h) /\ HoldsDisks(lines, os, mpdevs, p, h) /\ NamesGroups(lines, os, p, h)
    BY DEF VgInv
  <1>5. KnowsSection(lines, p, i)
    BY <1>1, <1>2, <1>3, <1>4, SectionKnown
  <1>6. /\ \A d \in done : d \in 1..Len(lines) /\ d \in Int
        /\ \A d \in done : d <= i <=> d <= h \/ d = i
        /\ i \in done <=> Now
    BY DEF Completions
  <1>7. /\ Len(p[h].vgs) \in Nat /\ p[h].vgs \in Seq(VgType(S)) /\ p[h].have_vg \in BOOLEAN
        /\ Turn(p, h) = Len(p[h].vgs) + 1 /\ Turn(p, i) = Len(p[i].vgs) + 1
    BY <1>2 DEF Parses, Turn
  <1>8. \A d \in 0..h : Turn(p, d) \in Int
    <2>1. \A d \in 0..h : p[d] \in Parses(S)
      BY <1>1
    <2>2. \A x \in Parses(S) : Len(x.vgs) \in Nat
      BY DEF Parses
    <2> QED
      BY <2>1, <2>2 DEF Turn
  <1>9. \A d \in done : d <= h => d \in 0..h /\ GroupStarts(lines, h) # {}
    <2> SUFFICES ASSUME NEW d \in done, d <= h
                 PROVE  d \in 0..h /\ GroupStarts(lines, h) # {}
      OBVIOUS
    <2>1. d \in Nat /\ d \in 0..h
      BY <1>6
    <2>2. GroupStarts(lines, d) # {}
      BY <2>1, SectionIsOne DEF Completions
    <2>3. GroupStarts(lines, d) \subseteq GroupStarts(lines, h)
      BY <2>1 DEF GroupStarts
    <2> QED
      BY <2>1, <2>2, <2>3
  <1>10. \A mark1 : InSection(lines, i, mark1) <=>
              IF Begins(lines, i) THEN mark = mark1 ELSE InSection(lines, h, mark1)
    BY <1>1, SectionNext
  <1>11. CASE mark = "VGSTART"
    <2>1. /\ p[i].have_vg = TRUE /\ p[i].vgs = Finish(p[h]) /\ p[i].pv = p[h].pv
          /\ p[i].vg.pv = <<>> /\ p[i].vg.name = NoVol
      BY <1>3, <1>11 DEF LineStep
    <2>2. i \notin done
      BY <1>6, <1>11 DEF Completes
    <2>3. KnowsGroup(lines, p, i)
      BY <1>1, <1>11, <2>1, GroupNameNext, Zenon DEF KnowsGroup
    <2>4. KnowsVolume(lines, os, p, i)
      <3>1. PvNames(lines, i) = PvNames(lines, h)
        BY <1>1, <1>11, PvNamesNext, Zenon
      <3>2. \A d \in done : d <= h => d <= i
        BY <1>6
      <3> HIDE DEF done
      <3> QED
        BY <1>4, <2>1, <3>1, <3>2 DEF KnowsVolume, done
    <2>5. ASSUME NEW g, \A d \in done : d <= h => Turn(p, d) # g
          PROVE  Held(lines, os, mpdevs, p, i, g) = {}
      <3>1. \A d \in done : ~(d <= i /\ Turn(p, d) = g)
        BY <1>6, <2>2, <2>5
      <3> QED
        BY <3>1 DEF Held
    <2>6. \A g : Held(lines, os, mpdevs, p, i, g) = Held(lines, os, mpdevs, p, h, g)
      BY <1>6, <2>2 DEF Held
    <2>7. CASE ~p[h].have_vg
      <3>1. p[i].vgs = p[h].vgs /\ Turn(p, i) = Turn(p, h)
        BY <1>2, <1>7, <2>1, <2>7, FinishIs, Zenon
      <3>2. \A d \in done : ~(d <= h)
        BY <1>4, <1>9, <2>7 DEF KnowsSection
      <3>3. TurnsGrow(p, i)
        <4>1. \A d \in 0..i : d \in 0..h \/ d = i
          BY <1>1
        <4>2. Turn(p, i) \in Int
          BY <1>7
        <4> QED
          BY <1>4, <3>1, <4>1, <4>2 DEF TurnsGrow
      <3>4. HoldsDisks(lines, os, mpdevs, p, i)
        <4>1. Held(lines, os, mpdevs, p, i, Turn(p, i)) = {}
          BY <2>5, <3>2
        <4>2. NamesOf(p[i].vg.pv) = {}
          BY <2>1 DEF NamesOf
        <4> QED
          BY <1>4, <2>6, <3>1, <4>1, <4>2 DEF HoldsDisks
      <3>5. NamesGroups(lines, os, p, i)
        BY <1>6, <2>2, <3>2 DEF NamesGroups
      <3> QED
        BY <1>5, <2>3, <2>4, <3>3, <3>4, <3>5 DEF VgInv
    <2>8. CASE p[h].have_vg
      <3>1. /\ Len(p[i].vgs) = Len(p[h].vgs) + 1
            /\ \A g \in 1..Len(p[h].vgs) : p[i].vgs[g] = p[h].vgs[g]
            /\ p[i].vgs[Len(p[h].vgs) + 1].name = p[h].vg.name
            /\ p[i].vgs[Len(p[h].vgs) + 1].pv = p[h].vg.pv
        BY <1>2, <2>1, <2>8, FinishIs
      <3>2. Turn(p, i) = Turn(p, h) + 1 /\ Len(p[i].vgs) = Turn(p, h)
        BY <1>7, <3>1
      <3>3. \A d \in done : d <= h => Turn(p, d) <= Turn(p, h) /\ Turn(p, d) \in Int
        BY <1>4, <1>8, <1>9 DEF TurnsGrow
      <3>4. TurnsGrow(p, i)
        <4>1. \A d \in 0..i : d \in 0..h \/ d = i
          BY <1>1
        <4>2. Turn(p, i) \in Int /\ Turn(p, h) \in Int /\ Turn(p, h) <= Turn(p, i)
          BY <1>7, <3>2
        <4> QED
          BY <1>4, <1>8, <4>1, <4>2 DEF TurnsGrow
      <3>5. HoldsDisks(lines, os, mpdevs, p, i)
        <4>1. Held(lines, os, mpdevs, p, i, Turn(p, i)) = {}
          <5>1. \A d \in done : d <= h => Turn(p, d) # Turn(p, i)
            BY <1>7, <3>2, <3>3
          <5> QED
            BY <2>5, <5>1
        <4>2. NamesOf(p[i].vg.pv) = {}
          BY <2>1 DEF NamesOf
        <4>3. ASSUME NEW g \in 1..Len(p[i].vgs)
              PROVE  NamesOf(p[i].vgs[g].pv) = Held(lines, os, mpdevs, p, i, g)
          <5>1. CASE g \in 1..Len(p[h].vgs)
            BY <1>4, <2>6, <3>1, <5>1, Zenon DEF HoldsDisks
          <5>2. CASE g \notin 1..Len(p[h].vgs)
            <6>1. g \in 1..Len(p[h].vgs) + 1
              BY <3>1
            <6>2. g = Len(p[h].vgs) + 1 /\ g = Turn(p, h)
              <7>1. \A n \in Nat : \A m \in 1..n + 1 : m \in 1..n \/ m = n + 1
                OBVIOUS
              <7> QED
                BY ONLY <1>7, <5>2, <6>1, <7>1, Zenon
            <6> QED
              BY <1>4, <2>6, <3>1, <6>2 DEF HoldsDisks
          <5> QED
            BY <5>1, <5>2
        <4> QED
          BY <4>1, <4>2, <4>3 DEF HoldsDisks
      <3>6. NamesGroups(lines, os, p, i)
        <4> SUFFICES ASSUME NEW d \in done, d <= i
                     PROVE  /\ Turn(p, d) <= Len(p[i].vgs)
                            /\ p[i].vgs[Turn(p, d)].name = GroupName(lines, d)
          BY DEF NamesGroups
        <4>1. d <= h /\ d \in 0..h
          BY <1>6, <1>9, <2>2
        <4>2. Turn(p, d) <= Turn(p, h) /\ Turn(p, d) \in Int
          BY <3>3, <4>1
        <4>3. Turn(p, d) >= 1
          <5>1. p[d] \in Parses(S)
            BY <1>1, <4>1
          <5>2. Len(p[d].vgs) \in Nat
            BY <5>1 DEF Parses
          <5> QED
            BY <5>2 DEF Turn
        <4>4. CASE Turn(p, d) <= Len(p[h].vgs)
          <5>1. p[h].vgs[Turn(p, d)].name = GroupName(lines, d)
            BY <1>4, <4>1, <4>4 DEF NamesGroups
          <5>2. Turn(p, d) \in 1..Len(p[h].vgs)
            BY <1>7, <4>2, <4>3, <4>4
          <5> QED
            BY <3>1, <3>2, <4>2, <5>1, <5>2, Zenon
        <4>5. CASE ~(Turn(p, d) <= Len(p[h].vgs))
          <5>1. Turn(p, d) = Len(p[h].vgs) + 1
            BY ONLY <1>7, <4>2, <4>5
          <5>2. GroupName(lines, d) = GroupName(lines, h)
            BY <1>4, <4>1, <4>5 DEF NamesGroups
          <5>3. p[h].vg.name = GroupName(lines, h)
            BY <1>4, <1>9, <4>1 DEF KnowsGroup
          <5> QED
            BY <3>1, <3>2, <4>2, <5>1, <5>2, <5>3
        <4> QED
          BY <4>4, <4>5
      <3> QED
        BY <1>5, <2>3, <2>4, <3>4, <3>5, <3>6 DEF VgInv
    <2> QED
      BY <2>7, <2>8
  <1>12. CASE mark # "VGSTART"
    <2>1. /\ p[i].have_vg = p[h].have_vg /\ p[i].vgs = p[h].vgs
          /\ p[i].vg.name = IF p[i].state = "IN_VG" /\ mark = "VG Name"
                            THEN lines[i].name ELSE p[h].vg.name
          /\ NamesOf(p[i].vg.pv) = IF p[i].state = "IN_PV" /\ Completes(lines[i], os)
                                   THEN NamesOf(p[h].vg.pv) \cup DisksOf(p[h].pv.name, os, mpdevs)
                                   ELSE NamesOf(p[h].vg.pv)
          /\ p[i].state = "IN_PV" /\ mark = "PV Name" => p[i].pv.name = lines[i].name
          /\ ~(p[i].state = "IN_PV" /\ (mark = "PV Name" \/ Completes(lines[i], os)))
               => p[i].pv.name = p[h].pv.name
      BY <1>3, <1>12, Zenon DEF LineStep
    <2>2. /\ p[i].state = "IN_VG" <=> InSection(lines, i, "VGSTART")
          /\ p[i].state = "IN_PV" <=> InSection(lines, i, "PVSTART")
      BY <1>5 DEF KnowsSection
    <2>3. Turn(p, i) = Turn(p, h) /\ Len(p[i].vgs) = Len(p[h].vgs) /\ Turn(p, i) \in Int
      <3>1. \A n \in Nat : n + 1 \in Int
        OBVIOUS
      <3> QED
        BY ONLY <1>7, <2>1, <3>1, Zenon
    <2>4. GroupStarts(lines, i) = GroupStarts(lines, h)
      BY <1>1, <1>12, GroupStartsNext
    <2>5. GroupStarts(lines, i) # {} =>
            GroupName(lines, i) = IF InSection(lines, i, "VGSTART") /\ mark = "VG Name"
                                  THEN lines[i].name ELSE GroupName(lines, h)
      BY <1>1, <1>12, GroupNameNext, Zenon
    <2>6. KnowsGroup(lines, p, i)
      BY <1>4, <2>1, <2>2, <2>4, <2>5, Zenon DEF KnowsGroup
    <2>7. TurnsGrow(p, i)
      <3>1. \A d \in 0..i : d \in 0..h \/ d = i
        BY <1>1
      <3> QED
        BY <1>4, <2>3, <3>1 DEF TurnsGrow
    <2>8. PvNames(lines, i) = IF InSection(lines, i, "PVSTART") /\ mark = "PV Name"
                              THEN PvNames(lines, h) \cup {i} ELSE PvNames(lines, h)
      BY <1>1, PvNamesNext, Zenon
    <2>9. mark = "PV Name" => ~Completes(lines[i], os)
      BY Zenon DEF Completes
    <2>10. ASSUME Now
           PROVE  /\ PvNames(lines, i) = PvNames(lines, h)
                  /\ p[h].pv.name = lines[LastOf(PvNames(lines, i))].name
      <3>1. PvNames(lines, i) = PvNames(lines, h)
        BY <2>8, <2>9, <2>10, Zenon
      <3>2. i \in done /\ PvNames(lines, i) # {}
        BY <1>6, <2>10 DEF Orderly
      <3>3. ASSUME NEW d \in done, d <= h
            PROVE  LastOf(PvNames(lines, d)) # LastOf(PvNames(lines, h))
        <4>1. d # i
          BY <1>1, <1>6, <3>3
        <4> QED
          BY <3>1, <3>2, <4>1 DEF Orderly
      <3> QED
        BY <1>4, <3>1, <3>2, <3>3, Zenon DEF KnowsVolume
    <2>11. KnowsVolume(lines, os, p, i)
      <3> SUFFICES ASSUME PvNames(lines, i) # {},
                          \A d \in done : d <= i => LastOf(PvNames(lines, d)) # LastOf(PvNames(lines, i))
                   PROVE  p[i].pv.name = lines[LastOf(PvNames(lines, i))].name
        BY DEF KnowsVolume
      <3>1. ~Now
        <4>1. i <= i
          BY <1>1
        <4> QED
          BY <1>6, <4>1
      <3>2. CASE InSection(lines, i, "PVSTART") /\ mark = "PV Name"
        <4>1. /\ PvNames(lines, i) \in SUBSET (1..i) /\ i \in PvNames(lines, i)
              /\ \A x \in PvNames(lines, i) : x <= i
          <5>1. PvNames(lines, i) = PvNames(lines, h) \cup {i}
            BY <2>8, <3>2, Zenon
          <5>2. PvNames(lines, i) \in SUBSET (1..i)
            BY Zenon DEF PvNames
          <5>3. \A x \in 1..i : x <= i
            BY <1>1
          <5> QED
            BY <5>1, <5>2, <5>3
        <4>2. LastOf(PvNames(lines, i)) = i
          BY <1>1, <4>1, LastIsIt, Zenon
        <4> QED
          BY <2>1, <2>2, <3>2, <4>2, Zenon
      <3>3. CASE ~(InSection(lines, i, "PVSTART") /\ mark = "PV Name")
        <4>1. PvNames(lines, i) = PvNames(lines, h)
          BY <2>8, <3>3, Zenon
        <4>2. p[i].pv.name = p[h].pv.name
          BY <2>1, <2>2, <3>1, <3>3, Zenon
        <4>3. \A d \in done : d <= h => LastOf(PvNames(lines, d)) # LastOf(PvNames(lines, h))
          BY <1>6, <4>1
        <4> QED
          BY <1>4, <4>1, <4>2, <4>3 DEF KnowsVolume
      <3> QED
        BY <3>2, <3>3, Zenon
    <2>12. ASSUME NEW g, ~(i \in done /\ Turn(p, i) = g)
           PROVE  Held(lines, os, mpdevs, p, i, g) = Held(lines, os, mpdevs, p, h, g)
      <3>1. {d \in done : d <= i /\ Turn(p, d) = g} = {d \in done : d <= h /\ Turn(p, d) = g}
        BY <1>6, <2>12
      <3> QED
        BY <3>1 DEF Held
    <2>13. ASSUME i \in done
           PROVE  Held(lines, os, mpdevs, p, i, Turn(p, i))
                  = Held(lines, os, mpdevs, p, h, Turn(p, i)) \cup DisksAt(lines, i, os, mpdevs)
      <3>1. i <= i
        BY <1>1
      <3>2. {d \in done : d <= i /\ Turn(p, d) = Turn(p, i)}
            = {d \in done : d <= h /\ Turn(p, d) = Turn(p, i)} \cup {i}
        BY <1>6, <2>13, <3>1, Zenon
      <3> HIDE DEF done, h
      <3> QED
        BY <3>2 DEF Held, done
    <2>14. HoldsDisks(lines, os, mpdevs, p, i)
      <3>1. ASSUME NEW g \in 1..Len(p[i].vgs)
            PROVE  NamesOf(p[i].vgs[g].pv) = Held(lines, os, mpdevs, p, i, g)
        <4>1. Turn(p, i) # g
          BY <1>7, <2>3, <3>1
        <4>2. Held(lines, os, mpdevs, p, i, g) = Held(lines, os, mpdevs, p, h, g)
          BY <2>12, <4>1
        <4> QED
          BY <1>4, <2>1, <2>3, <4>2, Zenon DEF HoldsDisks
      <3>2. NamesOf(p[i].vg.pv) = Held(lines, os, mpdevs, p, i, Turn(p, i))
        <4>1. NamesOf(p[h].vg.pv) = Held(lines, os, mpdevs, p, h, Turn(p, i))
          BY <1>4, <2>3 DEF HoldsDisks
        <4>2. CASE Now
          <5>1. NamesOf(p[i].vg.pv) = NamesOf(p[h].vg.pv) \cup DisksOf(p[h].pv.name, os, mpdevs)
            BY <2>1, <2>2, <4>2, Zenon
          <5>2. DisksOf(p[h].pv.name, os, mpdevs) = DisksAt(lines, i, os, mpdevs)
            BY <2>10, <4>2 DEF DisksAt
          <5> QED
            BY <1>6, <2>13, <4>1, <4>2, <5>1, <5>2
        <4>3. CASE ~Now
          <5>1. NamesOf(p[i].vg.pv) = NamesOf(p[h].vg.pv)
            BY <2>1, <2>2, <4>3, Zenon
          <5> QED
            BY <1>6, <2>12, <4>1, <4>3, <5>1
        <4> QED
          BY <4>2, <4>3
      <3> QED
        BY <3>1, <3>2 DEF HoldsDisks
    <2>15. NamesGroups(lines, os, p, i)
      <3> SUFFICES ASSUME NEW d \in done, d <= i
                   PROVE  IF Turn(p, d) <= Len(p[i].vgs)
                          THEN p[i].vgs[Turn(p, d)].name = GroupName(lines, d)
                          ELSE /\ GroupName(lines, d) = GroupName(lines, i)
                               /\ ~InSection(lines, i, "VGSTART")
        BY DEF NamesGroups
      <3>1. CASE d = i
        <4>1. ~(Turn(p, d) <= Len(p[i].vgs))
          BY <1>7, <2>3, <3>1
        <4>2. ~InSection(lines, i, "VGSTART")
          <5>1. InSection(lines, i, "PVSTART")
            BY <1>6, <3>1
          <5> QED
            BY <1>1, <5>1, SectionIsOne, Zenon
        <4> QED
          BY <3>1, <4>1, <4>2
      <3>2. CASE d <= h
        <4>1. d \in 0..h /\ GroupStarts(lines, i) # {}
          BY <1>9, <2>4, <3>2
        <4>2. CASE Turn(p, d) <= Len(p[h].vgs)
          <5>1. p[h].vgs[Turn(p, d)].name = GroupName(lines, d)
            BY <1>4, <3>2, <4>2 DEF NamesGroups
          <5> QED
            BY <2>1, <2>3, <4>2, <5>1, Zenon
        <4>3. CASE ~(Turn(p, d) <= Len(p[h].vgs))
          <5>1. GroupName(lines, d) = GroupName(lines, h) /\ ~InSection(lines, h, "VGSTART")
            BY <1>4, <3>2, <4>3 DEF NamesGroups
          <5>2. ~InSection(lines, i, "VGSTART")
            BY <1>10, <1>12, <5>1
          <5> QED
            BY <2>3, <2>5, <4>1, <4>3, <5>1, <5>2
        <4> QED
          BY <4>2, <4>3
      <3> QED
        BY <1>6, <3>1, <3>2
    <2> QED
      BY <1>5, <2>6, <2>7, <2>11, <2>14, <2>15 DEF VgInv
  <1> QED
    BY <1>11, <1>12

-----------------------------------------------------------------------------
(* What the list of disks shows.                                             *)

LEMMA OrderlyIfOnce ==
  ASSUME NEW S, NEW lines \in Seq(Outputs(S)), NEW os,
         \A i \in Completions(lines, os) :
           /\ PvNames(lines, i) # {}
           /\ Cardinality({d \in Completions(lines, os) :
                             LastOf(PvNames(lines, d)) = LastOf(PvNames(lines, i))}) <= 1
  PROVE  Orderly(lines, os)
  <1> DEFINE done == Completions(lines, os)
  <1>1. IsFiniteSet(done)
    <2>1. done \in SUBSET (1..Len(lines)) /\ Len(lines) \in Nat
      BY DEF Completions
    <2>2. IsFiniteSet(1..Len(lines))
      BY <2>1, FS_Interval
    <2> HIDE DEF done
    <2> QED
      BY <2>1, <2>2, FS_Subset, Zenon
  <1>2. ASSUME NEW d \in done, NEW e \in done,
               LastOf(PvNames(lines, e)) = LastOf(PvNames(lines, d))
        PROVE  e = d
    <2> DEFINE same == {x \in done : LastOf(PvNames(lines, x)) = LastOf(PvNames(lines, d))}
    <2>1. IsFiniteSet(same) /\ Cardinality(same) <= 1
      <3>1. same \subseteq done
        OBVIOUS
      <3>2. IsFiniteSet(same)
        <4> HIDE DEF done, same
        <4> QED
          BY <1>1, <3>1, FS_Subset
      <3> QED
        BY <3>2
    <2>2. d \in same /\ e \in same
      BY <1>2
    <2>3. {d, e} \subseteq same
      BY <2>2
    <2> HIDE DEF same
    <2>4. Cardinality({d, e}) <= 1
      <3>1. Cardinality({d, e}) <= Cardinality(same) /\ IsFiniteSet({d, e})
        BY <2>1, <2>3, FS_Subset
      <3>2. Cardinality({d, e}) \in Nat /\ Cardinality(same) \in Nat
        BY <2>1, <3>1, FS_CardinalityType
      <3> QED
        BY <2>1, <3>1, <3>2
    <2>5. CASE d # e
      <3>1. IsFiniteSet({d}) /\ Cardinality({d}) = 1
        BY FS_Singleton, Zenon
      <3>2. e \notin {d}
        BY <2>5
      <3>3. Cardinality({d} \cup {e}) = Cardinality({d}) + 1
        BY ONLY <3>1, <3>2, FS_AddElement, Zenon
      <3>4. {d} \cup {e} = {d, e}
        OBVIOUS
      <3>5. Cardinality({d, e}) = 1 + 1
        BY ONLY Zenon, <3>1, <3>3, <3>4
      <3> QED
        BY ONLY <2>4, <3>5
    <2> QED
      BY <2>5
  <1> QED
    BY <1>2, Zenon DEF Orderly

(* get_vgnames (vg.c): every path of a volume shows its group, whatever      *)
(* vgdisplay prints and whatever the maps and the list of disks are.         *)
THEOREM PathsAreNamed ==
  ASSUME NEW S, Pieces(S), NEW lines \in Seq(Outputs(S)), NEW mpdevs \in Seq(MapType(S)),
         NEW os \in {"linux", "hpux"}, NEW rows
  PROVE  PathsShowVolumes(lines, os, mpdevs, rows)
  <1> DEFINE done == Completions(lines, os)
             vgs == GetVginfo(lines, os, mpdevs)
             n == Len(lines)
             of(dev) == {i \in done : dev \in DisksAt(lines, i, os, mpdevs)}
             having(dev) == {g \in DOMAIN vgs : \E k \in DOMAIN vgs[g].pv : vgs[g].pv[k].name = dev}
  <1> SUFFICES ASSUME \A i \in done :
                        /\ PvNames(lines, i) # {}
                        /\ Cardinality({d \in done : LastOf(PvNames(lines, d))
                                                    = LastOf(PvNames(lines, i))}) <= 1,
                      NEW r \in DOMAIN rows
               PROVE  GetVgnames(rows, vgs)[r] =
                        IF of(rows[r].dev) = {} THEN rows[r]
                        ELSE [rows[r] EXCEPT !.vol = GroupName(lines, FirstOf(of(rows[r].dev)))]
    BY Zenon DEF PathsShowVolumes
  <1> DEFINE dev == rows[r].dev
  <1>1. Orderly(lines, os)
    BY OrderlyIfOnce, Zenon
  <1>2. PICK p : /\ VgRun(lines, os, mpdevs, p)
                 /\ \A k \in 0..n : p[k] \in Parses(S)
                 /\ vgs = Finish(p[n])
    BY VgHasRun
  <1>3. n \in Nat
    OBVIOUS
  <1>4. \A i \in 0..n : VgInv(lines, os, mpdevs, p, i)
    <2> DEFINE Good == {i \in Nat : i <= n => VgInv(lines, os, mpdevs, p, i)}
    <2>1. 0 \in Good
      BY <1>2, VgInvBegins DEF VgRun
    <2>2. ASSUME NEW i \in Nat, i \in Good PROVE i + 1 \in Good
      <3> SUFFICES ASSUME i + 1 <= n PROVE VgInv(lines, os, mpdevs, p, i + 1)
        OBVIOUS
      <3>1. i + 1 \in 1..n /\ (i + 1) - 1 = i /\ VgInv(lines, os, mpdevs, p, i)
        BY <1>3, <2>2
      <3>2. VgInv(lines, os, mpdevs, p, (i + 1) - 1)
        BY <3>1
      <3> QED
        BY <1>1, <1>2, <3>1, <3>2, VgInvNext, Zenon
    <2> HIDE DEF Good
    <2>3. Nat \subseteq Good
      BY <2>1, <2>2, SetInduction
    <2> QED
      BY <1>3, <2>3 DEF Good
  <1>5. p[n] \in Parses(S)
    BY <1>2, <1>3
  <1>6. \A d \in done : d \in 1..n /\ d <= n
    BY <1>3 DEF Completions
  <1>7. /\ KnowsSection(lines, p, n) /\ KnowsGroup(lines, p, n)
        /\ HoldsDisks(lines, os, mpdevs, p, n) /\ NamesGroups(lines, os, p, n)
        /\ n \in 0..n
    BY <1>3, <1>4 DEF VgInv
  <1>8. ASSUME NEW d \in done PROVE GroupStarts(lines, n) # {} /\ p[n].have_vg
    <2>1. GroupStarts(lines, d) # {}
      BY <1>6, SectionIsOne DEF Completions
    <2>2. GroupStarts(lines, d) \subseteq GroupStarts(lines, n)
      BY <1>3, <1>6 DEF GroupStarts
    <2> QED
      BY <1>7, <2>1, <2>2 DEF KnowsSection
  <1>9. \A d \in done, e \in done : d <= e => Turn(p, d) <= Turn(p, e)
    <2> SUFFICES ASSUME NEW d \in done, NEW e \in done, d <= e PROVE Turn(p, d) <= Turn(p, e)
      OBVIOUS
    <2>1. e \in 0..n /\ d \in 0..e
      BY <1>6
    <2> QED
      BY <1>4, <2>1 DEF VgInv, TurnsGrow
  <1>10. \A d \in done : Turn(p, d) \in 1..Turn(p, n)
    <2> SUFFICES ASSUME NEW d \in done PROVE Turn(p, d) \in 1..Turn(p, n)
      OBVIOUS
    <2>1. d \in 0..n
      BY <1>6
    <2>2. Turn(p, d) <= Turn(p, n)
      BY <1>4, <1>7, <2>1 DEF VgInv, TurnsGrow
    <2>3. p[d].vgs \in Seq(VgType(S)) /\ p[n].vgs \in Seq(VgType(S))
      BY <1>2, <1>7, <2>1 DEF Parses
    <2>4. Turn(p, d) \in Nat \ {0} /\ Turn(p, n) \in Nat
      BY <2>3 DEF Turn
    <2> QED
      BY <2>2, <2>4
  <1>11. \A g : Held(lines, os, mpdevs, p, n, g)
                = UNION {DisksAt(lines, d, os, mpdevs) : d \in {d \in done : Turn(p, d) = g}}
    BY <1>6 DEF Held
  <1> DEFINE o == of(dev)
             Shown == IF having(dev) = {} THEN rows[r]
                      ELSE [rows[r] EXCEPT !.vol = vgs[FirstOf(having(dev))].name]
  <1>12. GetVgnames(rows, vgs)[r] = Shown
    BY DEF GetVgnames
  <1>13. having(dev) = {g \in DOMAIN vgs : dev \in NamesOf(vgs[g].pv)}
    BY DEF NamesOf
  <1>14. o \in SUBSET done
    OBVIOUS
  <1>15. CASE ~p[n].have_vg
    <2>1. done = {} /\ vgs = p[n].vgs
      BY <1>2, <1>5, <1>8, <1>15, FinishIs
    <2>2. \A g \in DOMAIN vgs : NamesOf(vgs[g].pv) = {}
      <3>1. DOMAIN vgs = 1..Len(p[n].vgs)
        BY <1>5, <2>1 DEF Parses
      <3> HIDE DEF done, vgs
      <3> QED
        BY <1>7, <1>11, <2>1, <3>1 DEF HoldsDisks
    <2>3. having(dev) = {}
      <3> HIDE DEF vgs, having, dev
      <3> QED
        BY <1>13, <2>2, Zenon
    <2>4. of(dev) = {}
      BY <2>1
    <2> HIDE DEF vgs, having, of
    <2> QED
      BY <1>12, <2>3, <2>4
  <1>16. CASE p[n].have_vg
    <2> DEFINE t == Turn(p, n)
    <2>1. /\ DOMAIN vgs = 1..t /\ t = Len(p[n].vgs) + 1 /\ t \in Nat
          /\ \A g \in 1..Len(p[n].vgs) : vgs[g] = p[n].vgs[g]
          /\ vgs[t].name = p[n].vg.name /\ vgs[t].pv = p[n].vg.pv
      <3>1. /\ vgs \in Seq(VgType(S)) /\ Len(vgs) = Len(p[n].vgs) + 1
            /\ \A g \in 1..Len(p[n].vgs) : vgs[g] = p[n].vgs[g]
            /\ vgs[Len(p[n].vgs) + 1].name = p[n].vg.name
            /\ vgs[Len(p[n].vgs) + 1].pv = p[n].vg.pv
        <4> HIDE DEF vgs
        <4> QED
          BY <1>2, <1>5, <1>16, FinishIs, Zenon
      <3>2. Len(p[n].vgs) \in Nat
        BY <1>5 DEF Parses
      <3> HIDE DEF vgs
      <3> QED
        BY <3>1, <3>2 DEF Turn
    <2> HIDE DEF vgs
    <2>2. \A g \in 1..t : dev \in NamesOf(vgs[g].pv) <=> \E d \in o : Turn(p, d) = g
      <3> SUFFICES ASSUME NEW g \in 1..t
                   PROVE  dev \in NamesOf(vgs[g].pv) <=> \E d \in o : Turn(p, d) = g
        OBVIOUS
      <3>1. g \in 1..Len(p[n].vgs) \/ g = t
        BY <2>1
      <3>2. NamesOf(vgs[g].pv) = Held(lines, os, mpdevs, p, n, g)
        <4>1. ASSUME g = t PROVE NamesOf(vgs[g].pv) = Held(lines, os, mpdevs, p, n, g)
          <5>1. NamesOf(p[n].vg.pv) = Held(lines, os, mpdevs, p, n, t)
            BY <1>7 DEF HoldsDisks
          <5> QED
            BY ONLY <2>1, <4>1, <5>1
        <4>2. ASSUME g \in 1..Len(p[n].vgs)
              PROVE  NamesOf(vgs[g].pv) = Held(lines, os, mpdevs, p, n, g)
          BY <1>7, <2>1, <4>2, Zenon DEF HoldsDisks
        <4> QED
          BY <3>1, <4>1, <4>2
      <3> QED
        BY <1>11, <3>2
    <2>3. having(dev) = {g \in 1..t : \E d \in o : Turn(p, d) = g}
      <3> HIDE DEF having, o, t, dev
      <3> QED
        BY <1>13, <2>1, <2>2
    <2> HIDE DEF having
    <2>4. CASE o = {}
      <3>1. having(dev) = {}
        BY <2>3, <2>4
      <3> QED
        BY <1>12, <2>4, <3>1
    <2>5. CASE o # {}
      <3> DEFINE f == FirstOf(o)
      <3>1. f \in o /\ \A d \in o : f <= d
        <4>1. o \in SUBSET Nat
          BY <1>6
        <4> HIDE DEF o
        <4> QED
          BY <2>5, <4>1, FirstIs
      <3> HIDE DEF f
      <3>2. f \in done
        BY <1>14, <3>1
      <3>3. Turn(p, f) \in having(dev)
        <4> HIDE DEF o, dev
        <4> QED
          BY <1>10, <2>3, <3>1, <3>2
      <3>4. \A g \in having(dev) : Turn(p, f) <= g
        <4> SUFFICES ASSUME NEW g \in having(dev) PROVE Turn(p, f) <= g
          OBVIOUS
        <4>1. PICK d \in o : Turn(p, d) = g
          BY <2>3
        <4>2. d \in done /\ f <= d
          BY <1>14, <3>1
        <4> QED
          BY <1>9, <3>2, <4>1, <4>2
      <3>5. FirstOf(having(dev)) = Turn(p, f)
        <4>1. having(dev) \in SUBSET Nat
          BY <2>3
        <4> QED
          BY <3>3, <3>4, <4>1, FirstIsIt
      <3>6. vgs[Turn(p, f)].name = GroupName(lines, f)
        <4>1. f <= n
          BY <1>6, <3>2
        <4>2. IF Turn(p, f) <= Len(p[n].vgs)
              THEN p[n].vgs[Turn(p, f)].name = GroupName(lines, f)
              ELSE GroupName(lines, f) = GroupName(lines, n)
          BY <1>7, <3>2, <4>1 DEF NamesGroups
        <4>3. Turn(p, f) \in 1..t
          BY <1>10, <3>2
        <4>4. ASSUME Turn(p, f) <= Len(p[n].vgs) PROVE vgs[Turn(p, f)].name = GroupName(lines, f)
          <5>1. Turn(p, f) \in 1..Len(p[n].vgs)
            BY <2>1, <4>3, <4>4
          <5> QED
            BY <2>1, <4>2, <4>4, <5>1
        <4>5. ASSUME ~(Turn(p, f) <= Len(p[n].vgs))
              PROVE  vgs[Turn(p, f)].name = GroupName(lines, f)
          <5>1. Turn(p, f) = t
            BY <2>1, <4>3, <4>5
          <5>2. p[n].vg.name = GroupName(lines, n)
            BY <1>7, <1>8, <3>2 DEF KnowsGroup
          <5> QED
            BY <2>1, <4>2, <4>5, <5>1, <5>2
        <4> QED
          BY <4>4, <4>5
      <3>7. having(dev) # {}
        BY <3>3
      <3> HIDE DEF o
      <3>8. Shown = [rows[r] EXCEPT !.vol = GroupName(lines, f)]
        BY <3>5, <3>6, <3>7
      <3> QED
        BY <1>12, <2>5, <3>8 DEF o, f
    <2> QED
      BY <2>4, <2>5
  <1> QED
    BY <1>15, <1>16

-----------------------------------------------------------------------------
(* FlattenSeq puts sequences behind each other.                              *)

Flattening(ss, n, F) == F = [i \in 1..n |-> IF i = 1 THEN ss[i] ELSE F[i - 1] \o ss[i]]

LEMMA FlatteningExists ==
  ASSUME NEW ss, NEW m \in Nat
  PROVE  \E F : Flattening(ss, m, F)
  <1> DEFINE Good == {n \in Nat : \E F : Flattening(ss, n, F)}
  <1>1. 0 \in Good
    <2>1. Flattening(ss, 0, [i \in 1..0 |-> <<>>])
      BY DEF Flattening
    <2> QED
      BY <2>1
  <1>2. ASSUME NEW n \in Nat, n \in Good PROVE n + 1 \in Good
    <2>1. PICK F : Flattening(ss, n, F)
      BY <1>2
    <2> DEFINE At(f, i) == IF i = 1 THEN ss[i] ELSE f[i - 1] \o ss[i]
               G == [i \in 1 .. n + 1 |-> At(F, i)]
    <2>2. F = [i \in 1..n |-> At(F, i)]
      BY <2>1, Zenon DEF Flattening
    <2> HIDE DEF At
    <2>3. \A i \in 1..n : G[i] = F[i]
      BY <2>2
    <2> HIDE DEF G
    <2>4. \A i \in 1 .. n + 1 : At(F, i) = At(G, i)
      <3>1. \A i \in 1 .. n + 1 : i # 1 => i - 1 \in 1..n /\ F[i - 1] = G[i - 1]
        BY <2>3
      <3> QED
        BY <3>1 DEF At
    <2>5. G = [i \in 1 .. n + 1 |-> At(G, i)]
      BY <2>4 DEF G
    <2>6. Flattening(ss, n + 1, G)
      BY ONLY <2>5, Zenon DEF Flattening, At
    <2> QED
      BY ONLY <2>6, n \in Nat, n + 1 \in Nat DEF Good
  <1> HIDE DEF Good
  <1>3. m \in Good
    BY <1>1, <1>2, SetInduction
  <1> QED
    BY <1>3 DEF Good

(* F holds what has been put together after each of them.                    *)
Flattened(ss, F) ==
  /\ F[1] = ss[1]
  /\ \A i \in 2..Len(ss) : F[i] = F[i - 1] \o ss[i]

LEMMA FlattenIs ==
  ASSUME NEW T, NEW ss \in Seq(T)
  PROVE  /\ ss = <<>> => FlattenSeq(ss) = <<>>
         /\ ss # <<>> => \E F : Flattened(ss, F) /\ FlattenSeq(ss) = F[Len(ss)]
  <1>1. ASSUME ss = <<>> PROVE FlattenSeq(ss) = <<>>
    BY <1>1 DEF FlattenSeq
  <1>2. ASSUME ss # <<>> PROVE \E F : Flattened(ss, F) /\ FlattenSeq(ss) = F[Len(ss)]
    <2> DEFINE F == CHOOSE f : Flattening(ss, Len(ss), f)
    <2>1. Len(ss) \in Nat /\ Len(ss) # 0
      BY <1>2
    <2>2. FlattenSeq(ss) = F[Len(ss)]
      BY <2>1 DEF FlattenSeq, Flattening
    <2>3. Flattening(ss, Len(ss), F)
      <3>1. \E f : Flattening(ss, Len(ss), f)
        BY <2>1, FlatteningExists, Zenon
      <3> QED
        BY <3>1
    <2> HIDE DEF F
    <2>4. \A i \in 1..Len(ss) : F[i] = IF i = 1 THEN ss[i] ELSE F[i - 1] \o ss[i]
      BY Zenon, <2>3 DEF Flattening
    <2>5. 1 \in 1..Len(ss) /\ \A i \in 2..Len(ss) : i \in 1..Len(ss) /\ i # 1
      BY <2>1
    <2>6. Flattened(ss, F)
      BY <2>4, <2>5, Zenon DEF Flattened
    <2> QED
      BY <2>2, <2>6
  <1> QED
    BY <1>1, <1>2

LEMMA FlattenTyped ==
  ASSUME NEW T, NEW ss \in Seq(Seq(T))
  PROVE  FlattenSeq(ss) \in Seq(T)
  <1>1. CASE ss = <<>>
    <2>1. FlattenSeq(ss) = <<>>
      BY <1>1, FlattenIs, Zenon
    <2> QED
      BY <2>1
  <1>2. CASE ss # <<>>
    <2>1. PICK F : Flattened(ss, F) /\ FlattenSeq(ss) = F[Len(ss)]
      BY <1>2, FlattenIs
    <2>2. Len(ss) \in Nat /\ Len(ss) # 0 /\ \A i \in 1..Len(ss) : ss[i] \in Seq(T)
      BY <1>2
    <2> DEFINE Good == {i \in Nat : i + 1 <= Len(ss) => F[i + 1] \in Seq(T)}
    <2>3. 0 \in Good
      BY <2>1, <2>2 DEF Flattened
    <2>4. ASSUME NEW i \in Nat, i \in Good PROVE i + 1 \in Good
      <3> SUFFICES ASSUME (i + 1) + 1 <= Len(ss) PROVE F[(i + 1) + 1] \in Seq(T)
        OBVIOUS
      <3>1. /\ (i + 1) + 1 \in 2..Len(ss) /\ ((i + 1) + 1) - 1 = i + 1 /\ i + 1 <= Len(ss)
            /\ (i + 1) + 1 \in 1..Len(ss)
        BY <2>2
      <3>2. F[i + 1] \in Seq(T) /\ ss[(i + 1) + 1] \in Seq(T)
        BY <2>2, <2>4, <3>1
      <3>3. F[(i + 1) + 1] = F[i + 1] \o ss[(i + 1) + 1]
        BY <2>1, <3>1, Zenon DEF Flattened
      <3> QED
        BY <3>2, <3>3
    <2> HIDE DEF Good
    <2>5. Nat \subseteq Good
      BY <2>3, <2>4, SetInduction, Zenon
    <2>6. Len(ss) - 1 \in Nat /\ (Len(ss) - 1) + 1 = Len(ss)
      BY <2>2
    <2> QED
      BY <2>1, <2>5, <2>6 DEF Good
  <1> QED
    BY <1>1, <1>2

-----------------------------------------------------------------------------
(* The lines and names that the inputs are spelled in.                       *)

Piece == {"none", "?", "", "MB", "VGSTART", "LVSTART", "PVSTART", "VG Name", "PE Size", "Total PE",
          "LV Name", "LV Size", "PV Name", "Free PE", "vga", "vgb", "vgx", "lv", "/dev/mapper/",
          "mpath", "a", "/dev/", "sd", "c", "1", "dm-", "0", "b"}

LEMMA LvmTyped ==
  ASSUME NEW mark \in Piece, NEW name \in Piece \cup Seq(Piece), NEW n \in Nat, NEW m \in Nat,
         mark = "PV Name" => name \in Seq(Piece)
  PROVE  Lvm(mark, name, n, m) \in Outputs(Piece)
  <1>1. "MB" \in Piece
    BY Zenon DEF Piece
  <1> QED
    BY <1>1, Zenon DEF Lvm, Outputs

LEMMA TuplesTyped ==
  ASSUME NEW T, NEW a \in T, NEW b \in T, NEW c \in T, NEW d \in T
  PROVE  <<a, b>> \in Seq(T) /\ <<a, b, c>> \in Seq(T) /\ <<a, b, c, d>> \in Seq(T)
  OBVIOUS

LEMMA SpelledInLines ==
  ASSUME input \in Seq(Symbol)
  PROVE  Spell(VgLines) \in Seq(Seq(Outputs(Piece)))
  <1>1. Mpath \in Seq(Piece) /\ <<"/dev/", "sd", "c", "1">> \in Seq(Piece)
    BY DEF Mpath, Piece
  <1> DEFINE L(mark, name, n, m) == Lvm(mark, name, n, m) \in Outputs(Piece)
  <1>2. /\ L("VGSTART", "", 0, 0) /\ L("VG Name", "vga", 0, 0) /\ L("PE Size", "", 4, 0)
    BY LvmTyped, Zenon DEF Piece
  <1>3. /\ L("VG Name", "vgb", 0, 0) /\ L("Total PE", "", 9, 0)
    BY LvmTyped, Zenon DEF Piece
  <1>4. /\ L("LVSTART", "", 0, 0) /\ L("LV Name", "lv", 0, 0) /\ L("VG Name", "vgx", 0, 0)
        /\ L("LV Size", "", 8, 0)
    BY LvmTyped, Zenon DEF Piece
  <1>5. /\ L("PVSTART", "", 0, 0) /\ L("PV Name", Mpath, 0, 0)
    BY <1>1, LvmTyped, Zenon DEF Piece
  <1>6. /\ L("Total PE", "", 5, 3) /\ L("Free PE", "", 3, 0)
    BY LvmTyped, Zenon DEF Piece
  <1>7. L("PV Name", <<"/dev/", "sd", "c", "1">>, 0, 0)
    BY <1>1, LvmTyped, Zenon DEF Piece
  <1> HIDE DEF L
  <1>8. \A c \in Symbol : VgLines[c] \in Seq(Outputs(Piece))
    <2> DEFINE Q == Seq(Outputs(Piece))
    <2>1. VgLines[1] \in Q
      <3>1. VgLines[1] = <<Lvm("VGSTART", "", 0, 0), Lvm("VG Name", "vga", 0, 0),
                            Lvm("PE Size", "", 4, 0)>>
        BY Zenon DEF VgLines
      <3> QED
        BY <3>1, <1>2, TuplesTyped, Zenon DEF L
    <2>2. VgLines[2] \in Q
      <3>1. VgLines[2] = <<Lvm("VGSTART", "", 0, 0), Lvm("VG Name", "vgb", 0, 0),
                            Lvm("Total PE", "", 9, 0)>>
        BY Zenon DEF VgLines
      <3> QED
        BY <3>1, <1>2, <1>3, TuplesTyped, Zenon DEF L
    <2>3. VgLines[3] \in Q
      <3>1. VgLines[3] = <<Lvm("LVSTART", "", 0, 0), Lvm("LV Name", "lv", 0, 0), Lvm("VG Name", "vgx", 0, 0),
                            Lvm("LV Size", "", 8, 0)>>
        BY Zenon DEF VgLines
      <3> QED
        BY <3>1, <1>4, TuplesTyped, Zenon DEF L
    <2>4. VgLines[4] \in Q
      <3>1. VgLines[4] = <<Lvm("PVSTART", "", 0, 0), Lvm("PV Name", Mpath, 0, 0)>>
        BY Zenon DEF VgLines
      <3> QED
        BY <3>1, <1>5, TuplesTyped, Zenon DEF L
    <2>5. VgLines[5] \in Q
      <3>1. VgLines[5] = <<Lvm("Total PE", "", 5, 3), Lvm("Free PE", "", 3, 0)>>
        BY Zenon DEF VgLines
      <3> QED
        BY <3>1, <1>6, TuplesTyped, Zenon DEF L
    <2>6. VgLines[6] \in Q
      <3>1. VgLines[6] = <<Lvm("PVSTART", "", 0, 0), Lvm("PV Name", <<"/dev/", "sd", "c", "1">>, 0, 0),
                            Lvm("Total PE", "", 5, 3)>>
        BY Zenon DEF VgLines
      <3> QED
        BY <3>1, <1>5, <1>6, <1>7, TuplesTyped, Zenon DEF L
    <2> QED
      BY <2>1, <2>2, <2>3, <2>4, <2>5, <2>6, SymbolIs, Zenon
  <1> QED
    BY <1>8, SpelledIn

(* vg.c: whatever vgdisplay prints, both paths of the map, the disk of the   *)
(* partition and every other row of the list show the group they are in.     *)
THEOREM PathsKeepTheirVolumes == Spec => []VolumesReachEveryPath
  <1>1. Pieces(Piece)
    BY DEF Pieces, Piece, NoVol
  <1>2. Maps \in Seq(MapType(Piece))
    <2>1. /\ <<"/dev/", "dm-", "0">> \in Seq(Piece) /\ Mpath \in Seq(Piece)
          /\ <<"/dev/", "sd", "a">> \in Seq(Piece) /\ <<"/dev/", "sd", "b">> \in Seq(Piece)
      BY DEF Mpath, Piece
    <2> QED
      BY <2>1 DEF Maps, MapType
  <1>3. input \in Seq(Symbol) => VolumesReachEveryPath
    <2> SUFFICES ASSUME input \in Seq(Symbol), NEW os \in {"linux", "hpux"}
                 PROVE  PathsShowVolumes(FlattenSeq(Spell(VgLines)), os, Maps, Rows)
      BY DEF VolumesReachEveryPath
    <2>1. FlattenSeq(Spell(VgLines)) \in Seq(Outputs(Piece))
      BY SpelledInLines, FlattenTyped
    <2> QED
      BY <1>1, <1>2, <2>1, PathsAreNamed
  <1> QED
    BY <1>3, InputIsTyped, PTL

-----------------------------------------------------------------------------
(* FlattenSeq of sequences that are put together.                            *)

LEMMA FlattenIsOne ==
  ASSUME NEW ss, NEW tt, NEW F, NEW G, Len(ss) \in Nat, Len(tt) \in Nat,
         Flattened(ss, F), Flattened(tt, G),
         NEW n \in Nat \ {0}, n <= Len(ss), n <= Len(tt), \A i \in 1..n : tt[i] = ss[i]
  PROVE  F[n] = G[n]
  <1> DEFINE Good == {i \in Nat : i + 1 <= n => F[i + 1] = G[i + 1]}
  <1>1. Len(ss) \in Nat /\ Len(tt) \in Nat
    OBVIOUS
  <1>2. 0 \in Good
    <2>1. 1 \in 1..n
      OBVIOUS
    <2> QED
      BY <2>1 DEF Flattened
  <1>3. ASSUME NEW i \in Nat, i \in Good PROVE i + 1 \in Good
    <2> SUFFICES ASSUME (i + 1) + 1 <= n PROVE F[(i + 1) + 1] = G[(i + 1) + 1]
      OBVIOUS
    <2>1. /\ (i + 1) + 1 \in 2..Len(ss) /\ (i + 1) + 1 \in 2..Len(tt) /\ (i + 1) + 1 \in 1..n
          /\ ((i + 1) + 1) - 1 = i + 1 /\ i + 1 <= n
      BY <1>1
    <2>2. F[i + 1] = G[i + 1]
      BY <1>3, <2>1
    <2>3. /\ F[(i + 1) + 1] = F[i + 1] \o ss[(i + 1) + 1]
          /\ G[(i + 1) + 1] = G[i + 1] \o tt[(i + 1) + 1]
      BY <2>1, Zenon DEF Flattened
    <2> QED
      BY <2>1, <2>2, <2>3, Zenon
  <1> HIDE DEF Good
  <1>4. Nat \subseteq Good
    BY <1>2, <1>3, SetInduction, Zenon
  <1>5. n - 1 \in Nat /\ (n - 1) + 1 = n /\ n <= n
    OBVIOUS
  <1> QED
    BY <1>4, <1>5, Zenon DEF Good

LEMMA FlattenEmpty == FlattenSeq(<<>>) = <<>>
  BY DEF FlattenSeq

LEMMA FlattenOne ==
  ASSUME NEW T, NEW s \in Seq(T)
  PROVE  FlattenSeq(<<s>>) = s
  <1>1. <<s>> \in Seq(Seq(T)) /\ <<s>> # <<>> /\ Len(<<s>>) = 1 /\ <<s>>[1] = s
    OBVIOUS
  <1>2. PICK F : Flattened(<<s>>, F) /\ FlattenSeq(<<s>>) = F[Len(<<s>>)]
    BY <1>1, FlattenIs, Zenon
  <1> QED
    BY <1>1, <1>2 DEF Flattened

LEMMA FlattenAppend ==
  ASSUME NEW T, NEW ss \in Seq(Seq(T)), NEW s \in Seq(T)
  PROVE  FlattenSeq(Append(ss, s)) = FlattenSeq(ss) \o s
  <1> DEFINE tt == Append(ss, s)
             n == Len(ss)
  <1>1. /\ tt \in Seq(Seq(T)) /\ tt # <<>> /\ Len(tt) = n + 1 /\ tt[n + 1] = s /\ n \in Nat
        /\ \A i \in 1..n : tt[i] = ss[i]
    <2>1. n \in Nat /\ tt \in Seq(Seq(T)) /\ Len(tt) = n + 1
      OBVIOUS
    <2>2. tt[n + 1] = s
      OBVIOUS
    <2>3. \A i \in 1..n : tt[i] = ss[i]
      OBVIOUS
    <2> HIDE DEF tt
    <2> QED
      BY <2>1, <2>2, <2>3
  <1> HIDE DEF tt
  <1>2. PICK G : Flattened(tt, G) /\ FlattenSeq(tt) = G[Len(tt)]
    BY <1>1, FlattenIs, Zenon
  <1>3. CASE ss = <<>>
    <2>1. FlattenSeq(tt) = s
      BY <1>1, <1>2, <1>3 DEF Flattened
    <2>2. FlattenSeq(ss) = <<>>
      BY <1>3, FlattenEmpty
    <2>3. <<>> \o s = s
      OBVIOUS
    <2> QED
      BY <2>1, <2>2, <2>3 DEF tt
  <1>4. CASE ss # <<>>
    <2>1. PICK F : Flattened(ss, F) /\ FlattenSeq(ss) = F[Len(ss)]
      BY <1>4, FlattenIs
    <2>2. n # 0 /\ n <= Len(ss) /\ n <= Len(tt)
      BY <1>1, <1>4
    <2>3. F[n] = G[n]
      <3> HIDE DEF n
      <3>1. Len(ss) \in Nat /\ Len(tt) \in Nat /\ n \in Nat \ {0}
        BY <1>1, <2>2
      <3>2. Flattened(ss, F) /\ Flattened(tt, G)
        BY <1>2, <2>1
      <3>3. \A i \in 1..n : tt[i] = ss[i]
        BY <1>1
      <3> QED
        BY ONLY <2>2, <3>1, <3>2, <3>3, FlattenIsOne
    <2>4. n + 1 \in 2..Len(tt) /\ (n + 1) - 1 = n
      BY <1>1, <2>2
    <2>5. G[n + 1] = G[n] \o tt[n + 1]
      BY <1>2, <2>4, Zenon DEF Flattened
    <2> QED
      BY <1>1, <1>2, <2>1, <2>3, <2>5 DEF tt
  <1> QED
    BY <1>3, <1>4

LEMMA ConcatAssociates ==
  ASSUME NEW S, NEW a \in Seq(S), NEW b \in Seq(S), NEW c \in Seq(S)
  PROVE  (a \o b) \o c = a \o (b \o c) /\ a \o <<>> = a /\ <<>> \o a = a
  <1>1. (a \o b) \o c = a \o (b \o c)
    OBVIOUS
  <1>2. a \o <<>> = a
    OBVIOUS
  <1>3. <<>> \o a = a
    OBVIOUS
  <1> QED
    BY <1>1, <1>2, <1>3

LEMMA FlattenConcat ==
  ASSUME NEW T, NEW ss \in Seq(Seq(T)), NEW tt \in Seq(Seq(T))
  PROVE  FlattenSeq(ss \o tt) = FlattenSeq(ss) \o FlattenSeq(tt)
  <1> DEFINE Good == {n \in Nat : n <= Len(tt) =>
                        FlattenSeq(ss \o SubSeq(tt, 1, n)) = FlattenSeq(ss) \o FlattenSeq(SubSeq(tt, 1, n))}
  <1>1. Len(tt) \in Nat
    OBVIOUS
  <1>2. 0 \in Good
    <2>1. SubSeq(tt, 1, 0) = <<>> /\ ss \o <<>> = ss
      OBVIOUS
    <2>2. FlattenSeq(ss) \in Seq(T)
      BY FlattenTyped
    <2>3. FlattenSeq(ss) \o <<>> = FlattenSeq(ss)
      BY <2>2
    <2> QED
      BY <2>1, <2>3, FlattenEmpty, Zenon
  <1>3. ASSUME NEW n \in Nat, n \in Good PROVE n + 1 \in Good
    <2> SUFFICES ASSUME n + 1 <= Len(tt)
                 PROVE  FlattenSeq(ss \o SubSeq(tt, 1, n + 1))
                        = FlattenSeq(ss) \o FlattenSeq(SubSeq(tt, 1, n + 1))
      OBVIOUS
    <2> DEFINE b == SubSeq(tt, 1, n)
               s == tt[n + 1]
    <2>1. b \in Seq(Seq(T)) /\ s \in Seq(T)
      BY <1>1
    <2>2. SubSeq(tt, 1, n + 1) = Append(b, s)
      BY <1>1
    <2>3. FlattenSeq(ss \o b) = FlattenSeq(ss) \o FlattenSeq(b)
      BY <1>1, <1>3
    <2> HIDE DEF b, s, Good
    <2>4. ss \o Append(b, s) = Append(ss \o b, s) /\ ss \o b \in Seq(Seq(T))
      BY <2>1, SMTT(30)
    <2>5. /\ FlattenSeq(Append(ss \o b, s)) = FlattenSeq(ss \o b) \o s
          /\ FlattenSeq(Append(b, s)) = FlattenSeq(b) \o s
      BY <2>1, <2>4, FlattenAppend, Zenon
    <2>6. FlattenSeq(ss) \in Seq(T) /\ FlattenSeq(b) \in Seq(T)
      BY <2>1, FlattenTyped
    <2>7. (FlattenSeq(ss) \o FlattenSeq(b)) \o s = FlattenSeq(ss) \o (FlattenSeq(b) \o s)
      BY ONLY <2>1, <2>6, ConcatAssociates
    <2> QED
      BY <2>2, <2>3, <2>4, <2>5, <2>7, Zenon
  <1> HIDE DEF Good
  <1>4. Nat \subseteq Good
    BY <1>2, <1>3, SetInduction, Zenon
  <1>5. SubSeq(tt, 1, Len(tt)) = tt
    OBVIOUS
  <1>6. Len(tt) \in Good /\ Len(tt) <= Len(tt)
    BY <1>1, <1>4
  <1> QED
    BY <1>5, <1>6, Zenon DEF Good

LEMMA FlattenHead ==
  ASSUME NEW T, NEW ss \in Seq(Seq(T)), ss # <<>>
  PROVE  FlattenSeq(ss) = Head(ss) \o FlattenSeq(Tail(ss))
  <1>1. /\ <<Head(ss)>> \in Seq(Seq(T)) /\ Tail(ss) \in Seq(Seq(T)) /\ Head(ss) \in Seq(T)
        /\ ss = <<Head(ss)>> \o Tail(ss)
    OBVIOUS
  <1>2. FlattenSeq(<<Head(ss)>>) = Head(ss)
    BY <1>1, FlattenOne
  <1>3. FlattenSeq(<<Head(ss)>> \o Tail(ss)) = FlattenSeq(<<Head(ss)>>) \o FlattenSeq(Tail(ss))
    BY <1>1, FlattenConcat, Zenon
  <1> QED
    BY <1>1, <1>2, <1>3, Zenon

-----------------------------------------------------------------------------
(* A loop is a run: the state after each pass.                               *)

HasRun(C, a, n, f) ==
  \E p \in [0..n -> C] : p[0] = a /\ \A k \in 1..n : p[k] = f[k][p[k - 1]]

LEMMA RunExists ==
  ASSUME NEW C, NEW a \in C, NEW n \in Nat, NEW f \in [1..n -> [C -> C]]
  PROVE  HasRun(C, a, n, f)
  <1> DEFINE Run(m, p) == p[0] = a /\ \A k \in 1..m : p[k] = f[k][p[k - 1]]
             Good == {m \in Nat : m <= n => \E p \in [0..m -> C] : Run(m, p)}
  <1>1. 0 \in Good
    <2>1. [k \in 0..0 |-> a] \in [0..0 -> C]
      OBVIOUS
    <2>2. Run(0, [k \in 0..0 |-> a])
      OBVIOUS
    <2> QED
      BY <2>1, <2>2, Zenon
  <1>2. ASSUME NEW m \in Nat, m \in Good PROVE m + 1 \in Good
    <2> SUFFICES ASSUME m + 1 <= n PROVE \E p \in [0 .. m + 1 -> C] : Run(m + 1, p)
      OBVIOUS
    <2>1. PICK p \in [0..m -> C] : Run(m, p)
      BY <1>2
    <2> DEFINE last == f[m + 1][p[m]]
               q == [k \in 0 .. m + 1 |-> IF k = m + 1 THEN last ELSE p[k]]
    <2>2. last \in C
      <3>1. m + 1 \in 1..n /\ m \in 0..m
        OBVIOUS
      <3> QED
        BY <3>1
    <2> HIDE DEF last
    <2>3. q \in [0 .. m + 1 -> C]
      BY <2>2
    <2>4. q[0] = a
      BY <2>1
    <2>5. \A k \in 1 .. m + 1 : q[k] = f[k][q[k - 1]]
      <3> SUFFICES ASSUME NEW k \in 1 .. m + 1 PROVE q[k] = f[k][q[k - 1]]
        BY Zenon
      <3>1. CASE k = m + 1
        BY <3>1 DEF last
      <3>2. CASE k # m + 1
        <4>1. k \in 1..m /\ k - 1 # m + 1 /\ k - 1 \in 0 .. m + 1 /\ k \in 0 .. m + 1
          BY <3>2
        <4>2. q[k] = p[k] /\ q[k - 1] = p[k - 1]
          BY <3>2, <4>1
        <4> QED
          BY <2>1, <4>1, <4>2
      <3> QED
        BY <3>1, <3>2
    <2> HIDE DEF q
    <2> QED
      BY <2>3, <2>4, <2>5
  <1> HIDE DEF Good
  <1>3. Nat \subseteq Good
    BY <1>1, <1>2, SetInduction
  <1>4. n \in Good /\ n <= n
    BY <1>3
  <1> QED
    BY <1>4 DEF Good, HasRun

HasLoop(C, a, n, f) ==
  \E p \in [0..n -> C] : p = [k \in 0..n |-> IF k = 0 THEN a ELSE f[p[k - 1]]]

LEMMA LoopRuns ==
  ASSUME NEW C, NEW a \in C, NEW n \in Nat, NEW f \in [C -> C]
  PROVE  HasLoop(C, a, n, f)
  <1> DEFINE g == [k \in 1..n |-> f]
  <1>1. g \in [1..n -> [C -> C]]
    OBVIOUS
  <1>2. PICK p \in [0..n -> C] : p[0] = a /\ \A k \in 1..n : p[k] = g[k][p[k - 1]]
    <2> HIDE DEF g
    <2>1. HasRun(C, a, n, g)
      BY <1>1, RunExists
    <2> QED
      BY <2>1 DEF HasRun
  <1>3. \A k \in 0..n : k = 0 \/ k \in 1..n
    OBVIOUS
  <1>4. \A k \in 0..n : p[k] = IF k = 0 THEN a ELSE f[p[k - 1]]
    BY <1>2, <1>3
  <1>5. p = [k \in 0..n |-> p[k]]
    OBVIOUS
  <1> QED
    BY <1>4, <1>5 DEF HasLoop

-----------------------------------------------------------------------------
(* Sources (fdutils.c): what has not been read yet, and its place in flat.   *)

Sources(T, fd) == {src \in [buf : Seq(T), chunks : Seq(Seq(Seq(T)))] : fd \in DOMAIN src.chunks}
Rest(src, fd) == src.buf \o FlattenSeq(src.chunks[fd])
At(flat, c, rest) ==
  c \in 0..Len(flat) /\ Len(rest) = Len(flat) - c /\ \A i \in 1..Len(rest) : rest[i] = flat[c + i]

LEMMA SourceTyped ==
  ASSUME NEW T, NEW fd, NEW src \in Sources(T, fd)
  PROVE  /\ src.buf \in Seq(T) /\ src.chunks \in Seq(Seq(Seq(T))) /\ fd \in DOMAIN src.chunks
         /\ src.chunks[fd] \in Seq(Seq(T)) /\ FlattenSeq(src.chunks[fd]) \in Seq(T)
         /\ Rest(src, fd) \in Seq(T) /\ Passes(src, fd) \in Nat
         /\ Passes(src, fd) = Len(Rest(src, fd)) + Len(src.chunks[fd]) + 2
  <1>1. src.buf \in Seq(T) /\ src.chunks \in Seq(Seq(Seq(T))) /\ fd \in DOMAIN src.chunks
    BY DEF Sources
  <1>2. src.chunks[fd] \in Seq(Seq(T))
    BY <1>1
  <1>3. FlattenSeq(src.chunks[fd]) \in Seq(T)
    BY <1>2, FlattenTyped
  <1>4. /\ Rest(src, fd) \in Seq(T)
        /\ Len(Rest(src, fd)) = Len(src.buf) + Len(FlattenSeq(src.chunks[fd]))
    BY <1>1, <1>3 DEF Rest
  <1>5. Len(src.buf) \in Nat /\ Len(FlattenSeq(src.chunks[fd])) \in Nat /\ Len(src.chunks[fd]) \in Nat
    BY <1>1, <1>2, <1>3
  <1>6. Passes(src, fd) = Len(src.buf) + Len(FlattenSeq(src.chunks[fd])) + Len(src.chunks[fd]) + 2
    BY DEF Passes
  <1>7. /\ Passes(src, fd) = Len(Rest(src, fd)) + Len(src.chunks[fd]) + 2
        /\ Passes(src, fd) \in Nat
    <2> DEFINE x == Len(src.buf)
               y == Len(FlattenSeq(src.chunks[fd]))
               z == Len(src.chunks[fd])
               w == Len(Rest(src, fd))
    <2>1. x \in Nat /\ y \in Nat /\ z \in Nat /\ w = x + y /\ Passes(src, fd) = x + y + z + 2
      BY <1>4, <1>5, <1>6
    <2> HIDE DEF x, y, z, w
    <2>2. Passes(src, fd) = w + z + 2 /\ Passes(src, fd) \in Nat
      BY ONLY <2>1
    <2> QED
      BY <2>2 DEF w, z
  <1> QED
    BY <1>1, <1>2, <1>3, <1>4, <1>7, Zenon

(* A character more is read.                                                 *)
NextRead(T, fd, src, flat, c) ==
  /\ Next1(src) \in Sources(T, fd) /\ c + 1 \in 1..Len(flat) /\ Head(src.buf) = flat[c + 1]
  /\ At(flat, c + 1, Rest(Next1(src), fd)) /\ Next1(src).chunks = src.chunks
  /\ Len(Next1(src).buf) = Len(src.buf) - 1

LEMMA CharacterRead ==
  ASSUME NEW T, NEW fd, NEW src \in Sources(T, fd), src.buf # <<>>,
         NEW flat \in Seq(T), NEW c \in Nat, At(flat, c, Rest(src, fd))
  PROVE  NextRead(T, fd, src, flat, c)
  <1> DEFINE b == src.buf
             f == FlattenSeq(src.chunks[fd])
  <1>1. b \in Seq(T) /\ f \in Seq(T) /\ b # <<>>
    BY SourceTyped
  <1>2. Next1(src).buf = Tail(b) /\ Next1(src).chunks = src.chunks /\ Next1(src) \in Sources(T, fd)
    <2>1. src \in [buf : Seq(T), chunks : Seq(Seq(Seq(T)))] /\ fd \in DOMAIN src.chunks
      BY DEF Sources
    <2>2. Tail(b) \in Seq(T)
      BY <1>1
    <2>3. Next1(src) = [src EXCEPT !.buf = Tail(b)]
      BY DEF Next1
    <2> HIDE DEF b
    <2>4. /\ Next1(src).buf = Tail(b) /\ Next1(src).chunks = src.chunks
          /\ Next1(src) \in [buf : Seq(T), chunks : Seq(Seq(Seq(T)))]
      BY ONLY <2>1, <2>2, <2>3, Zenon
    <2> QED
      BY <2>1, <2>4 DEF Sources
  <1>3. Rest(src, fd) = b \o f /\ Rest(Next1(src), fd) = Tail(b) \o f
    BY <1>2 DEF Rest
  <1> HIDE DEF b, f
  <1>4. /\ Len(b) \in Nat \ {0} /\ Len(f) \in Nat /\ Len(Tail(b)) = Len(b) - 1 /\ Tail(b) \in Seq(T)
        /\ Head(b) = b[1]
    BY <1>1
  <1>5. Len(b \o f) = Len(b) + Len(f) /\ Len(Tail(b) \o f) = Len(b) - 1 + Len(f)
    BY <1>1, <1>4
  <1>6. (b \o f)[1] = Head(b)
    BY <1>1, <1>4
  <1>7. \A i \in 1..Len(Tail(b) \o f) : (Tail(b) \o f)[i] = (b \o f)[i + 1]
    BY <1>1, <1>4
  <1> DEFINE r == b \o f
             t == Tail(b) \o f
  <1>8. /\ c \in Nat /\ Len(flat) \in Nat /\ Len(r) = Len(flat) - c
        /\ \A i \in 1..Len(r) : r[i] = flat[c + i]
    BY <1>3 DEF At
  <1> HIDE DEF r, t
  <1>9. c + 1 \in 1..Len(flat) /\ 1 \in 1..Len(r)
    BY <1>4, <1>5, <1>8 DEF r
  <1>10. flat[c + 1] = Head(b)
    BY <1>6, <1>8, <1>9 DEF r
  <1>11. Len(t) = Len(flat) - (c + 1) /\ Len(t) + 1 = Len(r) /\ Len(t) \in Nat
    BY <1>4, <1>5, <1>8 DEF r, t
  <1>12. \A i \in 1..Len(t) : t[i] = flat[(c + 1) + i]
    <2> SUFFICES ASSUME NEW i \in 1..Len(t) PROVE t[i] = flat[(c + 1) + i]
      OBVIOUS
    <2>1. i + 1 \in 1..Len(r) /\ (c + 1) + i = c + (i + 1)
      BY <1>8, <1>11
    <2>2. t[i] = r[i + 1]
      BY <1>7, Zenon DEF r, t
    <2> QED
      BY <1>8, <2>1, <2>2
  <1>13. At(flat, c + 1, t)
    BY <1>9, <1>11, <1>12 DEF At
  <1> QED
    BY <1>2, <1>3, <1>4, <1>9, <1>10, <1>13 DEF t, b, NextRead

(* The next chunk is read.                                                   *)
LEMMA ChunkRead ==
  ASSUME NEW T, NEW fd, NEW src \in Sources(T, fd), src.buf = <<>>, More(src, fd)
  PROVE  /\ Refresh(src, fd) \in Sources(T, fd) /\ Rest(Refresh(src, fd), fd) = Rest(src, fd)
         /\ Refresh(src, fd).buf = Head(src.chunks[fd])
         /\ Refresh(src, fd).chunks[fd] = Tail(src.chunks[fd])
         /\ Len(Refresh(src, fd).chunks[fd]) = Len(src.chunks[fd]) - 1
  <1> DEFINE ss == src.chunks[fd]
  <1>1. /\ src.chunks \in Seq(Seq(Seq(T))) /\ fd \in DOMAIN src.chunks /\ ss \in Seq(Seq(T)) /\ ss # <<>>
    BY SourceTyped DEF More
  <1>2. Head(ss) \in Seq(T) /\ Tail(ss) \in Seq(Seq(T)) /\ Len(Tail(ss)) = Len(ss) - 1
    BY <1>1
  <1>3. FlattenSeq(ss) = Head(ss) \o FlattenSeq(Tail(ss)) /\ FlattenSeq(Tail(ss)) \in Seq(T)
    BY <1>1, <1>2, FlattenHead, FlattenTyped, Zenon
  <1>4. [src.chunks EXCEPT ![fd] = Tail(ss)] \in Seq(Seq(Seq(T)))
    BY <1>1, <1>2
  <1>5. /\ Refresh(src, fd).buf = Head(ss)
        /\ Refresh(src, fd).chunks = [src.chunks EXCEPT ![fd] = Tail(ss)]
        /\ Refresh(src, fd) = [buf |-> Head(ss), chunks |-> [src.chunks EXCEPT ![fd] = Tail(ss)]]
    BY DEF Refresh
  <1>6. Refresh(src, fd).chunks[fd] = Tail(ss)
    BY <1>1, <1>5
  <1>7. Refresh(src, fd) \in Sources(T, fd)
    BY <1>1, <1>2, <1>4, <1>5 DEF Sources
  <1>8. Rest(src, fd) = FlattenSeq(ss)
    <2>1. FlattenSeq(ss) \in Seq(T)
      BY <1>1, FlattenTyped
    <2>2. <<>> \o FlattenSeq(ss) = FlattenSeq(ss)
      BY <2>1
    <2> QED
      BY <2>2 DEF Rest
  <1>9. Rest(Refresh(src, fd), fd) = Head(ss) \o FlattenSeq(Tail(ss))
    BY <1>5, <1>6, Zenon DEF Rest
  <1> QED
    BY <1>2, <1>3, <1>5, <1>6, <1>7, <1>8, <1>9, Zenon

(* There is nothing left.                                                    *)
LEMMA AllRead ==
  ASSUME NEW T, NEW fd, NEW src \in Sources(T, fd), src.buf = <<>>, ~More(src, fd),
         NEW flat \in Seq(T), NEW c \in Nat, At(flat, c, Rest(src, fd))
  PROVE  c = Len(flat)
  <1>1. Rest(src, fd) = <<>>
    BY FlattenEmpty DEF Rest, More
  <1> QED
    BY <1>1 DEF At

LEMMA NothingRead ==
  ASSUME NEW T, NEW fd, NEW src \in Sources(T, fd)
  PROVE  At(Rest(src, fd), 0, Rest(src, fd))
  <1>1. Rest(src, fd) \in Seq(T)
    BY SourceTyped
  <1> QED
    BY <1>1 DEF At

-----------------------------------------------------------------------------
(* fd_gets and its caller read character by character, as if there were no   *)
(* chunks: s[c] is what the caller has after c of them.                      *)

LineState(T) == [lines : Seq(Seq(T)), line : Seq(T)]
AddChar(x, ch) ==
  IF Full(Append(x.line, ch)) THEN [lines |-> Append(x.lines, Append(x.line, ch)), line |-> <<>>]
  ELSE [lines |-> x.lines, line |-> Append(x.line, ch)]
LineRun(flat, s) ==
  /\ s[0] = [lines |-> <<>>, line |-> <<>>]
  /\ \A c \in 1..Len(flat) : s[c] = AddChar(s[c - 1], flat[c])

LEMMA AddCharTyped ==
  ASSUME NEW T, NEW x \in LineState(T), NEW ch \in T
  PROVE  AddChar(x, ch) \in LineState(T)
  <1>1. x.lines \in Seq(Seq(T)) /\ x.line \in Seq(T)
    BY DEF LineState
  <1>2. Append(x.line, ch) \in Seq(T) /\ <<>> \in Seq(T)
    BY <1>1
  <1>3. Append(x.lines, Append(x.line, ch)) \in Seq(Seq(T))
    BY <1>1, <1>2
  <1> QED
    BY <1>1, <1>2, <1>3 DEF AddChar, LineState

LEMMA LineRunExists ==
  ASSUME NEW T, NEW flat \in Seq(T)
  PROVE  \E s : LineRun(flat, s) /\ \A c \in 0..Len(flat) : s[c] \in LineState(T)
  <1> DEFINE n == Len(flat)
             C == LineState(T)
             f == [k \in 1..n |-> [x \in C |-> AddChar(x, flat[k])]]
             a == [lines |-> <<>>, line |-> <<>>]
  <1>1. n \in Nat /\ \A k \in 1..n : flat[k] \in T
    OBVIOUS
  <1>2. a \in C
    BY DEF LineState
  <1>3. \A k \in 1..n : \A x \in C : AddChar(x, flat[k]) \in C
    BY <1>1, AddCharTyped
  <1> HIDE DEF n, C, a
  <1>4. f \in [1..n -> [C -> C]]
    BY <1>3
  <1> HIDE DEF f
  <1>5. PICK p \in [0..n -> C] : p[0] = a /\ \A k \in 1..n : p[k] = f[k][p[k - 1]]
    <2>1. HasRun(C, a, n, f)
      BY <1>1, <1>2, <1>4, RunExists
    <2> QED
      BY <2>1, Zenon DEF HasRun
  <1>6. \A k \in 1..n : p[k] = AddChar(p[k - 1], flat[k])
    <2>1. \A k \in 1..n : k - 1 \in 0..n
      BY <1>1
    <2>2. \A k \in 1..n : p[k - 1] \in C
      BY <2>1
    <2> QED
      BY <1>5, <2>2, Zenon DEF f
  <1> QED
    BY <1>5, <1>6, Zenon DEF LineRun, a, n, C

(* What the caller has is what was read, in lines that end where they should.*)
LinesOk(flat, c, x) ==
  /\ FlattenSeq(x.lines) \o x.line = SubSeq(flat, 1, c)
  /\ \A k \in DOMAIN x.lines : Full(x.lines[k]) /\ Len(x.lines[k]) <= BufLen
  /\ Len(x.line) < BufLen /\ \A i \in 1..Len(x.line) : x.line[i] # EndOfLine

LEMMA AddCharOk ==
  ASSUME NEW T, NEW flat \in Seq(T), NEW c \in Nat, c + 1 <= Len(flat),
         NEW x \in LineState(T), LinesOk(flat, c, x)
  PROVE  LinesOk(flat, c + 1, AddChar(x, flat[c + 1]))
  <1> DEFINE ch == flat[c + 1]
             line == Append(x.line, ch)
             y == AddChar(x, ch)
  <1>1. x.lines \in Seq(Seq(T)) /\ x.line \in Seq(T) /\ ch \in T /\ BufLen \in Nat \ {0}
    BY BufAssumption DEF LineState
  <1> HIDE DEF ch
  <1>2. /\ line \in Seq(T) /\ Len(line) = Len(x.line) + 1 /\ line # <<>> /\ Len(x.line) \in Nat
        /\ line[Len(x.line) + 1] = ch
    BY <1>1
  <1>3. \A i \in 1..Len(x.line) : line[i] = x.line[i]
    BY <1>1
  <1> HIDE DEF line
  <1>4. FlattenSeq(x.lines) \in Seq(T)
    BY <1>1, FlattenTyped
  <1>5. FlattenSeq(x.lines) \o line = SubSeq(flat, 1, c + 1)
    <2>1. FlattenSeq(x.lines) \o Append(x.line, ch) = Append(FlattenSeq(x.lines) \o x.line, ch)
      <3> DEFINE a == FlattenSeq(x.lines)
                 b == x.line
      <3>1. a \in Seq(T) /\ b \in Seq(T) /\ ch \in T
        BY <1>1, <1>4
      <3> HIDE DEF a, b
      <3>2. a \o Append(b, ch) = Append(a \o b, ch)
        BY ONLY <3>1
      <3> QED
        BY <3>2 DEF a, b
    <2>2. SubSeq(flat, 1, c + 1) = Append(SubSeq(flat, 1, c), flat[c + 1])
      OBVIOUS
    <2> QED
      BY <2>1, <2>2 DEF LinesOk, line, ch
  <1>6. Len(line) <= BufLen
    BY <1>1, <1>2 DEF LinesOk
  <1>7. CASE Full(line)
    <2>1. y = [lines |-> Append(x.lines, line), line |-> <<>>]
      BY <1>7 DEF AddChar, line
    <2>2. FlattenSeq(Append(x.lines, line)) = FlattenSeq(x.lines) \o line
      BY <1>1, <1>2, FlattenAppend, Zenon
    <2>3. FlattenSeq(Append(x.lines, line)) \o <<>> = SubSeq(flat, 1, c + 1)
      <3>1. SubSeq(flat, 1, c + 1) \in Seq(T)
        OBVIOUS
      <3>2. SubSeq(flat, 1, c + 1) \o <<>> = SubSeq(flat, 1, c + 1)
        BY <3>1
      <3> QED
        BY <1>5, <2>2, <3>2
    <2>4. \A k \in DOMAIN Append(x.lines, line) :
            Full(Append(x.lines, line)[k]) /\ Len(Append(x.lines, line)[k]) <= BufLen
      <3> SUFFICES ASSUME NEW k \in DOMAIN Append(x.lines, line)
                   PROVE  Full(Append(x.lines, line)[k]) /\ Len(Append(x.lines, line)[k]) <= BufLen
        OBVIOUS
      <3>1. \/ k \in DOMAIN x.lines /\ Append(x.lines, line)[k] = x.lines[k]
            \/ Append(x.lines, line)[k] = line
        BY <1>1
      <3> QED
        BY <1>6, <1>7, <3>1 DEF LinesOk
    <2> QED
      BY <1>1, <2>1, <2>3, <2>4 DEF LinesOk, ch
  <1>8. CASE ~Full(line)
    <2>1. y = [lines |-> x.lines, line |-> line]
      BY <1>8 DEF AddChar, line
    <2>2. ch # EndOfLine /\ Len(line) # BufLen
      BY <1>2, <1>8 DEF Full
    <2>3. \A i \in 1..Len(line) : line[i] # EndOfLine
      <3>1. \A i \in 1..Len(line) : i \in 1..Len(x.line) \/ i = Len(x.line) + 1
        BY <1>2
      <3> QED
        BY <1>2, <1>3, <2>2, <3>1, Zenon DEF LinesOk
    <2>4. Len(line) < BufLen
      BY <1>1, <1>2, <1>6, <2>2
    <2> QED
      BY <1>5, <2>1, <2>3, <2>4 DEF LinesOk, ch
  <1> QED
    BY <1>7, <1>8

LEMMA LinesAreOk ==
  ASSUME NEW T, NEW flat \in Seq(T), NEW s, LineRun(flat, s),
         \A c \in 0..Len(flat) : s[c] \in LineState(T)
  PROVE  \A c \in 0..Len(flat) : LinesOk(flat, c, s[c])
  <1> DEFINE Good == {c \in Nat : c <= Len(flat) => LinesOk(flat, c, s[c])}
  <1>1. 0 \in Good
    <2>1. SubSeq(flat, 1, 0) = <<>> /\ <<>> \o <<>> = <<>>
      OBVIOUS
    <2>2. s[0].lines = <<>> /\ s[0].line = <<>>
      BY DEF LineRun
    <2>3. Len(<<>>) < BufLen /\ DOMAIN <<>> = {} /\ 1..Len(<<>>) = {}
      BY BufAssumption
    <2>4. LinesOk(flat, 0, s[0])
      BY ONLY <2>1, <2>2, <2>3, FlattenEmpty, Zenon DEF LinesOk
    <2> QED
      BY <2>4
  <1>2. ASSUME NEW c \in Nat, c \in Good PROVE c + 1 \in Good
    <2> SUFFICES ASSUME c + 1 <= Len(flat) PROVE LinesOk(flat, c + 1, s[c + 1])
      OBVIOUS
    <2>1. c + 1 \in 1..Len(flat) /\ c \in 0..Len(flat) /\ (c + 1) - 1 = c
      OBVIOUS
    <2>2. LinesOk(flat, c, s[c]) /\ s[c] \in LineState(T)
      BY <1>2, <2>1
    <2>3. s[c + 1] = AddChar(s[c], flat[c + 1])
      BY <2>1 DEF LineRun
    <2> HIDE DEF Good
    <2> QED
      BY <2>1, <2>2, <2>3, AddCharOk
  <1> HIDE DEF Good
  <1>3. Nat \subseteq Good
    BY <1>1, <1>2, SetInduction
  <1>4. \A c \in 0..Len(flat) : c \in Nat /\ c <= Len(flat)
    OBVIOUS
  <1> QED
    BY <1>3, <1>4 DEF Good

(* One call of fd_gets, from a place where a line begins: g is what it holds *)
(* after n passes.                                                           *)
Getting(T, fd) == [line : Seq(T), src : Sources(T, fd)]
GetsLoop(src, fd, p) ==
  p = [n \in 0..Passes(src, fd) |->
         IF n = 0 THEN [line |-> <<>>, src |-> src] ELSE GetsPass(p[n - 1], fd)]
Dry(src, fd) == src.buf = <<>> /\ ~More(src, fd)
Stops(g, fd) == Full(g.line) \/ (g.line = <<>> /\ Dry(g.src, fd))
Gathering(flat, s, b, c, g, fd) ==
  \/ ~Full(g.line) /\ ~Stops(g, fd) /\ s[c].lines = s[b].lines /\ s[c].line = g.line
  \/ Full(g.line) /\ s[c].lines = Append(s[b].lines, g.line) /\ s[c].line = <<>> /\ c # b
  \/ ~Full(g.line) /\ Stops(g, fd) /\ s[c].lines = s[b].lines /\ c = Len(flat)
Passed(n, c, b, g, fd, m) == Stops(g, fd) \/ n + Len(g.src.chunks[fd]) <= (c - b) + m
GetsInv(flat, s, b, fd, m, n, g) ==
  \E c \in b..Len(flat) : /\ At(flat, c, Rest(g.src, fd)) /\ Gathering(flat, s, b, c, g, fd)
                          /\ Passed(n, c, b, g, fd, m)

LEMMA NotFull == ~Full(<<>>)
  BY DEF Full

LEMMA GetsPassTyped ==
  ASSUME NEW T, NEW fd, NEW g \in Getting(T, fd)
  PROVE  GetsPass(g, fd) \in Getting(T, fd)
  <1>1. g.line \in Seq(T) /\ g.src \in Sources(T, fd) /\ g.src.buf \in Seq(T)
    BY SourceTyped DEF Getting
  <1>2. CASE g.src.buf # <<>>
    <2>1. Next1(g.src) \in Sources(T, fd)
      <3>1. At(Rest(g.src, fd), 0, Rest(g.src, fd)) /\ Rest(g.src, fd) \in Seq(T)
        BY <1>1, NothingRead, SourceTyped
      <3> QED
        BY <1>1, <1>2, <3>1, CharacterRead DEF NextRead
    <2>2. Append(g.line, Head(g.src.buf)) \in Seq(T)
      BY <1>1, <1>2
    <2> QED
      BY <1>2, <2>1, <2>2 DEF GetsPass, Getting
  <1>3. CASE g.src.buf = <<>> /\ More(g.src, fd)
    <2>1. Refresh(g.src, fd) \in Sources(T, fd)
      BY <1>1, <1>3, ChunkRead
    <2> QED
      BY <1>3, <2>1 DEF GetsPass, Getting
  <1>4. CASE g.src.buf = <<>> /\ ~More(g.src, fd)
    <2>1. <<>> \in Seq(T)
      OBVIOUS
    <2> QED
      BY <1>4, <2>1, Zenon DEF GetsPass, Getting
  <1> QED
    BY <1>2, <1>3, <1>4

LEMMA GetsPassIs ==
  ASSUME NEW T, NEW fd, NEW flat \in Seq(T), NEW s, LineRun(flat, s),
         \A c \in 0..Len(flat) : s[c] \in LineState(T),
         NEW b \in 0..Len(flat), NEW m \in Nat, NEW n \in Nat,
         NEW g \in Getting(T, fd), GetsInv(flat, s, b, fd, m, n, g)
  PROVE  GetsInv(flat, s, b, fd, m, n + 1, GetsPass(g, fd))
  <1> DEFINE h == GetsPass(g, fd)
  <1>1. PICK c \in b..Len(flat) : /\ At(flat, c, Rest(g.src, fd)) /\ Gathering(flat, s, b, c, g, fd)
                                  /\ Passed(n, c, b, g, fd, m)
    BY DEF GetsInv
  <1>2. /\ g.line \in Seq(T) /\ g.src \in Sources(T, fd) /\ g.src.buf \in Seq(T)
        /\ g.src.chunks[fd] \in Seq(Seq(T))
    BY SourceTyped DEF Getting
  <1>3. Len(g.src.chunks[fd]) \in Nat /\ Len(flat) \in Nat /\ c \in 0..Len(flat) /\ c \in Nat /\ b \in Nat
    BY <1>2
  <1>4. CASE Stops(g, fd)
    <2>1. h = g
      <3>1. CASE Full(g.line)
        BY <3>1 DEF GetsPass
      <3>2. CASE ~Full(g.line)
        <4>1. g.line = <<>> /\ g.src.buf = <<>> /\ ~More(g.src, fd)
          BY <1>4, <3>2 DEF Stops, Dry
        <4>2. h = [g EXCEPT !.line = <<>>]
          BY <3>2, <4>1 DEF GetsPass
        <4> QED
          BY <4>1, <4>2 DEF Getting
      <3> QED
        BY <3>1, <3>2
    <2>2. Passed(n + 1, c, b, h, fd, m)
      BY <1>4, <2>1 DEF Passed
    <2> QED
      BY <1>1, <2>1, <2>2 DEF GetsInv
  <1>5. CASE ~Stops(g, fd) /\ g.src.buf # <<>>
    <2> DEFINE ch == flat[c + 1]
    <2>1. /\ c + 1 \in 1..Len(flat) /\ Head(g.src.buf) = ch
          /\ At(flat, c + 1, Rest(Next1(g.src), fd)) /\ Next1(g.src).chunks = g.src.chunks
      <3> DEFINE src == g.src
      <3>1. src \in Sources(T, fd) /\ src.buf # <<>> /\ At(flat, c, Rest(src, fd)) /\ c \in Nat
        BY <1>1, <1>2, <1>3, <1>5
      <3> HIDE DEF src
      <3>2. /\ c + 1 \in 1..Len(flat) /\ Head(src.buf) = flat[c + 1]
            /\ At(flat, c + 1, Rest(Next1(src), fd)) /\ Next1(src).chunks = src.chunks
        <4>1. NextRead(T, fd, src, flat, c)
          BY <3>1, CharacterRead
        <4> QED
          BY <4>1 DEF NextRead
      <3> QED
        BY <3>2 DEF src
    <2>2. ~Full(g.line) /\ s[c].lines = s[b].lines /\ s[c].line = g.line
      BY <1>1, <1>5 DEF Gathering, Stops
    <2>3. h = [line |-> Append(g.line, ch), src |-> Next1(g.src)]
      BY <1>5, <2>1, <2>2, Zenon DEF GetsPass
    <2>4. h.line = Append(g.line, ch) /\ h.src = Next1(g.src) /\ h.line # <<>>
      <3>1. h.line = Append(g.line, ch) /\ h.src = Next1(g.src)
        BY <2>3
      <3>2. ch \in T
        BY <2>1
      <3>3. Append(g.line, ch) # <<>>
        BY <1>2, <3>2, AppendProperties
      <3> HIDE DEF h, ch
      <3> QED
        BY <3>1, <3>3
    <2>5. s[c + 1] = AddChar(s[c], ch)
      <3>1. (c + 1) - 1 = c
        BY <1>3
      <3> QED
        BY <2>1, <3>1 DEF LineRun
    <2> HIDE DEF h
    <2>6. Gathering(flat, s, b, c + 1, h, fd)
      <3>1. CASE Full(h.line)
        <4>1. s[c + 1] = [lines |-> Append(s[b].lines, h.line), line |-> <<>>]
          BY <2>2, <2>4, <2>5, <3>1 DEF AddChar
        <4>2. c + 1 # b
          BY <1>3
        <4> QED
          BY <3>1, <4>1, <4>2 DEF Gathering
      <3>2. CASE ~Full(h.line)
        <4>1. s[c + 1] = [lines |-> s[b].lines, line |-> h.line]
          BY <2>2, <2>4, <2>5, <3>2 DEF AddChar
        <4>2. ~Stops(h, fd)
          BY <2>4, <3>2 DEF Stops
        <4> QED
          BY <3>2, <4>1, <4>2 DEF Gathering
      <3> QED
        BY <3>1, <3>2
    <2>7. Passed(n + 1, c + 1, b, h, fd, m)
      <3>1. n + Len(g.src.chunks[fd]) <= (c - b) + m
        BY <1>1, <1>5 DEF Passed
      <3>2. h.src.chunks[fd] = g.src.chunks[fd]
        BY <2>1, <2>4
      <3>3. (n + 1) + Len(h.src.chunks[fd]) <= ((c + 1) - b) + m
        <4> DEFINE x == Len(g.src.chunks[fd])
                   y == Len(h.src.chunks[fd])
        <4>1. x \in Nat /\ y = x /\ n + x <= (c - b) + m
          BY <1>3, <3>1, <3>2
        <4> HIDE DEF x, y
        <4>2. (n + 1) + y <= ((c + 1) - b) + m
          BY <1>3, <4>1
        <4> QED
          BY <4>2, Zenon DEF y
      <3> QED
        BY <3>3, Zenon DEF Passed
    <2>8. c + 1 \in b..Len(flat)
      BY <1>3, <2>1
    <2> QED
      BY <2>1, <2>4, <2>6, <2>7, <2>8 DEF GetsInv, h
  <1>6. CASE ~Stops(g, fd) /\ g.src.buf = <<>> /\ More(g.src, fd)
    <2>1. /\ Rest(Refresh(g.src, fd), fd) = Rest(g.src, fd)
          /\ Len(Refresh(g.src, fd).chunks[fd]) = Len(g.src.chunks[fd]) - 1
      BY <1>2, <1>6, ChunkRead
    <2>2. ~Full(g.line) /\ s[c].lines = s[b].lines /\ s[c].line = g.line
      BY <1>1, <1>6 DEF Gathering, Stops
    <2>3. h = [g EXCEPT !.src = Refresh(g.src, fd)]
      BY <1>6, <2>2 DEF GetsPass
    <2>4. h.line = g.line /\ h.src = Refresh(g.src, fd)
      BY <2>3 DEF Getting
    <2> HIDE DEF h
    <2>5. CASE Stops(h, fd)
      <3>1. Dry(h.src, fd) /\ h.src \in Sources(T, fd) /\ At(flat, c, Rest(h.src, fd))
        BY <1>1, <1>2, <1>6, <2>1, <2>2, <2>4, <2>5, ChunkRead DEF Stops
      <3>2. c = Len(flat)
        BY <3>1, AllRead DEF Dry
      <3>3. Gathering(flat, s, b, c, h, fd) /\ Passed(n + 1, c, b, h, fd, m)
        BY <2>2, <2>4, <2>5, <3>2 DEF Gathering, Passed
      <3> QED
        BY <3>1, <3>3 DEF GetsInv, h
    <2>6. CASE ~Stops(h, fd)
      <3>1. Gathering(flat, s, b, c, h, fd)
        BY <2>2, <2>4, <2>6 DEF Gathering
      <3>2. n + Len(g.src.chunks[fd]) <= (c - b) + m
        BY <1>1, <1>6 DEF Passed
      <3>3. (n + 1) + Len(h.src.chunks[fd]) <= (c - b) + m
        <4> DEFINE x == Len(g.src.chunks[fd])
                   y == Len(h.src.chunks[fd])
        <4>1. x \in Nat /\ y = x - 1 /\ n + x <= (c - b) + m
          BY <1>3, <2>1, <2>4, <3>2
        <4> HIDE DEF x, y
        <4>2. (n + 1) + y <= (c - b) + m
          BY <1>3, <4>1
        <4> QED
          BY <4>2, Zenon DEF y
      <3>4. Passed(n + 1, c, b, h, fd, m)
        BY <3>3, Zenon DEF Passed
      <3> QED
        BY <1>1, <2>1, <2>4, <3>1, <3>4 DEF GetsInv, h
    <2> QED
      BY <2>5, <2>6
  <1>7. CASE ~Stops(g, fd) /\ g.src.buf = <<>> /\ ~More(g.src, fd)
    <2>1. ~Full(g.line) /\ s[c].lines = s[b].lines /\ s[c].line = g.line
      BY <1>1, <1>7 DEF Gathering, Stops
    <2>2. h = [g EXCEPT !.line = <<>>]
      BY <1>7, <2>1 DEF GetsPass
    <2>3. h.line = <<>> /\ h.src = g.src
      BY <2>2 DEF Getting
    <2> HIDE DEF h
    <2>4. Stops(h, fd) /\ ~Full(h.line)
      BY <1>7, <2>3, NotFull DEF Stops, Dry
    <2>5. c = Len(flat)
      BY <1>1, <1>2, <1>7, AllRead
    <2>6. Gathering(flat, s, b, c, h, fd) /\ Passed(n + 1, c, b, h, fd, m)
      BY <2>1, <2>4, <2>5 DEF Gathering, Passed
    <2> QED
      BY <1>1, <2>3, <2>6 DEF GetsInv, h
  <1> QED
    BY <1>4, <1>5, <1>6, <1>7

(* What a call returns: the next line, or that there is none.                *)
GotLine(T, flat, s, b, fd, g) ==
  /\ g \in Getting(T, fd)
  /\ \E c \in b..Len(flat) :
       /\ At(flat, c, Rest(g.src, fd))
       /\ IF g.line = <<>> THEN s[Len(flat)].lines = s[b].lines
          ELSE c # b /\ s[c].lines = Append(s[b].lines, g.line) /\ s[c].line = <<>>

LEMMA GetsIsLoop ==
  ASSUME NEW src, NEW fd
  PROVE  Gets(src, fd) = (CHOOSE p : GetsLoop(src, fd, p))[Passes(src, fd)]
  BY Zenon DEF Gets, GetsLoop

GetsSteps(T, fd, src, p) ==
  /\ \A n \in 0..Passes(src, fd) : p[n] \in Getting(T, fd)
  /\ p[0] = [line |-> <<>>, src |-> src]
  /\ \A n \in 1..Passes(src, fd) : p[n] = GetsPass(p[n - 1], fd)
  /\ Gets(src, fd) = p[Passes(src, fd)]

LEMMA GetsHasLoop ==
  ASSUME NEW T, NEW fd, NEW src \in Sources(T, fd)
  PROVE  \E p : GetsSteps(T, fd, src, p)
  <1> DEFINE N == Passes(src, fd)
             C == Getting(T, fd)
             a == [line |-> <<>>, src |-> src]
             f == [g \in C |-> GetsPass(g, fd)]
             p == CHOOSE q : GetsLoop(src, fd, q)
  <1>1. N \in Nat
    BY SourceTyped
  <1>2. a \in C
    <2>1. <<>> \in Seq(T)
      OBVIOUS
    <2> QED
      BY <2>1 DEF Getting
  <1>3. f \in [C -> C]
    BY GetsPassTyped
  <1>4. PICK q \in [0..N -> C] : q = [k \in 0..N |-> IF k = 0 THEN a ELSE f[q[k - 1]]]
    <2> HIDE DEF N, C, a, f
    <2>1. HasLoop(C, a, N, f)
      BY <1>1, <1>2, <1>3, LoopRuns
    <2> QED
      BY <2>1, Zenon DEF HasLoop
  <1>5. GetsLoop(src, fd, q)
    <2>1. \A k \in 0..N : k # 0 => q[k - 1] \in C
      <3>1. \A k \in 0..N : k # 0 => k - 1 \in 0..N
        BY <1>1
      <3> HIDE DEF N, C
      <3> QED
        BY <3>1
    <2>2. \A k \in 0..N : k # 0 => f[q[k - 1]] = GetsPass(q[k - 1], fd)
      BY <2>1
    <2> HIDE DEF f, N, C
    <2>3. q = [k \in 0..N |-> IF k = 0 THEN a ELSE GetsPass(q[k - 1], fd)]
      BY <1>4, <2>2, Zenon
    <2> QED
      BY <2>3, Zenon DEF GetsLoop, N
  <1>6. GetsLoop(src, fd, p)
    BY <1>5
  <1> HIDE DEF p
  <1>7. p = [k \in 0..N |-> IF k = 0 THEN a ELSE GetsPass(p[k - 1], fd)]
    BY <1>6, Zenon DEF GetsLoop
  <1> HIDE DEF N, a
  <1>8. \A k \in 1..N : k \in 0..N /\ k # 0
    BY <1>1
  <1>9. p[0] = a /\ \A k \in 1..N : p[k] = GetsPass(p[k - 1], fd)
    <2>1. 0 \in 0..N
      BY <1>1
    <2> QED
      BY ONLY Zenon, <1>7, <1>8, <2>1
  <1>10. \A k \in 0..N : p[k] \in C
    <2>1. \A k \in 1..N : p[k - 1] \in C => p[k] \in C
      BY <1>9, GetsPassTyped
    <2> HIDE DEF C
    <2> QED
      BY <1>1, <1>2, <1>9, <2>1, RunTyped, Zenon
  <1>11. Gets(src, fd) = p[N]
    BY GetsIsLoop DEF p, N
  <1> QED
    BY <1>9, <1>10, <1>11 DEF N, a, GetsSteps

LEMMA GetsIs ==
  ASSUME NEW T, NEW fd, NEW flat \in Seq(T), NEW s, LineRun(flat, s),
         \A c \in 0..Len(flat) : s[c] \in LineState(T),
         NEW b \in 0..Len(flat), s[b].line = <<>>,
         NEW src \in Sources(T, fd), At(flat, b, Rest(src, fd))
  PROVE  GotLine(T, flat, s, b, fd, Gets(src, fd))
  <1> DEFINE m == Len(src.chunks[fd])
             N == Passes(src, fd)
  <1>1. m \in Nat /\ N \in Nat /\ N = (Len(flat) - b) + m + 2 /\ Len(flat) \in Nat
    <2>1. m \in Nat /\ N \in Nat /\ N = Len(Rest(src, fd)) + m + 2
      BY SourceTyped
    <2>2. Len(Rest(src, fd)) = Len(flat) - b
      BY DEF At
    <2> HIDE DEF m, N
    <2> QED
      BY <2>1, <2>2
  <1>2. PICK p : /\ \A n \in 0..N : p[n] \in Getting(T, fd)
                 /\ p[0] = [line |-> <<>>, src |-> src]
                 /\ \A n \in 1..N : p[n] = GetsPass(p[n - 1], fd)
                 /\ Gets(src, fd) = p[N]
    <2>1. \E p : GetsSteps(T, fd, src, p)
      BY ONLY src \in Sources(T, fd), GetsHasLoop
    <2> QED
      BY ONLY <2>1, Zenon DEF GetsSteps, N
  <1>3. GetsInv(flat, s, b, fd, m, 0, p[0])
    <2>1. p[0].line = <<>> /\ p[0].src = src /\ ~Full(p[0].line)
      BY <1>2, NotFull
    <2>2. Gathering(flat, s, b, b, p[0], fd)
      <3>1. CASE Stops(p[0], fd)
        <4>1. Dry(src, fd)
          BY <2>1, <3>1 DEF Stops
        <4>2. b = Len(flat)
          BY <4>1, AllRead DEF Dry
        <4> QED
          BY <2>1, <3>1, <4>2 DEF Gathering
      <3>2. CASE ~Stops(p[0], fd)
        BY <2>1, <3>2 DEF Gathering
      <3> QED
        BY <3>1, <3>2
    <2>3. Passed(0, b, b, p[0], fd, m)
      <3>1. 0 + m <= (b - b) + m
        BY <1>1
      <3> QED
        BY <2>1, <3>1 DEF Passed
    <2>4. b \in b..Len(flat)
      BY <1>1
    <2> QED
      BY <2>1, <2>2, <2>3, <2>4 DEF GetsInv
  <1> DEFINE Good == {n \in Nat : n <= N => GetsInv(flat, s, b, fd, m, n, p[n])}
  <1>4. 0 \in Good
    BY <1>3
  <1>5. ASSUME NEW n \in Nat, n \in Good PROVE n + 1 \in Good
    <2> SUFFICES ASSUME n + 1 <= N PROVE GetsInv(flat, s, b, fd, m, n + 1, p[n + 1])
      OBVIOUS
    <2>1. n + 1 \in 1..N /\ n \in 0..N /\ (n + 1) - 1 = n /\ n <= N
      BY <1>1
    <2>2. GetsInv(flat, s, b, fd, m, n, p[n]) /\ p[n] \in Getting(T, fd)
      BY <1>2, <1>5, <2>1
    <2>3. p[n + 1] = GetsPass(p[n], fd)
      BY <1>2, <2>1
    <2> HIDE DEF m, N, Good
    <2> QED
      BY <1>1, <2>2, <2>3, GetsPassIs
  <1> HIDE DEF Good
  <1>6. Nat \subseteq Good
    BY <1>4, <1>5, SetInduction
  <1> HIDE DEF m, N
  <1>7. GetsInv(flat, s, b, fd, m, N, p[N])
    <2>1. N \in Good /\ N <= N
      BY <1>1, <1>6
    <2> QED
      BY <2>1 DEF Good
  <1> DEFINE g == p[N]
  <1>8. g \in Getting(T, fd) /\ Gets(src, fd) = g
    BY <1>1, <1>2
  <1> HIDE DEF g
  <1>9. PICK c \in b..Len(flat) : /\ At(flat, c, Rest(g.src, fd)) /\ Gathering(flat, s, b, c, g, fd)
                                  /\ Passed(N, c, b, g, fd, m)
    BY <1>7 DEF GetsInv, g
  <1>10. Stops(g, fd)
    <2> DEFINE x == Len(g.src.chunks[fd])
    <2>1. x \in Nat
      BY <1>8, SourceTyped DEF Getting
    <2> HIDE DEF x
    <2>2. ~(N + x <= (c - b) + m)
      BY <1>1, <2>1
    <2> QED
      BY <1>9, <2>2 DEF Passed, x
  <1>11. CASE g.line = <<>>
    <2>1. s[Len(flat)].lines = s[b].lines
      BY <1>9, <1>10, <1>11, NotFull DEF Gathering
    <2> QED
      BY <1>8, <1>9, <1>11, <2>1 DEF GotLine
  <1>12. CASE g.line # <<>>
    <2>1. Full(g.line)
      BY <1>10, <1>12 DEF Stops
    <2>2. c # b /\ s[c].lines = Append(s[b].lines, g.line) /\ s[c].line = <<>>
      BY <1>9, <2>1 DEF Gathering
    <2> QED
      BY <1>8, <1>9, <1>12, <2>2 DEF GotLine
  <1> QED
    BY <1>11, <1>12

(* The caller: a is what it holds after n calls.                             *)
Caller(T, fd) == [lines : Seq(Seq(T)), src : Sources(T, fd), ended : BOOLEAN]
CallLoop(src, fd, p) ==
  p = [n \in 0..Passes(src, fd) |->
         IF n = 0 THEN [lines |-> <<>>, src |-> src, ended |-> FALSE] ELSE Call(p[n - 1], fd)]
CallInv(flat, s, fd, n, a) ==
  \E c \in 0..Len(flat) :
    /\ At(flat, c, Rest(a.src, fd))
    /\ IF a.ended THEN s[Len(flat)].lines = a.lines
       ELSE s[c].lines = a.lines /\ s[c].line = <<>> /\ n <= c

LEMMA GetsTyped ==
  ASSUME NEW T, NEW fd, NEW src \in Sources(T, fd)
  PROVE  Gets(src, fd) \in Getting(T, fd)
  <1>1. PICK p : /\ \A n \in 0..Passes(src, fd) : p[n] \in Getting(T, fd)
                 /\ p[0] = [line |-> <<>>, src |-> src]
                 /\ \A n \in 1..Passes(src, fd) : p[n] = GetsPass(p[n - 1], fd)
                 /\ Gets(src, fd) = p[Passes(src, fd)]
    <2>1. \E p : GetsSteps(T, fd, src, p)
      BY ONLY src \in Sources(T, fd), GetsHasLoop
    <2> QED
      BY ONLY <2>1, Zenon DEF GetsSteps
  <1>2. Passes(src, fd) \in 0..Passes(src, fd)
    <2>1. Passes(src, fd) \in Nat
      BY SourceTyped
    <2> QED
      BY <2>1
  <1> QED
    BY <1>1, <1>2

LEMMA CallTyped ==
  ASSUME NEW T, NEW fd, NEW a \in Caller(T, fd)
  PROVE  Call(a, fd) \in Caller(T, fd)
  <1> DEFINE got == Gets(a.src, fd)
  <1>1. a.lines \in Seq(Seq(T)) /\ a.src \in Sources(T, fd) /\ a.ended \in BOOLEAN
    BY DEF Caller
  <1>2. got \in Getting(T, fd)
    BY <1>1, GetsTyped
  <1> HIDE DEF got
  <1>3. got.line \in Seq(T) /\ got.src \in Sources(T, fd)
    BY <1>2 DEF Getting
  <1>4. Append(a.lines, got.line) \in Seq(Seq(T))
    BY <1>1, <1>3
  <1>5. Call(a, fd) = IF a.ended THEN a
                      ELSE IF got.line = <<>> THEN [a EXCEPT !.ended = TRUE]
                      ELSE [a EXCEPT !.lines = Append(@, got.line), !.src = got.src]
    BY DEF Call, FdGets, got
  <1> QED
    BY <1>1, <1>3, <1>4, <1>5, Zenon DEF Caller

LEMMA CallIs ==
  ASSUME NEW T, NEW fd, NEW flat \in Seq(T), NEW s, LineRun(flat, s),
         \A c \in 0..Len(flat) : s[c] \in LineState(T),
         NEW n \in Nat, NEW a \in Caller(T, fd), CallInv(flat, s, fd, n, a)
  PROVE  CallInv(flat, s, fd, n + 1, Call(a, fd))
  <1> DEFINE got == Gets(a.src, fd)
             h == Call(a, fd)
  <1>1. PICK c \in 0..Len(flat) :
               /\ At(flat, c, Rest(a.src, fd))
               /\ IF a.ended THEN s[Len(flat)].lines = a.lines
                  ELSE s[c].lines = a.lines /\ s[c].line = <<>> /\ n <= c
    BY DEF CallInv
  <1>2. a.lines \in Seq(Seq(T)) /\ a.src \in Sources(T, fd) /\ a.ended \in BOOLEAN
    BY DEF Caller
  <1>3. h = IF a.ended THEN a
            ELSE IF got.line = <<>> THEN [a EXCEPT !.ended = TRUE]
            ELSE [a EXCEPT !.lines = Append(@, got.line), !.src = got.src]
    BY DEF Call, FdGets
  <1>4. CASE a.ended
    <2>1. h = a
      BY <1>3, <1>4
    <2> QED
      BY <1>1, <1>4, <2>1 DEF CallInv
  <1>5. CASE ~a.ended
    <2>1. GotLine(T, flat, s, c, fd, got)
      BY <1>1, <1>2, <1>5, GetsIs
    <2> HIDE DEF got
    <2>2. PICK d \in c..Len(flat) :
                 /\ At(flat, d, Rest(got.src, fd))
                 /\ IF got.line = <<>> THEN s[Len(flat)].lines = s[c].lines
                    ELSE d # c /\ s[d].lines = Append(s[c].lines, got.line) /\ s[d].line = <<>>
      BY <2>1 DEF GotLine
    <2>3. CASE got.line = <<>>
      <3>1. h = [a EXCEPT !.ended = TRUE]
        BY <1>3, <1>5, <2>3
      <3>2. h.ended = TRUE /\ h.lines = a.lines /\ h.src = a.src
        BY <3>1 DEF Caller
      <3>3. s[Len(flat)].lines = h.lines
        BY <1>1, <1>5, <2>2, <2>3, <3>2
      <3> HIDE DEF h
      <3> QED
        BY <1>1, <3>2, <3>3 DEF CallInv, h
    <2>4. CASE got.line # <<>>
      <3>1. h = [a EXCEPT !.lines = Append(@, got.line), !.src = got.src]
        BY <1>3, <1>5, <2>4
      <3>2. h.ended = FALSE /\ h.lines = Append(a.lines, got.line) /\ h.src = got.src
        BY <1>5, <3>1 DEF Caller
      <3>3. s[d].lines = h.lines /\ s[d].line = <<>> /\ d # c
        BY <1>1, <1>5, <2>2, <2>4, <3>2, Zenon
      <3>4. d \in 0..Len(flat) /\ n + 1 <= d
        BY <1>1, <1>5, <2>2, <3>3
      <3> HIDE DEF h
      <3> QED
        BY <2>2, <3>2, <3>3, <3>4 DEF CallInv, h
    <2> QED
      BY <2>3, <2>4
  <1> QED
    BY <1>4, <1>5

LEMMA AllLinesIsLoop ==
  ASSUME NEW src, NEW fd
  PROVE  AllLines(src, fd) = (CHOOSE p : CallLoop(src, fd, p))[Passes(src, fd)].lines
  BY Zenon DEF AllLines, CallLoop

AllLinesSteps(T, fd, src, p) ==
  /\ \A n \in 0..Passes(src, fd) : p[n] \in Caller(T, fd)
  /\ p[0] = [lines |-> <<>>, src |-> src, ended |-> FALSE]
  /\ \A n \in 1..Passes(src, fd) : p[n] = Call(p[n - 1], fd)
  /\ AllLines(src, fd) = p[Passes(src, fd)].lines

LEMMA AllLinesHasLoop ==
  ASSUME NEW T, NEW fd, NEW src \in Sources(T, fd)
  PROVE  \E p : AllLinesSteps(T, fd, src, p)
  <1> DEFINE N == Passes(src, fd)
             C == Caller(T, fd)
             a == [lines |-> <<>>, src |-> src, ended |-> FALSE]
             f == [g \in C |-> Call(g, fd)]
             p == CHOOSE q : CallLoop(src, fd, q)
  <1>1. N \in Nat
    BY SourceTyped
  <1>2. a \in C
    <2>1. <<>> \in Seq(Seq(T))
      OBVIOUS
    <2> QED
      BY <2>1 DEF Caller
  <1>3. f \in [C -> C]
    BY CallTyped
  <1>4. PICK q \in [0..N -> C] : q = [k \in 0..N |-> IF k = 0 THEN a ELSE f[q[k - 1]]]
    <2> HIDE DEF N, C, a, f
    <2>1. HasLoop(C, a, N, f)
      BY <1>1, <1>2, <1>3, LoopRuns
    <2> QED
      BY <2>1, Zenon DEF HasLoop
  <1>5. CallLoop(src, fd, q)
    <2>1. \A k \in 0..N : k # 0 => q[k - 1] \in C
      <3>1. \A k \in 0..N : k # 0 => k - 1 \in 0..N
        BY <1>1
      <3> HIDE DEF N, C
      <3> QED
        BY <3>1
    <2>2. \A k \in 0..N : k # 0 => f[q[k - 1]] = Call(q[k - 1], fd)
      BY <2>1
    <2> HIDE DEF f, N, C
    <2>3. q = [k \in 0..N |-> IF k = 0 THEN a ELSE Call(q[k - 1], fd)]
      BY <1>4, <2>2, Zenon
    <2> QED
      BY <2>3, Zenon DEF CallLoop, N
  <1>6. CallLoop(src, fd, p)
    BY <1>5
  <1> HIDE DEF p
  <1>7. p = [k \in 0..N |-> IF k = 0 THEN a ELSE Call(p[k - 1], fd)]
    BY <1>6, Zenon DEF CallLoop
  <1> HIDE DEF N, a
  <1>8. \A k \in 1..N : k \in 0..N /\ k # 0
    BY <1>1
  <1>9. p[0] = a /\ \A k \in 1..N : p[k] = Call(p[k - 1], fd)
    <2>1. 0 \in 0..N
      BY <1>1
    <2> QED
      BY ONLY Zenon, <1>7, <1>8, <2>1
  <1>10. \A k \in 0..N : p[k] \in C
    <2>1. \A k \in 1..N : p[k - 1] \in C => p[k] \in C
      BY <1>9, CallTyped
    <2> HIDE DEF C
    <2> QED
      BY <1>1, <1>2, <1>9, <2>1, RunTyped, Zenon
  <1>11. AllLines(src, fd) = p[N].lines
    BY AllLinesIsLoop DEF p, N
  <1> QED
    BY <1>9, <1>10, <1>11 DEF N, a, AllLinesSteps

LEMMA AllLinesIs ==
  ASSUME NEW T, NEW fd, NEW flat \in Seq(T), NEW s, LineRun(flat, s),
         \A c \in 0..Len(flat) : s[c] \in LineState(T),
         NEW src \in Sources(T, fd), Rest(src, fd) = flat
  PROVE  AllLines(src, fd) = s[Len(flat)].lines
  <1> DEFINE N == Passes(src, fd)
  <1>1. N \in Nat /\ N > Len(flat) /\ Len(flat) \in Nat
    <2> DEFINE x == Len(src.chunks[fd])
    <2>1. x \in Nat /\ N \in Nat /\ N = Len(Rest(src, fd)) + x + 2
      <3>1. /\ src.chunks[fd] \in Seq(Seq(T)) /\ Passes(src, fd) \in Nat
            /\ Passes(src, fd) = Len(Rest(src, fd)) + Len(src.chunks[fd]) + 2
        BY ONLY src \in Sources(T, fd), SourceTyped
      <3> QED
        BY ONLY <3>1
    <2>2. Len(Rest(src, fd)) = Len(flat) /\ Len(flat) \in Nat
      OBVIOUS
    <2> HIDE DEF x, N
    <2> QED
      BY <2>1, <2>2
  <1>2. PICK p : /\ \A n \in 0..N : p[n] \in Caller(T, fd)
                 /\ p[0] = [lines |-> <<>>, src |-> src, ended |-> FALSE]
                 /\ \A n \in 1..N : p[n] = Call(p[n - 1], fd)
                 /\ AllLines(src, fd) = p[N].lines
    <2>1. \E p : AllLinesSteps(T, fd, src, p)
      BY ONLY src \in Sources(T, fd), AllLinesHasLoop
    <2> QED
      BY ONLY <2>1, Zenon DEF AllLinesSteps, N
  <1> HIDE DEF N
  <1> DEFINE Good == {n \in Nat : n <= N => CallInv(flat, s, fd, n, p[n])}
  <1>3. 0 \in Good
    <2>1. At(flat, 0, Rest(src, fd))
      BY NothingRead
    <2>2. s[0].lines = <<>> /\ s[0].line = <<>> /\ 0 \in 0..Len(flat) /\ 0 <= 0
      BY <1>1 DEF LineRun
    <2>3. p[0].src = src /\ p[0].lines = <<>> /\ p[0].ended = FALSE
      BY <1>2
    <2>4. CallInv(flat, s, fd, 0, p[0])
      BY <2>1, <2>2, <2>3 DEF CallInv
    <2> QED
      BY <2>4
  <1>4. ASSUME NEW n \in Nat, n \in Good PROVE n + 1 \in Good
    <2> SUFFICES ASSUME n + 1 <= N PROVE CallInv(flat, s, fd, n + 1, p[n + 1])
      OBVIOUS
    <2>1. n + 1 \in 1..N /\ n \in 0..N /\ (n + 1) - 1 = n /\ n <= N
      BY <1>1
    <2>2. CallInv(flat, s, fd, n, p[n]) /\ p[n] \in Caller(T, fd)
      BY <1>2, <1>4, <2>1
    <2>3. p[n + 1] = Call(p[n], fd)
      BY <1>2, <2>1
    <2> HIDE DEF Good
    <2> QED
      BY <2>2, <2>3, CallIs
  <1> HIDE DEF Good
  <1>5. Nat \subseteq Good
    BY <1>3, <1>4, SetInduction
  <1>6. CallInv(flat, s, fd, N, p[N])
    <2>1. N \in Good /\ N <= N
      BY <1>1, <1>5
    <2> QED
      BY <2>1 DEF Good
  <1>7. p[N].ended
    <2>1. \A c \in 0..Len(flat) : ~(N <= c)
      BY <1>1
    <2> QED
      BY <1>6, <2>1 DEF CallInv
  <1> QED
    BY <1>2, <1>6, <1>7 DEF CallInv

LEMMA CellsFit ==
  ASSUME NEW T, NEW line \in Seq(T), Len(line) <= BufLen
  PROVE  Cells(line) \subseteq 0..BufLen
  BY BufAssumption DEF Cells

(* However the stream is cut into chunks, fd_gets returns the same lines: the*)
(* stream up to its last newline or full buffer; the zero behind a line goes *)
(* one cell further at most (fdutils.c, socket.c).                           *)
THEOREM LinesAreWhole ==
  ASSUME NEW T, NEW chunks \in Seq(Seq(T))
  PROVE  LinesSurviveChunks(chunks)
  <1> DEFINE flat == FlattenSeq(chunks)
             src == Source([fd \in 1..2 |-> chunks])
             one == Source(<<<<flat>>, <<>>>>)
  <1>1. flat \in Seq(T)
    BY FlattenTyped
  <1>2. PICK s : LineRun(flat, s) /\ \A c \in 0..Len(flat) : s[c] \in LineState(T)
    <2> HIDE DEF flat
    <2> QED
      BY <1>1, LineRunExists
  <1>3. src \in Sources(T, 1) /\ Rest(src, 1) = flat
    <2>1. [fd \in 1..2 |-> chunks] \in Seq(Seq(Seq(T)))
      <3>1. [fd \in 1..2 |-> chunks] \in [1..2 -> Seq(Seq(T))] /\ 2 \in Nat
        OBVIOUS
      <3> QED
        BY <3>1
    <2>2. src.buf = <<>> /\ src.chunks = [fd \in 1..2 |-> chunks] /\ 1 \in DOMAIN src.chunks
      BY DEF Source
    <2>3. src.chunks[1] = chunks
      BY <2>2
    <2>4. <<>> \o flat = flat /\ <<>> \in Seq(T)
      BY <1>1
    <2>5. src \in Sources(T, 1)
      BY <2>1, <2>2, <2>4 DEF Sources, Source
    <2> HIDE DEF src
    <2> QED
      BY <2>2, <2>3, <2>4, <2>5 DEF Rest
  <1>4. one \in Sources(T, 1) /\ Rest(one, 1) = flat
    <2> HIDE DEF flat
    <2>1. <<flat>> \in Seq(Seq(T)) /\ <<>> \in Seq(Seq(T))
      BY <1>1
    <2>2. <<<<flat>>, <<>>>> \in Seq(Seq(Seq(T)))
      BY <2>1
    <2>3. one.buf = <<>> /\ one.chunks = <<<<flat>>, <<>>>> /\ 1 \in DOMAIN one.chunks
      BY DEF Source
    <2>4. one.chunks[1] = <<flat>>
      BY <2>3
    <2>5. <<>> \o flat = flat /\ <<>> \in Seq(T)
      BY <1>1
    <2>6. one \in Sources(T, 1)
      BY <2>2, <2>3, <2>5 DEF Sources, Source
    <2>7. FlattenSeq(<<flat>>) = flat
      BY <1>1, FlattenOne
    <2> HIDE DEF one
    <2> QED
      BY <2>3, <2>4, <2>5, <2>6, <2>7 DEF Rest
  <1> HIDE DEF flat, src, one
  <1>5. /\ AllLines(src, 1) = s[Len(flat)].lines
        /\ AllLines(one, 1) = s[Len(flat)].lines
    BY <1>1, <1>2, <1>3, <1>4, AllLinesIs
  <1> DEFINE x == s[Len(flat)]
             text == FlattenSeq(x.lines)
  <1>6. LinesOk(flat, Len(flat), x) /\ x \in LineState(T)
    <2>1. Len(flat) \in 0..Len(flat)
      BY <1>1
    <2> QED
      BY <1>1, <1>2, <2>1, LinesAreOk
  <1> HIDE DEF x
  <1>7. text \in Seq(T) /\ x.line \in Seq(T)
    BY <1>6, FlattenTyped DEF LineState
  <1>8. text \o x.line = flat
    <2>1. SubSeq(flat, 1, Len(flat)) = flat
      BY <1>1
    <2> QED
      BY <1>6, <2>1, Zenon DEF LinesOk
  <1>9. \A i \in 1..Len(x.line) : x.line[i] # EndOfLine
    BY <1>6 DEF LinesOk
  <1>10. /\ text = SubSeq(flat, 1, Len(text))
         /\ \A i \in Len(text) + 1..Len(flat) : flat[i] # EndOfLine
    <2> DEFINE b == x.line
    <2>1. b \in Seq(T) /\ flat = text \o b /\ \A i \in 1..Len(b) : b[i] # EndOfLine
      BY <1>7, <1>8, <1>9
    <2> HIDE DEF text, b
    <2>2. text = SubSeq(flat, 1, Len(text))
      BY <1>7, <2>1
    <2>3. ASSUME NEW i \in Len(text) + 1..Len(flat) PROVE flat[i] # EndOfLine
      <3>1. i - Len(text) \in 1..Len(b) /\ flat[i] = b[i - Len(text)]
        BY <1>7, <2>1
      <3> QED
        BY <2>1, <3>1
    <2> QED
      BY <2>2, <2>3
  <1>11. \A k \in DOMAIN x.lines : Full(x.lines[k]) /\ Cells(x.lines[k]) \subseteq 0..BufLen
    <2>1. x.lines \in Seq(Seq(T))
      BY <1>6 DEF LineState
    <2> SUFFICES ASSUME NEW k \in DOMAIN x.lines
                 PROVE  Full(x.lines[k]) /\ Cells(x.lines[k]) \subseteq 0..BufLen
      OBVIOUS
    <2>2. Full(x.lines[k]) /\ Len(x.lines[k]) <= BufLen /\ x.lines[k] \in Seq(T)
      BY <1>6, <2>1 DEF LinesOk
    <2> QED
      BY <2>2, CellsFit
  <1> QED
    BY <1>5, <1>10, <1>11, Zenon DEF LinesSurviveChunks, flat, src, one, x

-----------------------------------------------------------------------------
(* fd_telgets.  Words and characters of a reply; the state of a call.        *)

Words(T) == T \cup {"do", "dont", "will", "wont", "none"}
TelState(T) == [line : Seq(T), state : {"iac", "cmd", "opt"}, cmd : Words(T),
                replies : Seq(Seq(Words(T))), done : BOOLEAN, late : BOOLEAN]

(* What a character adds to the text and to the replies, and the state after *)
(* it: of the state before, only where it stands in a command counts.        *)
Adds(x, ch) ==
  IF x.state \in {"cmd", "opt"} \/ ch \in {"iac", "nul", "cr"} THEN <<>> ELSE <<ch>>
Says(x, ch) ==
  IF x.state = "opt" /\ Answer(x.cmd, ch) # <<>> THEN <<Answer(x.cmd, ch)>> ELSE <<>>
Same(x, y) == x.state = y.state /\ (x.state = "opt" => x.cmd = y.cmd)

(* One character, seen so.                                                   *)
Heard(T, x, ch, y) ==
  /\ y \in TelState(T) /\ y.line = x.line \o Adds(x, ch) /\ y.replies = x.replies \o Says(x, ch)
  /\ Adds(x, ch) \in Seq(T) /\ Says(x, ch) \in Seq(Seq(Words(T)))
  /\ y.done => x.done \/ y.state = "iac"
  /\ y.late = x.late

LEMMA AnswerTyped ==
  ASSUME NEW T, NEW cmd \in Words(T), NEW opt \in T
  PROVE  Answer(cmd, opt) \in Seq(Words(T))
  <1>1. \A w \in {"do", "dont", "will", "wont"} : <<w, opt>> \in Seq(Words(T))
    BY DEF Words
  <1>2. <<>> \in Seq(Words(T))
    OBVIOUS
  <1>3. \/ Answer(cmd, opt) = <<>>
        \/ \E w \in {"do", "dont", "will", "wont"} : Answer(cmd, opt) = <<w, opt>>
    BY DEF Answer
  <1> QED
    BY <1>1, <1>2, <1>3, Zenon

LEMMA TelnetHears ==
  ASSUME NEW T, NEW x \in TelState(T), NEW ch \in T
  PROVE  Heard(T, x, ch, Telnet(x, ch))
  <1> DEFINE y == Telnet(x, ch)
  <1>1. /\ x.line \in Seq(T) /\ x.state \in {"iac", "cmd", "opt"} /\ x.cmd \in Words(T)
        /\ x.replies \in Seq(Seq(Words(T))) /\ x.done \in BOOLEAN /\ x.late \in BOOLEAN
        /\ x.line \o <<>> = x.line /\ x.replies \o <<>> = x.replies
    <2>1. x.line \in Seq(T) /\ x.replies \in Seq(Seq(Words(T)))
      BY DEF TelState
    <2>2. x.line \o <<>> = x.line
      BY <2>1
    <2>3. x.replies \o <<>> = x.replies
      BY <2>1
    <2> QED
      BY <2>1, <2>2, <2>3 DEF TelState
  <1>2. ch \in Words(T) /\ <<>> \in Seq(T) /\ <<>> \in Seq(Seq(Words(T)))
    BY DEF Words
  <1>3. CASE x.state = "cmd"
    <2>1. y = [x EXCEPT !.cmd = ch, !.state = "opt"] /\ Adds(x, ch) = <<>> /\ Says(x, ch) = <<>>
      BY <1>3 DEF Telnet, Adds, Says
    <2> QED
      BY <1>1, <1>2, <2>1, Zenon DEF TelState, Heard
  <1>4. CASE x.state = "opt"
    <2> DEFINE a == Answer(x.cmd, ch)
    <2>1. a \in Seq(Words(T))
      BY <1>1, AnswerTyped
    <2>2. /\ y = [x EXCEPT !.state = "iac", !.replies = IF a = <<>> THEN @ ELSE Append(@, a)]
          /\ Adds(x, ch) = <<>> /\ Says(x, ch) = IF a = <<>> THEN <<>> ELSE <<a>>
      BY <1>4 DEF Telnet, Adds, Says
    <2> HIDE DEF a
    <2>3. Append(x.replies, a) = x.replies \o <<a>> /\ Append(x.replies, a) \in Seq(Seq(Words(T)))
      <3> DEFINE r == x.replies
      <3>1. r \in Seq(Seq(Words(T)))
        BY <1>1
      <3> HIDE DEF r
      <3>2. Append(r, a) = r \o <<a>>
        BY <2>1, <3>1
      <3>3. Append(r, a) \in Seq(Seq(Words(T)))
        BY <2>1, <3>1
      <3> QED
        BY <3>2, <3>3 DEF r
    <2>4. <<a>> \in Seq(Seq(Words(T)))
      BY <2>1
    <2> HIDE DEF y
    <2>5. CASE a = <<>>
      BY <1>1, <1>2, <2>2, <2>5, Zenon DEF TelState, Heard, y
    <2>6. CASE a # <<>>
      BY <1>1, <1>2, <2>2, <2>3, <2>4, <2>6, Zenon DEF TelState, Heard, y
    <2> QED
      BY <2>5, <2>6
  <1>5. CASE x.state = "iac" /\ ch \in {"iac", "nul", "cr"}
    <2>1. Adds(x, ch) = <<>> /\ Says(x, ch) = <<>>
      BY <1>5 DEF Adds, Says
    <2>2. \/ y = [x EXCEPT !.state = "cmd"] \/ y = [x EXCEPT !.done = TRUE] \/ y = x
      BY <1>5 DEF Telnet
    <2> QED
      BY <1>1, <1>2, <1>5, <2>1, <2>2, Zenon DEF TelState, Heard
  <1>6. CASE x.state = "iac" /\ ch \notin {"iac", "nul", "cr"}
    <2>1. Adds(x, ch) = <<ch>> /\ Says(x, ch) = <<>>
      BY <1>6 DEF Adds, Says
    <2>2. y = [x EXCEPT !.line = Append(@, ch), !.done = Full(Append(x.line, ch))]
      BY <1>6 DEF Telnet
    <2>3. /\ Append(x.line, ch) \in Seq(T) /\ Append(x.line, ch) = x.line \o <<ch>>
          /\ <<ch>> \in Seq(T)
      <3> DEFINE r == x.line
      <3>1. r \in Seq(T)
        BY <1>1
      <3> HIDE DEF r
      <3>2. Append(r, ch) = r \o <<ch>>
        BY <3>1
      <3>3. Append(r, ch) \in Seq(T) /\ <<ch>> \in Seq(T)
        BY <3>1
      <3> QED
        BY <3>2, <3>3 DEF r
    <2>4. Full(Append(x.line, ch)) \in BOOLEAN
      BY DEF Full
    <2> QED
      BY <1>1, <1>2, <1>6, <2>1, <2>2, <2>3, <2>4, Zenon DEF TelState, Heard
  <1> QED
    BY <1>1, <1>3, <1>4, <1>5, <1>6

LEMMA SameHear ==
  ASSUME NEW T, NEW x \in TelState(T), NEW y \in TelState(T), Same(x, y), NEW ch \in T
  PROVE  /\ Adds(x, ch) = Adds(y, ch) /\ Says(x, ch) = Says(y, ch)
         /\ Same(Telnet(x, ch), Telnet(y, ch))
  <1>1. /\ x.state \in {"iac", "cmd", "opt"} /\ x.state = y.state
        /\ x.state = "opt" => x.cmd = y.cmd
    BY DEF Same, TelState
  <1>2. Adds(x, ch) = Adds(y, ch) /\ Says(x, ch) = Says(y, ch)
    BY <1>1 DEF Adds, Says
  <1>3. \A z \in TelState(T) :
          /\ z.state = "cmd" => Telnet(z, ch).state = "opt" /\ Telnet(z, ch).cmd = ch
          /\ z.state = "opt" => Telnet(z, ch).state = "iac"
          /\ z.state = "iac" => Telnet(z, ch).state = IF ch = "iac" THEN "cmd" ELSE "iac"
    <2> SUFFICES ASSUME NEW z \in TelState(T)
                 PROVE  /\ z.state = "cmd" => Telnet(z, ch).state = "opt" /\ Telnet(z, ch).cmd = ch
                        /\ z.state = "opt" => Telnet(z, ch).state = "iac"
                        /\ z.state = "iac" => Telnet(z, ch).state = IF ch = "iac" THEN "cmd" ELSE "iac"
      OBVIOUS
    <2>1. CASE z.state = "cmd"
      <3>1. Telnet(z, ch) = [z EXCEPT !.cmd = ch, !.state = "opt"]
        BY <2>1 DEF Telnet
      <3> QED
        BY <2>1, <3>1 DEF TelState
    <2>2. CASE z.state = "opt"
      <3> DEFINE r == IF Answer(z.cmd, ch) = <<>> THEN z.replies
                      ELSE Append(z.replies, Answer(z.cmd, ch))
      <3>1. Telnet(z, ch) = [z EXCEPT !.state = "iac", !.replies = r]
        BY <2>2 DEF Telnet
      <3> HIDE DEF r
      <3> QED
        BY <2>2, <3>1 DEF TelState
    <2>3. CASE z.state \notin {"cmd", "opt"}
      <3>1. CASE ch \in {"iac", "nul", "cr"}
        <4>1. \/ ch = "iac" /\ Telnet(z, ch) = [z EXCEPT !.state = "cmd"]
              \/ ch = "nul" /\ Telnet(z, ch) = [z EXCEPT !.done = TRUE]
              \/ ch = "cr" /\ Telnet(z, ch) = z
          BY <2>3, <3>1 DEF Telnet
        <4> QED
          BY <2>3, <4>1 DEF TelState
      <3>2. CASE ch \notin {"iac", "nul", "cr"}
        <4>1. Telnet(z, ch) = [z EXCEPT !.line = Append(@, ch), !.done = Full(Append(z.line, ch))]
          BY <2>3, <3>2 DEF Telnet
        <4> QED
          BY <2>3, <3>2, <4>1 DEF TelState
      <3> QED
        BY <3>1, <3>2
    <2> QED
      BY <2>1, <2>2, <2>3
  <1>4. Same(Telnet(x, ch), Telnet(y, ch))
    <2> DEFINE u == Telnet(x, ch)
               v == Telnet(y, ch)
    <2>1. u.state = v.state /\ (u.state = "opt" => u.cmd = v.cmd)
      BY <1>1, <1>3
    <2> QED
      BY <2>1 DEF Same
  <1> QED
    BY <1>2, <1>4

LEMMA NewLineTyped ==
  ASSUME NEW T
  PROVE  NewLine \in TelState(T)
  <1>1. <<>> \in Seq(T) /\ <<>> \in Seq(Seq(Words(T))) /\ "none" \in Words(T)
    BY DEF Words
  <1> QED
    BY <1>1 DEF NewLine, TelState

(* The fold of TearsCommand, a run that never begins a new line.             *)

HearTurns(s, it) ==
  it = [K \in SUBSET DOMAIN s |->
          IF K = {} THEN NewLine ELSE Telnet(it[K \ {Max(K)}], s[Max(K)])]
HearRun(s, p) ==
  /\ p[0] = NewLine
  /\ \A k \in 1..Len(s) : p[k] = Telnet(p[k - 1], s[k])

LEMMA HearIsFold ==
  ASSUME NEW s
  PROVE  FoldLeft(Telnet, NewLine, s) = (CHOOSE it : HearTurns(s, it))[DOMAIN s]
  BY Zenon DEF FoldLeft, MapThenFoldSet, HearTurns

LEMMA HearHasRun ==
  ASSUME NEW T, NEW s \in Seq(T)
  PROVE  \E p : /\ HearRun(s, p)
                /\ \A k \in 0..Len(s) : p[k] \in TelState(T)
                /\ FoldLeft(Telnet, NewLine, s) = p[Len(s)]
  <1> DEFINE n == Len(s)
             C == TelState(T)
             f == [k \in 1..n |-> [c \in C |-> Telnet(c, s[k])]]
             all == CHOOSE it : HearTurns(s, it)
             p == [k \in 0..n |-> all[1..k]]
  <1>1. n \in Nat /\ DOMAIN s = 1..n /\ NewLine \in C
    BY NewLineTyped
  <1>2. \A k \in 1..n, c \in C : Telnet(c, s[k]) \in C
    <2> SUFFICES ASSUME NEW k \in 1..n, NEW c \in C PROVE Telnet(c, s[k]) \in C
      OBVIOUS
    <2>1. s[k] \in T
      OBVIOUS
    <2>2. Heard(T, c, s[k], Telnet(c, s[k]))
      BY <2>1, TelnetHears
    <2> QED
      BY <2>2 DEF Heard
  <1>3. f \in [1..n -> [C -> C]]
    BY <1>2
  <1>4. PICK it \in [SUBSET (1..n) -> C] : Turns(f, NewLine, n, it)
    <2> HIDE DEF f, n, C
    <2>1. HasTurns(C, f, NewLine, n)
      BY <1>1, <1>3, TurnsExist
    <2> QED
      BY <2>1 DEF HasTurns
  <1>5. HearTurns(s, it)
    <2>1. ASSUME NEW K \in SUBSET (1..n), K # {}
          PROVE  f[Max(K)][it[K \ {Max(K)}]] = Telnet(it[K \ {Max(K)}], s[Max(K)])
      <3>1. Max(K) \in 1..n /\ K \ {Max(K)} \in SUBSET (1..n)
        BY <1>1, <2>1, MaxOfSet, Zenon
      <3> HIDE DEF C
      <3>2. it[K \ {Max(K)}] \in C
        BY <3>1
      <3> QED
        BY <3>1, <3>2
    <2> HIDE DEF f, n
    <2>2. it = [K \in SUBSET (1..n) |-> IF K = {} THEN NewLine ELSE f[Max(K)][it[K \ {Max(K)}]]]
      BY <1>4, Zenon DEF Turns
    <2>3. it = [K \in SUBSET (1..n) |-> IF K = {} THEN NewLine
                                        ELSE Telnet(it[K \ {Max(K)}], s[Max(K)])]
      BY ONLY <2>1, <2>2, Zenon
    <2> QED
      BY <1>1, <2>3, Zenon DEF HearTurns
  <1>6. HearTurns(s, all)
    BY <1>5
  <1>7. FoldLeft(Telnet, NewLine, s) = all[1..n]
    <2>1. FoldLeft(Telnet, NewLine, s) = all[DOMAIN s]
      BY HearIsFold
    <2> QED
      BY <1>1, <2>1
  <1> HIDE DEF f, n, all
  <1>8. \A K \in SUBSET (1..n) : all[K] = IF K = {} THEN NewLine
                                          ELSE Telnet(all[K \ {Max(K)}], s[Max(K)])
    BY <1>1, <1>6, Zenon DEF HearTurns
  <1>9. p[0] = NewLine
    <2>1. 1..0 = {} /\ 0 \in 0..n
      BY <1>1
    <2> QED
      BY <1>8, <2>1, Zenon
  <1>10. ASSUME NEW k \in 1..n PROVE p[k] = Telnet(p[k - 1], s[k])
    <2>1. k \in 0..n /\ k - 1 \in 0..n
      BY <1>1
    <2>2. p[k] = all[1..k] /\ p[k - 1] = all[1 .. k - 1]
      BY <2>1
    <2> HIDE DEF p
    <2>3. all[1..k] = Telnet(all[1 .. k - 1], s[k])
      BY <1>1, <1>8, PrefixMax, Zenon
    <2> QED
      BY <2>2, <2>3
  <1>11. n \in 0..n /\ p[n] = all[1..n]
    BY <1>1
  <1> HIDE DEF p, C
  <1>12. \A k \in 0..n : p[k] \in C
    <2>1. \A k \in 1..n : p[k - 1] \in C => p[k] \in C
      BY <1>2, <1>10
    <2> QED
      BY ONLY <1>1, <1>9, <2>1, RunTyped, Zenon
  <1> QED
    BY <1>7, <1>9, <1>10, <1>11, <1>12, Zenon DEF HearRun, n, C

-----------------------------------------------------------------------------
(* A caller of fd_telgets that waits, character by character: t[c] is what it*)
(* has after c of them, and Final what it has in the end.                    *)

TelRunState(T) == [lines : Seq(Seq(T)), replies : Seq(Seq(Words(T))), cur : TelState(T)]
HearChar(x, ch) ==
  LET y == Telnet(x.cur, ch)
  IN  IF y.done THEN [lines |-> Append(x.lines, y.line), replies |-> x.replies \o y.replies,
                      cur |-> NewLine]
      ELSE [lines |-> x.lines, replies |-> x.replies, cur |-> y]
TelRun(flat, t) ==
  /\ t[0] = [lines |-> <<>>, replies |-> <<>>, cur |-> NewLine]
  /\ \A c \in 1..Len(flat) : t[c] = HearChar(t[c - 1], flat[c])
Final(x) ==
  [lines |-> IF x.cur.line = <<>> THEN x.lines ELSE Append(x.lines, x.cur.line),
   replies |-> x.replies \o x.cur.replies]

LEMMA TelnetTyped ==
  ASSUME NEW T, NEW x \in TelState(T), NEW ch \in T
  PROVE  Telnet(x, ch) \in TelState(T)
  <1>1. Heard(T, x, ch, Telnet(x, ch))
    BY TelnetHears
  <1> QED
    BY <1>1 DEF Heard

LEMMA HearCharTyped ==
  ASSUME NEW T, NEW x \in TelRunState(T), NEW ch \in T
  PROVE  HearChar(x, ch) \in TelRunState(T)
  <1> DEFINE y == Telnet(x.cur, ch)
  <1>1. x.lines \in Seq(Seq(T)) /\ x.replies \in Seq(Seq(Words(T))) /\ x.cur \in TelState(T)
    BY DEF TelRunState
  <1>2. y \in TelState(T)
    BY <1>1, TelnetTyped
  <1> HIDE DEF y
  <1>3. y.line \in Seq(T) /\ y.replies \in Seq(Seq(Words(T)))
    BY <1>2 DEF TelState
  <1>4. Append(x.lines, y.line) \in Seq(Seq(T)) /\ x.replies \o y.replies \in Seq(Seq(Words(T)))
    BY <1>1, <1>3
  <1>5. HearChar(x, ch) = IF y.done THEN [lines |-> Append(x.lines, y.line),
                                          replies |-> x.replies \o y.replies, cur |-> NewLine]
                          ELSE [lines |-> x.lines, replies |-> x.replies, cur |-> y]
    BY DEF HearChar, y
  <1> QED
    BY <1>1, <1>2, <1>4, <1>5, NewLineTyped DEF TelRunState

LEMMA TelRunExists ==
  ASSUME NEW T, NEW flat \in Seq(T)
  PROVE  \E t : TelRun(flat, t) /\ \A c \in 0..Len(flat) : t[c] \in TelRunState(T)
  <1> DEFINE n == Len(flat)
             C == TelRunState(T)
             f == [k \in 1..n |-> [x \in C |-> HearChar(x, flat[k])]]
             a == [lines |-> <<>>, replies |-> <<>>, cur |-> NewLine]
  <1>1. n \in Nat /\ \A k \in 1..n : flat[k] \in T
    OBVIOUS
  <1>2. a \in C
    BY NewLineTyped DEF TelRunState
  <1>3. \A k \in 1..n : \A x \in C : HearChar(x, flat[k]) \in C
    BY <1>1, HearCharTyped
  <1> HIDE DEF n, C, a
  <1>4. f \in [1..n -> [C -> C]]
    BY <1>3
  <1> HIDE DEF f
  <1>5. PICK p \in [0..n -> C] : p[0] = a /\ \A k \in 1..n : p[k] = f[k][p[k - 1]]
    <2>1. HasRun(C, a, n, f)
      BY <1>1, <1>2, <1>4, RunExists
    <2> QED
      BY <2>1, Zenon DEF HasRun
  <1>6. \A k \in 1..n : p[k] = HearChar(p[k - 1], flat[k])
    <2>1. \A k \in 1..n : k - 1 \in 0..n
      BY <1>1
    <2>2. \A k \in 1..n : p[k - 1] \in C
      BY <2>1
    <2> QED
      BY <1>5, <2>2, Zenon DEF f
  <1> QED
    BY <1>5, <1>6, Zenon DEF TelRun, a, n, C

(* Between two calls nothing of a line is held, and no call has ended.       *)
LEMMA NotDone ==
  ASSUME NEW T, NEW flat \in Seq(T), NEW t, TelRun(flat, t)
  PROVE  \A c \in 0..Len(flat) : ~t[c].cur.done
  <1>1. ~t[0].cur.done
    BY DEF TelRun, NewLine
  <1>2. ASSUME NEW c \in 1..Len(flat) PROVE ~t[c].cur.done
    <2> DEFINE y == Telnet(t[c - 1].cur, flat[c])
    <2>1. t[c] = HearChar(t[c - 1], flat[c])
      BY DEF TelRun
    <2>2. t[c].cur = IF y.done THEN NewLine ELSE y
      BY <2>1 DEF HearChar
    <2> HIDE DEF y
    <2> QED
      BY <2>2 DEF NewLine
  <1>3. \A c \in 0..Len(flat) : c = 0 \/ c \in 1..Len(flat)
    OBVIOUS
  <1> QED
    BY <1>1, <1>2, <1>3

-----------------------------------------------------------------------------
(* One call of fd_telgets: g is what it holds after n passes.                *)

Hearing(T, fd) == [c : TelState(T), src : Sources(T, fd)]
TelGetsLoop(src, fd, wait, p) ==
  p = [n \in 0..Passes(src, fd) |->
         IF n = 0 THEN [c |-> NewLine, src |-> src] ELSE TelGetsPass(p[n - 1], fd, wait)]
Returned(g) ==
  [line |-> g.c.line, replies |-> g.c.replies, src |-> g.src,
   r |-> IF (g.c.done /\ ~g.c.late) \/ g.c.line # <<>> THEN 1 ELSE 0]

LEMMA TelGetsPassTyped ==
  ASSUME NEW T, NEW fd, NEW wait, NEW g \in Hearing(T, fd)
  PROVE  TelGetsPass(g, fd, wait) \in Hearing(T, fd)
  <1>1. g.c \in TelState(T) /\ g.src \in Sources(T, fd) /\ g.src.buf \in Seq(T)
    BY SourceTyped DEF Hearing
  <1>2. CASE g.c.done
    BY <1>2 DEF TelGetsPass
  <1>3. CASE ~g.c.done /\ g.src.buf # <<>>
    <2>1. Next1(g.src) \in Sources(T, fd)
      <3>1. At(Rest(g.src, fd), 0, Rest(g.src, fd)) /\ Rest(g.src, fd) \in Seq(T)
        BY <1>1, NothingRead, SourceTyped
      <3> QED
        BY <1>1, <1>3, <3>1, CharacterRead DEF NextRead
    <2>2. Head(g.src.buf) \in T
      BY <1>1, <1>3
    <2>3. Telnet(g.c, Head(g.src.buf)) \in TelState(T)
      BY <1>1, <2>2, TelnetTyped
    <2> QED
      BY <1>3, <2>1, <2>3 DEF TelGetsPass, Hearing
  <1>4. CASE ~g.c.done /\ g.src.buf = <<>> /\ wait = 0 /\ g.c.line # <<>>
    <2>1. TelGetsPass(g, fd, wait) = [g EXCEPT !.c = [@ EXCEPT !.done = TRUE]]
      BY <1>4 DEF TelGetsPass
    <2>2. [g.c EXCEPT !.done = TRUE] \in TelState(T)
      BY <1>1, Zenon DEF TelState
    <2> QED
      BY <1>1, <2>1, <2>2, Zenon DEF Hearing
  <1>5. CASE ~g.c.done /\ g.src.buf = <<>> /\ ~(wait = 0 /\ g.c.line # <<>>) /\ More(g.src, fd)
    <2> DEFINE z == [g.c EXCEPT !.done = TRUE, !.late = TRUE]
    <2>1. Refresh(g.src, fd) \in Sources(T, fd)
      BY <1>1, <1>5, ChunkRead
    <2>2. z \in TelState(T)
      BY <1>1, Zenon DEF TelState
    <2>3. \/ TelGetsPass(g, fd, wait) = [g EXCEPT !.src = Refresh(g.src, fd)]
          \/ TelGetsPass(g, fd, wait) = [c |-> z, src |-> Refresh(g.src, fd)]
      BY <1>5 DEF TelGetsPass
    <2> HIDE DEF z
    <2> QED
      BY <1>1, <2>1, <2>2, <2>3 DEF Hearing
  <1>6. CASE ~g.c.done /\ g.src.buf = <<>> /\ ~(wait = 0 /\ g.c.line # <<>>) /\ ~More(g.src, fd)
    BY <1>6 DEF TelGetsPass
  <1> QED
    BY <1>2, <1>3, <1>4, <1>5, <1>6

(* Who does not wait is not late.                                            *)
LEMMA NeverLate ==
  ASSUME NEW T, NEW fd, NEW g \in Hearing(T, fd), ~g.c.late
  PROVE  ~TelGetsPass(g, fd, 0).c.late
  <1>1. g.c \in TelState(T) /\ g.src \in Sources(T, fd) /\ g.src.buf \in Seq(T)
    BY SourceTyped DEF Hearing
  <1>2. ASSUME g.src.buf # <<>> PROVE ~Telnet(g.c, Head(g.src.buf)).late
    <2>1. Head(g.src.buf) \in T
      BY <1>1, <1>2
    <2>2. Heard(T, g.c, Head(g.src.buf), Telnet(g.c, Head(g.src.buf)))
      BY <1>1, <2>1, TelnetHears
    <2> QED
      BY <2>2 DEF Heard
  <1>3. ~[g.c EXCEPT !.done = TRUE].late
    BY <1>1 DEF TelState
  <1>4. \/ TelGetsPass(g, fd, 0) = g
        \/ g.src.buf # <<>> /\ TelGetsPass(g, fd, 0).c = Telnet(g.c, Head(g.src.buf))
        \/ TelGetsPass(g, fd, 0).c = [g.c EXCEPT !.done = TRUE]
        \/ TelGetsPass(g, fd, 0).c = g.c
    BY DEF TelGetsPass, Hearing
  <1> QED
    BY <1>2, <1>3, <1>4

LEMMA TelGetsIsLoop ==
  ASSUME NEW src, NEW fd, NEW wait
  PROVE  TelGets(src, fd, wait)
         = Returned((CHOOSE p : TelGetsLoop(src, fd, wait, p))[Passes(src, fd)])
  BY Zenon DEF TelGets, TelGetsLoop, Returned

TelGetsSteps(T, fd, wait, src, p) ==
  /\ \A n \in 0..Passes(src, fd) : p[n] \in Hearing(T, fd)
  /\ p[0] = [c |-> NewLine, src |-> src]
  /\ \A n \in 1..Passes(src, fd) : p[n] = TelGetsPass(p[n - 1], fd, wait)
  /\ TelGets(src, fd, wait) = Returned(p[Passes(src, fd)])
  /\ wait = 0 => \A n \in 0..Passes(src, fd) : ~p[n].c.late

LEMMA TelGetsHasLoop ==
  ASSUME NEW T, NEW fd, NEW wait \in {0, 1}, NEW src \in Sources(T, fd)
  PROVE  \E p : TelGetsSteps(T, fd, wait, src, p)
  <1> DEFINE N == Passes(src, fd)
             C == Hearing(T, fd)
             a == [c |-> NewLine, src |-> src]
             f == [g \in C |-> TelGetsPass(g, fd, wait)]
             p == CHOOSE q : TelGetsLoop(src, fd, wait, q)
  <1>1. N \in Nat
    BY SourceTyped
  <1>2. a \in C
    BY NewLineTyped DEF Hearing
  <1>3. f \in [C -> C]
    BY TelGetsPassTyped
  <1>4. PICK q \in [0..N -> C] : q = [k \in 0..N |-> IF k = 0 THEN a ELSE f[q[k - 1]]]
    <2> HIDE DEF N, C, a, f
    <2>1. HasLoop(C, a, N, f)
      BY <1>1, <1>2, <1>3, LoopRuns
    <2> QED
      BY <2>1, Zenon DEF HasLoop
  <1>5. TelGetsLoop(src, fd, wait, q)
    <2>1. \A k \in 0..N : k # 0 => q[k - 1] \in C
      <3>1. \A k \in 0..N : k # 0 => k - 1 \in 0..N
        BY <1>1
      <3> HIDE DEF N, C
      <3> QED
        BY <3>1
    <2>2. \A k \in 0..N : k # 0 => f[q[k - 1]] = TelGetsPass(q[k - 1], fd, wait)
      BY <2>1
    <2> HIDE DEF f, N, C
    <2>3. q = [k \in 0..N |-> IF k = 0 THEN a ELSE TelGetsPass(q[k - 1], fd, wait)]
      BY <1>4, <2>2, Zenon
    <2> QED
      BY <2>3, Zenon DEF TelGetsLoop, N
  <1>6. TelGetsLoop(src, fd, wait, p)
    BY <1>5
  <1> HIDE DEF p
  <1>7. p = [k \in 0..N |-> IF k = 0 THEN a ELSE TelGetsPass(p[k - 1], fd, wait)]
    BY <1>6, Zenon DEF TelGetsLoop
  <1> HIDE DEF N, a
  <1>8. \A k \in 1..N : k \in 0..N /\ k # 0
    BY <1>1
  <1>9. p[0] = a /\ \A k \in 1..N : p[k] = TelGetsPass(p[k - 1], fd, wait)
    <2>1. 0 \in 0..N
      BY <1>1
    <2> QED
      BY ONLY Zenon, <1>7, <1>8, <2>1
  <1>10. \A k \in 0..N : p[k] \in C
    <2>1. \A k \in 1..N : p[k - 1] \in C => p[k] \in C
      BY <1>9, TelGetsPassTyped
    <2> HIDE DEF C
    <2> QED
      BY <1>1, <1>2, <1>9, <2>1, RunTyped, Zenon
  <1>11. TelGets(src, fd, wait) = Returned(p[N])
    BY TelGetsIsLoop DEF p, N
  <1>12. ASSUME wait = 0 PROVE \A n \in 0..N : ~p[n].c.late
    <2> DEFINE D == {g \in C : ~g.c.late}
    <2>1. p[0] \in D
      BY <1>2, <1>9 DEF a, NewLine
    <2>2. \A k \in 1..N : p[k - 1] \in D => p[k] \in D
      BY <1>9, <1>12, TelGetsPassTyped, NeverLate
    <2> HIDE DEF D
    <2>3. \A k \in 0..N : p[k] \in D
      BY <1>1, <2>1, <2>2, RunTyped, Zenon
    <2> QED
      BY <2>3 DEF D
  <1> QED
    BY <1>9, <1>10, <1>11, <1>12 DEF N, a, TelGetsSteps

(* It waits for the end of a line, or of the stream, and no pause is too     *)
(* long for it.                                                              *)
Prompt(src, fd) == \A k \in DOMAIN src.chunks[fd] : src.chunks[fd][k] # <<>>
Waiting(flat, t, b, c, g) ==
  \/ /\ ~g.c.done
     /\ t[c].lines = t[b].lines /\ t[c].replies = t[b].replies /\ t[c].cur = g.c
  \/ /\ g.c.done /\ c # b /\ t[c].lines = Append(t[b].lines, g.c.line)
     /\ t[c].replies = t[b].replies \o g.c.replies /\ t[c].cur = NewLine
Waited(n, c, b, g, fd, m) ==
  g.c.done \/ Dry(g.src, fd) \/ n + Len(g.src.chunks[fd]) <= (c - b) + m
WaitInv(flat, t, b, fd, m, n, g) ==
  /\ Prompt(g.src, fd) /\ ~g.c.late
  /\ \E c \in b..Len(flat) : /\ At(flat, c, Rest(g.src, fd)) /\ Waiting(flat, t, b, c, g)
                             /\ Waited(n, c, b, g, fd, m)

LEMMA StaysPrompt ==
  ASSUME NEW T, NEW fd, NEW g \in Hearing(T, fd), Prompt(g.src, fd), ~g.c.late
  PROVE  Prompt(TelGetsPass(g, fd, 1).src, fd) /\ ~TelGetsPass(g, fd, 1).c.late
  <1> DEFINE h == TelGetsPass(g, fd, 1)
  <1>1. /\ g.c \in TelState(T) /\ g.src \in Sources(T, fd) /\ g.src.buf \in Seq(T)
        /\ g.src.chunks[fd] \in Seq(Seq(T))
    BY SourceTyped DEF Hearing
  <1>2. CASE g.c.done
    BY <1>2 DEF TelGetsPass
  <1>3. CASE ~g.c.done /\ g.src.buf # <<>>
    <2>1. Head(g.src.buf) \in T
      BY <1>1, <1>3
    <2>2. Heard(T, g.c, Head(g.src.buf), Telnet(g.c, Head(g.src.buf)))
      BY <1>1, <2>1, TelnetHears
    <2>3. h = [c |-> Telnet(g.c, Head(g.src.buf)), src |-> Next1(g.src)]
      BY <1>3 DEF TelGetsPass
    <2>4. Next1(g.src).chunks = g.src.chunks
      BY <1>1 DEF Next1, Sources
    <2> QED
      BY <2>2, <2>3, <2>4 DEF Heard, Prompt
  <1>4. CASE ~g.c.done /\ g.src.buf = <<>> /\ ~More(g.src, fd)
    BY <1>4 DEF TelGetsPass
  <1>5. CASE ~g.c.done /\ g.src.buf = <<>> /\ More(g.src, fd)
    <2> DEFINE ss == g.src.chunks[fd]
    <2>1. ss \in Seq(Seq(T)) /\ ss # <<>> /\ \A k \in DOMAIN ss : ss[k] # <<>>
      BY <1>1, <1>5 DEF More, Prompt
    <2>2. Refresh(g.src, fd).chunks[fd] = Tail(ss)
      BY <1>1, <1>5, ChunkRead
    <2> HIDE DEF ss
    <2>3. Head(ss) # <<>> /\ \A k \in DOMAIN Tail(ss) : Tail(ss)[k] # <<>>
      <3>1. 1 \in DOMAIN ss /\ Head(ss) = ss[1]
        BY <2>1
      <3>2. \A k \in DOMAIN Tail(ss) : k + 1 \in DOMAIN ss /\ Tail(ss)[k] = ss[k + 1]
        BY <2>1
      <3> QED
        BY <2>1, <3>1, <3>2
    <2>4. h = [g EXCEPT !.src = Refresh(g.src, fd)]
      BY <1>5, <2>3 DEF TelGetsPass, ss
    <2>5. h.c = g.c /\ h.src = Refresh(g.src, fd)
      BY <2>4 DEF Hearing
    <2> HIDE DEF h
    <2>6. Prompt(h.src, fd) /\ ~h.c.late
      BY <2>2, <2>3, <2>5 DEF Prompt
    <2> QED
      BY <2>6 DEF h
  <1> QED
    BY <1>2, <1>3, <1>4, <1>5

LEMMA WaitingPassIs ==
  ASSUME NEW T, NEW fd, NEW flat \in Seq(T), NEW t, TelRun(flat, t),
         \A c \in 0..Len(flat) : t[c] \in TelRunState(T),
         NEW b \in 0..Len(flat), NEW m \in Nat, NEW n \in Nat,
         NEW g \in Hearing(T, fd), WaitInv(flat, t, b, fd, m, n, g)
  PROVE  WaitInv(flat, t, b, fd, m, n + 1, TelGetsPass(g, fd, 1))
  <1> DEFINE h == TelGetsPass(g, fd, 1)
  <1>1. PICK c \in b..Len(flat) : /\ At(flat, c, Rest(g.src, fd)) /\ Waiting(flat, t, b, c, g)
                                  /\ Waited(n, c, b, g, fd, m)
    BY DEF WaitInv
  <1>7. Prompt(h.src, fd) /\ ~h.c.late
    BY StaysPrompt DEF WaitInv
  <1>2. /\ g.c \in TelState(T) /\ g.src \in Sources(T, fd) /\ g.src.buf \in Seq(T)
        /\ g.src.chunks[fd] \in Seq(Seq(T)) /\ g.c.done \in BOOLEAN
    BY SourceTyped DEF Hearing, TelState
  <1>3. Len(g.src.chunks[fd]) \in Nat /\ Len(flat) \in Nat /\ c \in 0..Len(flat) /\ c \in Nat /\ b \in Nat
    BY <1>2
  <1>4. CASE g.c.done \/ Dry(g.src, fd)
    <2>1. h = g
      BY <1>4 DEF TelGetsPass, Dry
    <2>2. Waited(n + 1, c, b, h, fd, m)
      BY <1>4, <2>1, Zenon DEF Waited
    <2> QED
      BY <1>1, <1>7, <2>1, <2>2 DEF WaitInv
  <1>5. CASE ~g.c.done /\ g.src.buf # <<>>
    <2> DEFINE ch == flat[c + 1]
               y == Telnet(g.c, ch)
    <2>1. /\ c + 1 \in 1..Len(flat) /\ Head(g.src.buf) = ch
          /\ At(flat, c + 1, Rest(Next1(g.src), fd)) /\ Next1(g.src).chunks = g.src.chunks
      <3> DEFINE src == g.src
      <3>1. src \in Sources(T, fd) /\ src.buf # <<>> /\ At(flat, c, Rest(src, fd)) /\ c \in Nat
        BY <1>1, <1>2, <1>3, <1>5
      <3> HIDE DEF src
      <3>2. /\ c + 1 \in 1..Len(flat) /\ Head(src.buf) = flat[c + 1]
            /\ At(flat, c + 1, Rest(Next1(src), fd)) /\ Next1(src).chunks = src.chunks
        <4>1. NextRead(T, fd, src, flat, c)
          BY <3>1, CharacterRead
        <4> QED
          BY <4>1 DEF NextRead
      <3> QED
        BY <3>2 DEF src
    <2>2. t[c].lines = t[b].lines /\ t[c].replies = t[b].replies /\ t[c].cur = g.c
      BY <1>1, <1>5, Zenon DEF Waiting
    <2>3. h = [c |-> y, src |-> Next1(g.src)]
      BY <1>5, <2>1 DEF TelGetsPass
    <2>4. t[c + 1] = HearChar(t[c], ch)
      <3>1. (c + 1) - 1 = c
        BY <1>3
      <3> QED
        BY <2>1, <3>1 DEF TelRun
    <2>5. t[c + 1] = IF y.done THEN [lines |-> Append(t[b].lines, y.line),
                                     replies |-> t[b].replies \o y.replies, cur |-> NewLine]
                     ELSE [lines |-> t[b].lines, replies |-> t[b].replies, cur |-> y]
      BY <2>2, <2>4 DEF HearChar
    <2> HIDE DEF y
    <2>6. h.c = y /\ h.src = Next1(g.src)
      BY <2>3
    <2> HIDE DEF h
    <2>7. y.done \in BOOLEAN
      <3>1. ch \in T
        BY <2>1
      <3>2. y \in TelState(T)
        BY <1>2, <3>1, TelnetTyped DEF y
      <3> QED
        BY <3>2 DEF TelState
    <2>8. Waiting(flat, t, b, c + 1, h)
      <3>1. c + 1 # b
        BY <1>3
      <3>2. CASE y.done
        <4>1. /\ t[c + 1].lines = Append(t[b].lines, y.line)
              /\ t[c + 1].replies = t[b].replies \o y.replies /\ t[c + 1].cur = NewLine
          <5> DEFINE lines == Append(t[b].lines, y.line)
                     replies == t[b].replies \o y.replies
          <5>1. t[c + 1] = [lines |-> lines, replies |-> replies, cur |-> NewLine]
            BY <2>5, <3>2
          <5> HIDE DEF lines, replies
          <5>2. t[c + 1].lines = lines /\ t[c + 1].replies = replies /\ t[c + 1].cur = NewLine
            BY ONLY <5>1
          <5> QED
            BY <5>2 DEF lines, replies
        <4> QED
          BY ONLY <2>6, <3>1, <3>2, <4>1, Zenon DEF Waiting
      <3>3. CASE ~y.done
        <4>1. /\ t[c + 1].lines = t[b].lines /\ t[c + 1].replies = t[b].replies
              /\ t[c + 1].cur = y
          <5>1. t[c + 1] = [lines |-> t[b].lines, replies |-> t[b].replies, cur |-> y]
            BY <2>5, <3>3
          <5> QED
            BY ONLY <5>1
        <4> QED
          BY ONLY <2>6, <3>3, <4>1, Zenon DEF Waiting
      <3> QED
        BY <2>7, <3>2, <3>3
    <2>9. Waited(n + 1, c + 1, b, h, fd, m)
      <3>1. Dry(g.src, fd) = FALSE
        BY <1>5 DEF Dry
      <3>2. n + Len(g.src.chunks[fd]) <= (c - b) + m
        BY <1>1, <1>5, <3>1 DEF Waited
      <3>3. h.src.chunks[fd] = g.src.chunks[fd]
        BY <2>1, <2>6
      <3>4. (n + 1) + Len(h.src.chunks[fd]) <= ((c + 1) - b) + m
        <4> DEFINE x == Len(g.src.chunks[fd])
                   z == Len(h.src.chunks[fd])
        <4>1. x \in Nat /\ z = x /\ n + x <= (c - b) + m
          BY <1>3, <3>2, <3>3
        <4> HIDE DEF x, z
        <4>2. (n + 1) + z <= ((c + 1) - b) + m
          BY <1>3, <4>1
        <4> QED
          BY <4>2, Zenon DEF z
      <3> QED
        BY <3>4, Zenon DEF Waited
    <2>10. c + 1 \in b..Len(flat)
      BY <1>3, <2>1
    <2> QED
      BY <1>7, <2>1, <2>6, <2>8, <2>9, <2>10 DEF WaitInv, h
  <1>6. CASE ~g.c.done /\ g.src.buf = <<>> /\ More(g.src, fd)
    <2>1. /\ Rest(Refresh(g.src, fd), fd) = Rest(g.src, fd)
          /\ Len(Refresh(g.src, fd).chunks[fd]) = Len(g.src.chunks[fd]) - 1
      BY <1>2, <1>6, ChunkRead
    <2>2. h = [g EXCEPT !.src = Refresh(g.src, fd)]
      <3>1. Head(g.src.chunks[fd]) # <<>>
        BY <1>2, <1>6 DEF More, WaitInv, Prompt
      <3> QED
        BY <1>6, <3>1 DEF TelGetsPass
    <2>3. h.c = g.c /\ h.src = Refresh(g.src, fd)
      BY <2>2 DEF Hearing
    <2> HIDE DEF h
    <2>4. Waiting(flat, t, b, c, h)
      BY <1>1, <2>3, Zenon DEF Waiting
    <2>5. Dry(g.src, fd) = FALSE
      BY <1>6 DEF Dry
    <2>6. n + Len(g.src.chunks[fd]) <= (c - b) + m
      BY <1>1, <1>6, <2>5 DEF Waited
    <2>7. (n + 1) + Len(h.src.chunks[fd]) <= (c - b) + m
      <3> DEFINE x == Len(g.src.chunks[fd])
                 z == Len(h.src.chunks[fd])
      <3>1. x \in Nat /\ z = x - 1 /\ n + x <= (c - b) + m
        BY <1>3, <2>1, <2>3, <2>6
      <3> HIDE DEF x, z
      <3>2. (n + 1) + z <= (c - b) + m
        BY <1>3, <3>1
      <3> QED
        BY <3>2, Zenon DEF z
    <2>8. Waited(n + 1, c, b, h, fd, m)
      BY <2>7, Zenon DEF Waited
    <2> QED
      BY <1>1, <1>7, <2>1, <2>3, <2>4, <2>8 DEF WaitInv, h
  <1> QED
    BY <1>4, <1>5, <1>6 DEF Dry

(* What such a call returns: the next line, or what the stream ends with.    *)
GotTel(T, flat, t, b, fd, got) ==
  /\ got.src \in Sources(T, fd) /\ got.line \in Seq(T) /\ got.replies \in Seq(Seq(Words(T)))
  /\ Prompt(got.src, fd)
  /\ \E c \in b..Len(flat) :
       /\ At(flat, c, Rest(got.src, fd))
       /\ \/ /\ got.r = 1 /\ c # b /\ t[c].lines = Append(t[b].lines, got.line)
             /\ t[c].replies = t[b].replies \o got.replies /\ t[c].cur = NewLine
          \/ /\ c = Len(flat) /\ got.r = IF got.line = <<>> THEN 0 ELSE 1
             /\ t[c].lines = t[b].lines /\ t[c].replies = t[b].replies
             /\ t[c].cur.line = got.line /\ t[c].cur.replies = got.replies

LEMMA WaitingTelGetsIs ==
  ASSUME NEW T, NEW fd, NEW flat \in Seq(T), NEW t, TelRun(flat, t),
         \A c \in 0..Len(flat) : t[c] \in TelRunState(T),
         NEW b \in 0..Len(flat), t[b].cur = NewLine,
         NEW src \in Sources(T, fd), At(flat, b, Rest(src, fd)), Prompt(src, fd)
  PROVE  GotTel(T, flat, t, b, fd, TelGets(src, fd, 1))
  <1> DEFINE m == Len(src.chunks[fd])
             N == Passes(src, fd)
  <1>1. m \in Nat /\ N \in Nat /\ N = (Len(flat) - b) + m + 2 /\ Len(flat) \in Nat
    <2>1. m \in Nat /\ N \in Nat /\ N = Len(Rest(src, fd)) + m + 2
      BY SourceTyped
    <2>2. Len(Rest(src, fd)) = Len(flat) - b
      BY DEF At
    <2> HIDE DEF m, N
    <2> QED
      BY <2>1, <2>2
  <1>2. PICK p : /\ \A n \in 0..N : p[n] \in Hearing(T, fd)
                 /\ p[0] = [c |-> NewLine, src |-> src]
                 /\ \A n \in 1..N : p[n] = TelGetsPass(p[n - 1], fd, 1)
                 /\ TelGets(src, fd, 1) = Returned(p[N])
    <2>1. 1 \in {0, 1}
      OBVIOUS
    <2>2. \E p : TelGetsSteps(T, fd, 1, src, p)
      BY ONLY <2>1, src \in Sources(T, fd), TelGetsHasLoop
    <2> QED
      BY ONLY <2>2, Zenon DEF TelGetsSteps, N
  <1>3. WaitInv(flat, t, b, fd, m, 0, p[0])
    <2>1. p[0].c = NewLine /\ p[0].src = src /\ ~NewLine.done /\ ~NewLine.late
      BY <1>2 DEF NewLine
    <2>2. Waiting(flat, t, b, b, p[0])
      BY <2>1 DEF Waiting
    <2>3. Waited(0, b, b, p[0], fd, m)
      <3>1. 0 + m <= (b - b) + m
        BY <1>1
      <3> QED
        BY <2>1, <3>1 DEF Waited
    <2>4. b \in b..Len(flat)
      BY <1>1
    <2> QED
      BY <2>1, <2>2, <2>3, <2>4 DEF WaitInv
  <1> DEFINE Good == {n \in Nat : n <= N => WaitInv(flat, t, b, fd, m, n, p[n])}
  <1>4. 0 \in Good
    BY <1>3
  <1>5. ASSUME NEW n \in Nat, n \in Good PROVE n + 1 \in Good
    <2> SUFFICES ASSUME n + 1 <= N PROVE WaitInv(flat, t, b, fd, m, n + 1, p[n + 1])
      OBVIOUS
    <2>1. n + 1 \in 1..N /\ n \in 0..N /\ (n + 1) - 1 = n /\ n <= N
      BY <1>1
    <2>2. WaitInv(flat, t, b, fd, m, n, p[n]) /\ p[n] \in Hearing(T, fd)
      BY <1>2, <1>5, <2>1
    <2>3. p[n + 1] = TelGetsPass(p[n], fd, 1)
      BY <1>2, <2>1
    <2> HIDE DEF m, N, Good
    <2> QED
      BY <1>1, <2>2, <2>3, WaitingPassIs
  <1> HIDE DEF Good
  <1>6. Nat \subseteq Good
    BY <1>4, <1>5, SetInduction
  <1> HIDE DEF m, N
  <1>7. WaitInv(flat, t, b, fd, m, N, p[N])
    <2>1. N \in Good /\ N <= N
      BY <1>1, <1>6
    <2> QED
      BY <2>1 DEF Good
  <1> DEFINE g == p[N]
             got == TelGets(src, fd, 1)
  <1>8. g \in Hearing(T, fd) /\ got = Returned(g)
    BY <1>1, <1>2
  <1> HIDE DEF g, got
  <1>9. PICK c \in b..Len(flat) : /\ At(flat, c, Rest(g.src, fd)) /\ Waiting(flat, t, b, c, g)
                                  /\ Waited(N, c, b, g, fd, m)
    BY <1>7 DEF WaitInv, g
  <1>16. Prompt(g.src, fd) /\ ~g.c.late
    BY <1>7 DEF WaitInv, g
  <1>10. g.c.done \/ Dry(g.src, fd)
    <2> DEFINE x == Len(g.src.chunks[fd])
    <2>1. x \in Nat
      BY <1>8, SourceTyped DEF Hearing
    <2> HIDE DEF x
    <2>2. ~(N + x <= (c - b) + m)
      BY <1>1, <2>1
    <2> QED
      BY <1>9, <2>2 DEF Waited, x
  <1>11. /\ g.c \in TelState(T) /\ g.src \in Sources(T, fd)
         /\ g.c.line \in Seq(T) /\ g.c.replies \in Seq(Seq(Words(T)))
    BY <1>8 DEF Hearing, TelState
  <1>12. /\ got.line = g.c.line /\ got.replies = g.c.replies /\ got.src = g.src
         /\ got.r = IF g.c.done \/ g.c.line # <<>> THEN 1 ELSE 0
    BY <1>8, <1>16 DEF Returned
  <1>13. /\ got.src \in Sources(T, fd) /\ got.line \in Seq(T)
          /\ got.replies \in Seq(Seq(Words(T))) /\ Prompt(got.src, fd)
          /\ c \in b..Len(flat) /\ At(flat, c, Rest(got.src, fd))
    BY <1>9, <1>11, <1>12, <1>16
  <1>14. CASE g.c.done
    <2>1. /\ got.r = 1 /\ c # b /\ t[c].lines = Append(t[b].lines, got.line)
          /\ t[c].replies = t[b].replies \o got.replies /\ t[c].cur = NewLine
      BY <1>9, <1>12, <1>14, Zenon DEF Waiting
    <2> QED
      BY <1>13, <2>1, Zenon DEF GotTel, got
  <1>15. CASE ~g.c.done
    <2>1. t[c].lines = t[b].lines /\ t[c].replies = t[b].replies /\ t[c].cur = g.c
      BY <1>9, <1>15, Zenon DEF Waiting
    <2>2. c = Len(flat)
      <3> DEFINE s == g.src
      <3>1. s \in Sources(T, fd) /\ s.buf = <<>> /\ ~More(s, fd) /\ At(flat, c, Rest(s, fd)) /\ c \in Nat
        BY <1>1, <1>9, <1>10, <1>11, <1>15 DEF Dry
      <3> HIDE DEF s
      <3> QED
        BY <3>1, AllRead
    <2>3. /\ c = Len(flat) /\ got.r = IF got.line = <<>> THEN 0 ELSE 1
          /\ t[c].lines = t[b].lines /\ t[c].replies = t[b].replies
          /\ t[c].cur.line = got.line /\ t[c].cur.replies = got.replies
      BY <1>12, <1>15, <2>1, <2>2
    <2> QED
      BY <1>13, <2>3, Zenon DEF GotTel, got
  <1> QED
    BY <1>14, <1>15

-----------------------------------------------------------------------------
(* The caller: a is what it holds after n calls.                             *)

TelCaller(T, fd) ==
  [lines : Seq(Seq(T)), replies : Seq(Seq(Words(T))), src : Sources(T, fd), ended : BOOLEAN]
TelCallLoop(src, fd, wait, p) ==
  p = [n \in 0..Passes(src, fd) |->
         IF n = 0 THEN [lines |-> <<>>, replies |-> <<>>, src |-> src, ended |-> FALSE]
         ELSE TelCall(p[n - 1], fd, wait)]
Heap(a) == [lines |-> a.lines, replies |-> a.replies]

LEMMA TelGetsTyped ==
  ASSUME NEW T, NEW fd, NEW wait \in {0, 1}, NEW src \in Sources(T, fd)
  PROVE  /\ TelGets(src, fd, wait).line \in Seq(T) /\ TelGets(src, fd, wait).src \in Sources(T, fd)
         /\ TelGets(src, fd, wait).replies \in Seq(Seq(Words(T)))
  <1>1. PICK p : /\ \A n \in 0..Passes(src, fd) : p[n] \in Hearing(T, fd)
                 /\ p[0] = [c |-> NewLine, src |-> src]
                 /\ \A n \in 1..Passes(src, fd) : p[n] = TelGetsPass(p[n - 1], fd, wait)
                 /\ TelGets(src, fd, wait) = Returned(p[Passes(src, fd)])
    <2>1. \E p : TelGetsSteps(T, fd, wait, src, p)
      BY ONLY wait \in {0, 1}, src \in Sources(T, fd), TelGetsHasLoop
    <2> QED
      BY ONLY <2>1, Zenon DEF TelGetsSteps
  <1>2. Passes(src, fd) \in 0..Passes(src, fd)
    <2>1. Passes(src, fd) \in Nat
      BY SourceTyped
    <2> QED
      BY <2>1
  <1> DEFINE g == p[Passes(src, fd)]
  <1>3. g \in Hearing(T, fd) /\ TelGets(src, fd, wait) = Returned(g)
    BY <1>1, <1>2
  <1> HIDE DEF g
  <1>4. g.c.line \in Seq(T) /\ g.c.replies \in Seq(Seq(Words(T))) /\ g.src \in Sources(T, fd)
    BY <1>3 DEF Hearing, TelState
  <1> QED
    BY <1>3, <1>4 DEF Returned

LEMMA TelCallTyped ==
  ASSUME NEW T, NEW fd, NEW wait \in {0, 1}, NEW a \in TelCaller(T, fd)
  PROVE  TelCall(a, fd, wait) \in TelCaller(T, fd)
  <1> DEFINE got == TelGets(a.src, fd, wait)
  <1>1. /\ a.lines \in Seq(Seq(T)) /\ a.src \in Sources(T, fd) /\ a.ended \in BOOLEAN
        /\ a.replies \in Seq(Seq(Words(T)))
    BY DEF TelCaller
  <1>2. got.line \in Seq(T) /\ got.src \in Sources(T, fd) /\ got.replies \in Seq(Seq(Words(T)))
    BY <1>1, TelGetsTyped
  <1>3. TelCall(a, fd, wait) =
          IF a.ended THEN a
          ELSE [lines |-> IF got.r = 0 THEN a.lines ELSE Append(a.lines, got.line),
                replies |-> a.replies \o got.replies, src |-> got.src, ended |-> got.r = 0]
    BY DEF TelCall, FdTelgets
  <1> HIDE DEF got
  <1>4. Append(a.lines, got.line) \in Seq(Seq(T)) /\ a.replies \o got.replies \in Seq(Seq(Words(T)))
    BY <1>1, <1>2
  <1> QED
    BY <1>1, <1>2, <1>3, <1>4 DEF TelCaller

LEMMA AllTelnetIsLoop ==
  ASSUME NEW src, NEW fd, NEW wait
  PROVE  AllTelnet(src, fd, wait)
         = Heap((CHOOSE p : TelCallLoop(src, fd, wait, p))[Passes(src, fd)])
  BY Zenon DEF AllTelnet, TelCallLoop, Heap

AllTelnetSteps(T, fd, wait, src, p) ==
  /\ \A n \in 0..Passes(src, fd) : p[n] \in TelCaller(T, fd)
  /\ p[0] = [lines |-> <<>>, replies |-> <<>>, src |-> src, ended |-> FALSE]
  /\ \A n \in 1..Passes(src, fd) : p[n] = TelCall(p[n - 1], fd, wait)
  /\ AllTelnet(src, fd, wait) = Heap(p[Passes(src, fd)])

LEMMA AllTelnetHasLoop ==
  ASSUME NEW T, NEW fd, NEW wait \in {0, 1}, NEW src \in Sources(T, fd)
  PROVE  \E p : AllTelnetSteps(T, fd, wait, src, p)
  <1> DEFINE N == Passes(src, fd)
             C == TelCaller(T, fd)
             a == [lines |-> <<>>, replies |-> <<>>, src |-> src, ended |-> FALSE]
             f == [g \in C |-> TelCall(g, fd, wait)]
             p == CHOOSE q : TelCallLoop(src, fd, wait, q)
  <1>1. N \in Nat
    BY SourceTyped
  <1>2. a \in C
    <2>1. <<>> \in Seq(Seq(T)) /\ <<>> \in Seq(Seq(Words(T)))
      OBVIOUS
    <2> QED
      BY <2>1 DEF TelCaller
  <1>3. f \in [C -> C]
    BY TelCallTyped
  <1>4. PICK q \in [0..N -> C] : q = [k \in 0..N |-> IF k = 0 THEN a ELSE f[q[k - 1]]]
    <2> HIDE DEF N, C, a, f
    <2>1. HasLoop(C, a, N, f)
      BY <1>1, <1>2, <1>3, LoopRuns
    <2> QED
      BY <2>1, Zenon DEF HasLoop
  <1>5. TelCallLoop(src, fd, wait, q)
    <2>1. \A k \in 0..N : k # 0 => q[k - 1] \in C
      <3>1. \A k \in 0..N : k # 0 => k - 1 \in 0..N
        BY <1>1
      <3> HIDE DEF N, C
      <3> QED
        BY <3>1
    <2>2. \A k \in 0..N : k # 0 => f[q[k - 1]] = TelCall(q[k - 1], fd, wait)
      BY <2>1
    <2> HIDE DEF f, N, C
    <2>3. q = [k \in 0..N |-> IF k = 0 THEN a ELSE TelCall(q[k - 1], fd, wait)]
      BY <1>4, <2>2, Zenon
    <2> QED
      BY <2>3, Zenon DEF TelCallLoop, N
  <1>6. TelCallLoop(src, fd, wait, p)
    BY <1>5
  <1> HIDE DEF p
  <1>7. p = [k \in 0..N |-> IF k = 0 THEN a ELSE TelCall(p[k - 1], fd, wait)]
    BY <1>6, Zenon DEF TelCallLoop
  <1> HIDE DEF N, a
  <1>8. \A k \in 1..N : k \in 0..N /\ k # 0
    BY <1>1
  <1>9. p[0] = a /\ \A k \in 1..N : p[k] = TelCall(p[k - 1], fd, wait)
    <2>1. 0 \in 0..N
      BY <1>1
    <2> QED
      BY ONLY Zenon, <1>7, <1>8, <2>1
  <1>10. \A k \in 0..N : p[k] \in C
    <2>1. \A k \in 1..N : p[k - 1] \in C => p[k] \in C
      BY <1>9, TelCallTyped
    <2> HIDE DEF C
    <2> QED
      BY <1>1, <1>2, <1>9, <2>1, RunTyped, Zenon
  <1>11. AllTelnet(src, fd, wait) = Heap(p[N])
    BY AllTelnetIsLoop DEF p, N
  <1> QED
    BY <1>9, <1>10, <1>11 DEF N, a, AllTelnetSteps

(* A line that is under way leaves a place in the buffer.                    *)
Fits(x) == Len(x.line) <= BufLen /\ (x.done \/ Len(x.line) < BufLen)

LEMMA TelnetFits ==
  ASSUME NEW T, NEW x \in TelState(T), Fits(x), ~x.done, NEW ch \in T
  PROVE  Fits(Telnet(x, ch))
  <1> DEFINE y == Telnet(x, ch)
             line == Append(x.line, ch)
  <1>1. x.line \in Seq(T) /\ BufLen \in Nat \ {0} /\ Len(x.line) < BufLen
    BY BufAssumption DEF TelState, Fits
  <1>2. CASE x.state \in {"cmd", "opt"} \/ ch \in {"iac", "nul", "cr"}
    <2>1. Adds(x, ch) = <<>>
      BY <1>2 DEF Adds
    <2>2. y.line = x.line \o <<>>
      BY <2>1, TelnetHears DEF Heard
    <2> HIDE DEF y
    <2>3. Len(y.line) = Len(x.line)
      BY ONLY <1>1, <2>2
    <2> QED
      BY <1>1, <2>3 DEF Fits, y
  <1>3. CASE ~(x.state \in {"cmd", "opt"} \/ ch \in {"iac", "nul", "cr"})
    <2>1. y = [x EXCEPT !.line = line, !.done = Full(line)]
      BY <1>3 DEF Telnet
    <2>2. line \in Seq(T) /\ Len(line) = Len(x.line) + 1
      BY <1>1
    <2> HIDE DEF y, line
    <2>3. y.line = line /\ y.done = Full(line)
      BY <2>1 DEF TelState
    <2>4. line # <<>> /\ (Len(line) = BufLen => Full(line))
      BY <1>1, <2>2 DEF Full
    <2>5. Len(line) <= BufLen /\ (Len(line) # BufLen => Len(line) < BufLen)
      BY <1>1, <2>2
    <2> QED
      BY <2>3, <2>4, <2>5 DEF Fits, y
  <1> QED
    BY <1>2, <1>3

LEMMA PassFits ==
  ASSUME NEW T, NEW fd, NEW wait, NEW g \in Hearing(T, fd), Fits(g.c)
  PROVE  Fits(TelGetsPass(g, fd, wait).c)
  <1> DEFINE h == TelGetsPass(g, fd, wait)
  <1>1. g.c \in TelState(T) /\ g.src \in Sources(T, fd) /\ g.src.buf \in Seq(T)
    BY SourceTyped DEF Hearing
  <1>2. CASE ~g.c.done /\ g.src.buf # <<>>
    <2>1. Head(g.src.buf) \in T
      BY <1>1, <1>2
    <2>2. Fits(Telnet(g.c, Head(g.src.buf)))
      BY <1>1, <1>2, <2>1, TelnetFits
    <2> QED
      BY <1>2, <2>2 DEF TelGetsPass
  <1>3. CASE g.c.done \/ g.src.buf = <<>>
    <2>1. h.c = g.c \/ h.c = [g.c EXCEPT !.done = TRUE] \/ h.c = [g.c EXCEPT !.done = TRUE, !.late = TRUE]
      BY <1>3 DEF TelGetsPass, Hearing
    <2>2. h.c.line = g.c.line /\ (h.c.done \/ h.c.done = g.c.done)
      BY <1>1, <2>1, Zenon DEF TelState
    <2> QED
      BY <2>2 DEF Fits
  <1> QED
    BY <1>2, <1>3

LEMMA TelGetsFits ==
  ASSUME NEW T, NEW fd, NEW wait \in {0, 1}, NEW src \in Sources(T, fd)
  PROVE  Len(TelGets(src, fd, wait).line) <= BufLen
  <1> DEFINE N == Passes(src, fd)
             D == {g \in Hearing(T, fd) : Fits(g.c)}
  <1>1. PICK p : /\ \A n \in 0..N : p[n] \in Hearing(T, fd)
                 /\ p[0] = [c |-> NewLine, src |-> src]
                 /\ \A n \in 1..N : p[n] = TelGetsPass(p[n - 1], fd, wait)
                 /\ TelGets(src, fd, wait) = Returned(p[N])
    <2>1. \E p : TelGetsSteps(T, fd, wait, src, p)
      BY ONLY wait \in {0, 1}, src \in Sources(T, fd), TelGetsHasLoop
    <2> QED
      BY ONLY <2>1, Zenon DEF TelGetsSteps, N
  <1>2. N \in Nat
    BY SourceTyped
  <1> HIDE DEF N
  <1>3. p[0] \in D
    <2>1. 0 \in 0..N /\ p[0].c = NewLine /\ NewLine.line = <<>>
      BY <1>1, <1>2 DEF NewLine
    <2> QED
      BY <1>1, <2>1, BufAssumption DEF Fits
  <1>4. \A k \in 1..N : p[k - 1] \in D => p[k] \in D
    <2> SUFFICES ASSUME NEW k \in 1..N, p[k - 1] \in D PROVE p[k] \in D
      OBVIOUS
    <2>1. p[k] = TelGetsPass(p[k - 1], fd, wait) /\ p[k] \in Hearing(T, fd)
      BY <1>1, <1>2
    <2> QED
      BY <2>1, PassFits
  <1>5. p[N] \in D
    <2> HIDE DEF D
    <2>1. \A k \in 0..N : p[k] \in D
      BY <1>2, <1>3, <1>4, RunTyped, Zenon
    <2> QED
      BY <1>2, <2>1
  <1>6. TelGets(src, fd, wait).line = p[N].c.line
    BY <1>1 DEF Returned
  <1> QED
    BY <1>5, <1>6 DEF Fits

LEMMA AllTelnetFits ==
  ASSUME NEW T, NEW fd, NEW wait \in {0, 1}, NEW src \in Sources(T, fd)
  PROVE  /\ AllTelnet(src, fd, wait).lines \in Seq(Seq(T))
         /\ \A k \in DOMAIN AllTelnet(src, fd, wait).lines :
              Len(AllTelnet(src, fd, wait).lines[k]) <= BufLen
  <1> DEFINE N == Passes(src, fd)
             Fit == {line \in Seq(T) : Len(line) <= BufLen}
             D == {a \in TelCaller(T, fd) : a.lines \in Seq(Fit)}
  <1>1. PICK p : /\ \A n \in 0..N : p[n] \in TelCaller(T, fd)
                 /\ p[0] = [lines |-> <<>>, replies |-> <<>>, src |-> src, ended |-> FALSE]
                 /\ \A n \in 1..N : p[n] = TelCall(p[n - 1], fd, wait)
                 /\ AllTelnet(src, fd, wait) = Heap(p[N])
    <2>1. \E p : AllTelnetSteps(T, fd, wait, src, p)
      BY ONLY wait \in {0, 1}, src \in Sources(T, fd), AllTelnetHasLoop
    <2> QED
      BY ONLY <2>1, Zenon DEF AllTelnetSteps, N
  <1>2. N \in Nat
    BY SourceTyped
  <1> HIDE DEF N, Fit
  <1>3. p[0] \in D
    <2>1. 0 \in 0..N /\ p[0].lines = <<>>
      BY <1>1, <1>2
    <2>2. p[0] \in TelCaller(T, fd)
      BY <1>1, <2>1
    <2>3. <<>> \in Seq(Fit)
      OBVIOUS
    <2> QED
      BY <2>1, <2>2, <2>3
  <1>4. \A k \in 1..N : p[k - 1] \in D => p[k] \in D
    <2> SUFFICES ASSUME NEW k \in 1..N, p[k - 1] \in D PROVE p[k] \in D
      OBVIOUS
    <2> DEFINE a == p[k - 1]
               got == TelGets(a.src, fd, wait)
    <2>1. p[k] = TelCall(a, fd, wait) /\ p[k] \in TelCaller(T, fd)
      BY <1>1, <1>2
    <2>2. a.src \in Sources(T, fd) /\ a.lines \in Seq(Fit)
      BY DEF TelCaller
    <2>3. got.line \in Fit
      BY <2>2, TelGetsTyped, TelGetsFits DEF Fit
    <2>4. p[k].lines = a.lines \/ p[k].lines = Append(a.lines, got.line)
      BY <2>1 DEF TelCall, FdTelgets
    <2> HIDE DEF a, got
    <2>5. Append(a.lines, got.line) \in Seq(Fit)
      BY <2>2, <2>3
    <2> QED
      BY <2>1, <2>2, <2>4, <2>5
  <1>5. p[N] \in D
    <2> HIDE DEF D
    <2>1. \A k \in 0..N : p[k] \in D
      BY <1>2, <1>3, <1>4, RunTyped, Zenon
    <2> QED
      BY <1>2, <2>1
  <1>6. AllTelnet(src, fd, wait).lines = p[N].lines
    BY <1>1 DEF Heap
  <1> QED
    BY <1>5, <1>6 DEF Fit, TelCaller

(* A caller that waits.                                                      *)
TelCallInv(flat, t, fd, n, a) ==
  Prompt(a.src, fd) /\ \E c \in 0..Len(flat) :
    /\ At(flat, c, Rest(a.src, fd))
    /\ \/ /\ ~a.ended /\ a.lines = t[c].lines /\ a.replies = t[c].replies
          /\ t[c].cur = NewLine /\ n <= c
       \/ c = Len(flat) /\ Heap(a) = Final(t[c]) /\ (a.ended \/ n <= c + 1)

(* At the end of the stream a call finds nothing.                            *)
LEMMA DryCall ==
  ASSUME NEW T, NEW fd, NEW src \in Sources(T, fd), At(<<>>, 0, Rest(src, fd)),
         Prompt(src, fd)
  PROVE  /\ TelGets(src, fd, 1).r = 0 /\ TelGets(src, fd, 1).replies = <<>>
         /\ At(<<>>, 0, Rest(TelGets(src, fd, 1).src, fd)) /\ Prompt(TelGets(src, fd, 1).src, fd)
  <1> DEFINE got == TelGets(src, fd, 1)
  <1>1. <<>> \in Seq(T)
    OBVIOUS
  <1>2. PICK t : TelRun(<<>>, t) /\ \A c \in 0..Len(<<>>) : t[c] \in TelRunState(T)
    BY <1>1, TelRunExists, Zenon
  <1>3. t[0].cur = NewLine /\ t[0].lines = <<>> /\ t[0].replies = <<>> /\ 0 \in 0..Len(<<>>)
    BY <1>2 DEF TelRun
  <1>4. GotTel(T, <<>>, t, 0, fd, got)
    BY <1>1, <1>2, <1>3, WaitingTelGetsIs, Zenon
  <1> HIDE DEF got
  <1>5. PICK c \in 0..Len(<<>>) :
               /\ At(<<>>, c, Rest(got.src, fd))
               /\ \/ /\ got.r = 1 /\ c # 0 /\ t[c].lines = Append(t[0].lines, got.line)
                     /\ t[c].replies = t[0].replies \o got.replies /\ t[c].cur = NewLine
                  \/ /\ c = Len(<<>>) /\ got.r = IF got.line = <<>> THEN 0 ELSE 1
                     /\ t[c].lines = t[0].lines /\ t[c].replies = t[0].replies
                     /\ t[c].cur.line = got.line /\ t[c].cur.replies = got.replies
    BY <1>4, Zenon DEF GotTel
  <1>9. Prompt(got.src, fd)
    BY <1>4 DEF GotTel
  <1>6. c = 0
    OBVIOUS
  <1>7. got.line = <<>> /\ got.replies = <<>>
    BY <1>3, <1>5, <1>6 DEF NewLine
  <1>8. got.r = 0
    BY <1>5, <1>6, <1>7
  <1> QED
    BY <1>5, <1>6, <1>7, <1>8, <1>9 DEF got

LEMMA WaitingCallIs ==
  ASSUME NEW T, NEW fd, NEW flat \in Seq(T), NEW t, TelRun(flat, t),
         \A c \in 0..Len(flat) : t[c] \in TelRunState(T),
         NEW n \in Nat, NEW a \in TelCaller(T, fd), TelCallInv(flat, t, fd, n, a)
  PROVE  TelCallInv(flat, t, fd, n + 1, TelCall(a, fd, 1))
  <1> DEFINE got == TelGets(a.src, fd, 1)
             h == TelCall(a, fd, 1)
  <1>1. PICK c \in 0..Len(flat) :
               /\ At(flat, c, Rest(a.src, fd))
               /\ \/ /\ ~a.ended /\ a.lines = t[c].lines /\ a.replies = t[c].replies
                     /\ t[c].cur = NewLine /\ n <= c
                  \/ c = Len(flat) /\ Heap(a) = Final(t[c]) /\ (a.ended \/ n <= c + 1)
    BY DEF TelCallInv
  <1>8. Prompt(a.src, fd)
    BY DEF TelCallInv
  <1>2. /\ a.lines \in Seq(Seq(T)) /\ a.src \in Sources(T, fd) /\ a.ended \in BOOLEAN
        /\ a.replies \in Seq(Seq(Words(T)))
    BY DEF TelCaller
  <1>3. h = IF a.ended THEN a
            ELSE [lines |-> IF got.r = 0 THEN a.lines ELSE Append(a.lines, got.line),
                  replies |-> a.replies \o got.replies, src |-> got.src, ended |-> got.r = 0]
    BY DEF TelCall, FdTelgets
  <1> HIDE DEF h
  <1>4. CASE a.ended
    <2>1. h = a
      BY <1>3, <1>4
    <2> QED
      BY <1>1, <1>4, <1>8, <2>1 DEF TelCallInv, h
  <1>5. ASSUME ~a.ended
        PROVE  /\ h.lines = IF got.r = 0 THEN a.lines ELSE Append(a.lines, got.line)
               /\ h.replies = a.replies \o got.replies
               /\ h.src = got.src /\ h.ended = (got.r = 0)
    <2> DEFINE lines == IF got.r = 0 THEN a.lines ELSE Append(a.lines, got.line)
               replies == a.replies \o got.replies
    <2>1. h = [lines |-> lines, replies |-> replies, src |-> got.src, ended |-> got.r = 0]
      BY <1>3, <1>5
    <2> HIDE DEF lines, replies, got
    <2>2. h.lines = lines /\ h.replies = replies /\ h.src = got.src /\ h.ended = (got.r = 0)
      BY ONLY <2>1
    <2> QED
      BY <2>2 DEF lines, replies
  <1>6. CASE ~a.ended /\ a.lines = t[c].lines /\ a.replies = t[c].replies /\ t[c].cur = NewLine /\ n <= c
    <2>1. GotTel(T, flat, t, c, fd, got)
      BY <1>1, <1>2, <1>6, <1>8, WaitingTelGetsIs, Zenon
    <2> HIDE DEF got
    <2>2. PICK d \in c..Len(flat) :
                 /\ At(flat, d, Rest(got.src, fd))
                 /\ \/ /\ got.r = 1 /\ d # c /\ t[d].lines = Append(t[c].lines, got.line)
                       /\ t[d].replies = t[c].replies \o got.replies /\ t[d].cur = NewLine
                    \/ /\ d = Len(flat) /\ got.r = IF got.line = <<>> THEN 0 ELSE 1
                       /\ t[d].lines = t[c].lines /\ t[d].replies = t[c].replies
                       /\ t[d].cur.line = got.line /\ t[d].cur.replies = got.replies
      BY <2>1, Zenon DEF GotTel
    <2>6. Prompt(got.src, fd)
      BY <2>1 DEF GotTel
    <2>3. d \in 0..Len(flat)
      OBVIOUS
    <2>4. CASE /\ got.r = 1 /\ d # c /\ t[d].lines = Append(t[c].lines, got.line)
               /\ t[d].replies = t[c].replies \o got.replies /\ t[d].cur = NewLine
      <3>1. ~h.ended /\ h.lines = t[d].lines /\ h.replies = t[d].replies /\ h.src = got.src
        <4>1. got.r # 0
          BY <2>4
        <4>2. /\ h.lines = Append(a.lines, got.line) /\ h.replies = a.replies \o got.replies
              /\ h.src = got.src /\ ~h.ended
          BY ONLY <1>5, <1>6, <4>1, Zenon
        <4> QED
          BY ONLY <1>6, <2>4, <4>2, Zenon
      <3>2. n + 1 <= d
        BY <1>6, <2>4
      <3>3. At(flat, d, Rest(h.src, fd)) /\ Prompt(h.src, fd)
        BY <2>2, <2>6, <3>1
      <3> QED
        BY <2>3, <2>4, <3>1, <3>2, <3>3, Zenon DEF TelCallInv, h
    <2>5. CASE /\ d = Len(flat) /\ got.r = IF got.line = <<>> THEN 0 ELSE 1
               /\ t[d].lines = t[c].lines /\ t[d].replies = t[c].replies
               /\ t[d].cur.line = got.line /\ t[d].cur.replies = got.replies
      <3>1. /\ h.lines = (IF got.line = <<>> THEN t[d].lines ELSE Append(t[d].lines, got.line))
            /\ h.replies = t[d].replies \o got.replies /\ h.src = got.src
        <4>1. CASE got.line = <<>>
          BY <1>5, <1>6, <2>5, <4>1, Zenon
        <4>2. CASE got.line # <<>>
          <5>1. got.r # 0
            BY <2>5, <4>2
          <5>2. /\ h.lines = Append(a.lines, got.line) /\ h.replies = a.replies \o got.replies
                /\ h.src = got.src
            BY ONLY <1>5, <1>6, <5>1, Zenon
          <5> QED
            BY ONLY <1>6, <2>5, <4>2, <5>2, Zenon
        <4> QED
          BY <4>1, <4>2, Zenon
      <3>2. Heap(h) = Final(t[d])
        BY <2>5, <3>1, Zenon DEF Heap, Final
      <3>3. n + 1 <= d + 1
        BY <1>6
      <3>4. At(flat, d, Rest(h.src, fd)) /\ Prompt(h.src, fd)
        BY <2>2, <2>6, <3>1
      <3> QED
        BY <2>3, <2>5, <3>2, <3>3, <3>4, Zenon DEF TelCallInv, h
    <2> QED
      BY <2>2, <2>4, <2>5, Zenon
  <1>7. CASE ~a.ended /\ c = Len(flat) /\ Heap(a) = Final(t[c])
    <2>1. At(<<>>, 0, Rest(a.src, fd))
      <3>1. Len(Rest(a.src, fd)) = 0
        BY <1>1, <1>7 DEF At
      <3> QED
        BY <3>1 DEF At
    <2>2. got.r = 0 /\ got.replies = <<>> /\ At(<<>>, 0, Rest(got.src, fd))
          /\ Prompt(got.src, fd)
      BY <1>2, <1>8, <2>1, DryCall
    <2> HIDE DEF got
    <2>3. a.replies \o <<>> = a.replies
      <3> DEFINE r == a.replies
      <3>1. r \in Seq(Seq(Words(T)))
        BY <1>2
      <3> HIDE DEF r
      <3>2. r \o <<>> = r
        BY <3>1
      <3> QED
        BY <3>2 DEF r
    <2>4. h.ended /\ h.lines = a.lines /\ h.replies = a.replies /\ h.src = got.src
      BY <1>5, <1>7, <2>2, <2>3, Zenon
    <2>5. Heap(h) = Final(t[c])
      BY <1>7, <2>4 DEF Heap
    <2>6. At(flat, c, Rest(h.src, fd))
      <3>1. Len(Rest(got.src, fd)) = 0
        BY <2>2 DEF At
      <3> QED
        BY <1>7, <2>4, <3>1 DEF At
    <2>7. Prompt(h.src, fd)
      BY <2>2, <2>4
    <2> QED
      BY <1>7, <2>4, <2>5, <2>6, <2>7, Zenon DEF TelCallInv, h
  <1> QED
    BY <1>1, <1>4, <1>6, <1>7

LEMMA WaitingIs ==
  ASSUME NEW T, NEW fd, NEW flat \in Seq(T), NEW t, TelRun(flat, t),
         \A c \in 0..Len(flat) : t[c] \in TelRunState(T),
         NEW src \in Sources(T, fd), Rest(src, fd) = flat, Prompt(src, fd)
  PROVE  AllTelnet(src, fd, 1) = Final(t[Len(flat)])
  <1> DEFINE N == Passes(src, fd)
  <1>1. N \in Nat /\ N > Len(flat) + 1 /\ Len(flat) \in Nat
    <2> DEFINE x == Len(src.chunks[fd])
    <2>1. x \in Nat /\ N \in Nat /\ N = Len(Rest(src, fd)) + x + 2
      <3>1. /\ src.chunks[fd] \in Seq(Seq(T)) /\ Passes(src, fd) \in Nat
            /\ Passes(src, fd) = Len(Rest(src, fd)) + Len(src.chunks[fd]) + 2
        BY ONLY src \in Sources(T, fd), SourceTyped
      <3> QED
        BY ONLY <3>1
    <2>2. Len(Rest(src, fd)) = Len(flat) /\ Len(flat) \in Nat
      OBVIOUS
    <2> HIDE DEF x, N
    <2> QED
      BY <2>1, <2>2
  <1>2. PICK p : /\ \A n \in 0..N : p[n] \in TelCaller(T, fd)
                 /\ p[0] = [lines |-> <<>>, replies |-> <<>>, src |-> src, ended |-> FALSE]
                 /\ \A n \in 1..N : p[n] = TelCall(p[n - 1], fd, 1)
                 /\ AllTelnet(src, fd, 1) = Heap(p[N])
    <2>1. 1 \in {0, 1}
      OBVIOUS
    <2>2. \E p : AllTelnetSteps(T, fd, 1, src, p)
      BY ONLY <2>1, src \in Sources(T, fd), AllTelnetHasLoop
    <2> QED
      BY ONLY <2>2, Zenon DEF AllTelnetSteps, N
  <1> HIDE DEF N
  <1> DEFINE Good == {n \in Nat : n <= N => TelCallInv(flat, t, fd, n, p[n])}
  <1>3. 0 \in Good
    <2>1. At(flat, 0, Rest(src, fd))
      BY NothingRead
    <2>2. /\ t[0].lines = <<>> /\ t[0].replies = <<>> /\ t[0].cur = NewLine
          /\ 0 \in 0..Len(flat) /\ 0 <= 0
      BY <1>1 DEF TelRun
    <2>3. p[0].src = src /\ p[0].lines = <<>> /\ p[0].replies = <<>> /\ ~p[0].ended
      BY <1>2
    <2>4. TelCallInv(flat, t, fd, 0, p[0])
      BY <2>1, <2>2, <2>3 DEF TelCallInv
    <2> QED
      BY <2>4
  <1>4. ASSUME NEW n \in Nat, n \in Good PROVE n + 1 \in Good
    <2> SUFFICES ASSUME n + 1 <= N PROVE TelCallInv(flat, t, fd, n + 1, p[n + 1])
      OBVIOUS
    <2>1. n + 1 \in 1..N /\ n \in 0..N /\ (n + 1) - 1 = n /\ n <= N
      BY <1>1
    <2>2. TelCallInv(flat, t, fd, n, p[n]) /\ p[n] \in TelCaller(T, fd)
      BY <1>2, <1>4, <2>1
    <2>3. p[n + 1] = TelCall(p[n], fd, 1)
      BY <1>2, <2>1
    <2> HIDE DEF Good
    <2> QED
      BY <2>2, <2>3, WaitingCallIs
  <1> HIDE DEF Good
  <1>5. Nat \subseteq Good
    BY <1>3, <1>4, SetInduction
  <1>6. TelCallInv(flat, t, fd, N, p[N])
    <2>1. N \in Good /\ N <= N
      BY <1>1, <1>5
    <2> QED
      BY <2>1 DEF Good
  <1>7. \A c \in 0..Len(flat) : ~(N <= c)
    BY <1>1
  <1>8. Heap(p[N]) = Final(t[Len(flat)])
    BY <1>6, <1>7, Zenon DEF TelCallInv
  <1> QED
    BY <1>2, <1>8

-----------------------------------------------------------------------------
(* A caller that does not wait gets pieces: what counts is the text and what *)
(* was said, up to every character.                                          *)

Text(x) == FlattenSeq(x.lines) \o x.cur.line
Said(x) == x.replies \o x.cur.replies
Tells(T, x, ch, z) ==
  /\ Text(z) = Text(x) \o Adds(x.cur, ch) /\ Said(z) = Said(x) \o Says(x.cur, ch)
  /\ Same(z.cur, Telnet(x.cur, ch))

LEMMA TextTyped ==
  ASSUME NEW T, NEW x \in TelRunState(T)
  PROVE  /\ FlattenSeq(x.lines) \in Seq(T) /\ x.cur.line \in Seq(T) /\ Text(x) \in Seq(T)
         /\ x.replies \in Seq(Seq(Words(T))) /\ x.cur.replies \in Seq(Seq(Words(T)))
         /\ Said(x) \in Seq(Seq(Words(T)))
  <1>1. /\ x.lines \in Seq(Seq(T)) /\ x.replies \in Seq(Seq(Words(T)))
        /\ x.cur.line \in Seq(T) /\ x.cur.replies \in Seq(Seq(Words(T)))
    BY DEF TelRunState, TelState
  <1>2. FlattenSeq(x.lines) \in Seq(T)
    BY <1>1, FlattenTyped
  <1>3. Text(x) \in Seq(T)
    BY <1>1, <1>2 DEF Text
  <1>4. Said(x) \in Seq(Seq(Words(T)))
    BY <1>1 DEF Said
  <1> QED
    BY <1>1, <1>2, <1>3, <1>4

LEMMA HearCharTells ==
  ASSUME NEW T, NEW x \in TelRunState(T), ~x.cur.done, NEW ch \in T
  PROVE  Tells(T, x, ch, HearChar(x, ch))
  <1> DEFINE y == Telnet(x.cur, ch)
             z == HearChar(x, ch)
             adds == Adds(x.cur, ch)
             says == Says(x.cur, ch)
  <1>1. /\ x.lines \in Seq(Seq(T)) /\ x.cur \in TelState(T) /\ FlattenSeq(x.lines) \in Seq(T)
        /\ x.cur.line \in Seq(T)
        /\ x.replies \in Seq(Seq(Words(T))) /\ x.cur.replies \in Seq(Seq(Words(T)))
    BY TextTyped DEF TelRunState
  <1>2. /\ y \in TelState(T) /\ y.line = x.cur.line \o adds /\ y.replies = x.cur.replies \o says
        /\ adds \in Seq(T) /\ says \in Seq(Seq(Words(T)))
        /\ y.done => x.cur.done \/ y.state = "iac"
    <2>1. Heard(T, x.cur, ch, y)
      BY <1>1, TelnetHears
    <2> QED
      BY <2>1 DEF Heard
  <1>3. z = IF y.done THEN [lines |-> Append(x.lines, y.line),
                            replies |-> x.replies \o y.replies, cur |-> NewLine]
            ELSE [lines |-> x.lines, replies |-> x.replies, cur |-> y]
    BY DEF HearChar
  <1> HIDE DEF adds, says, y, z
  <1>4. y.line \in Seq(T) /\ y.replies \in Seq(Seq(Words(T))) /\ y.done \in BOOLEAN
    BY <1>2, Zenon DEF TelState
  <1>5. Text(x) \o adds = FlattenSeq(x.lines) \o y.line
    <2> DEFINE a == FlattenSeq(x.lines)
               b == x.cur.line
    <2>1. a \in Seq(T) /\ b \in Seq(T) /\ adds \in Seq(T) /\ y.line = b \o adds
      BY <1>1, <1>2
    <2> HIDE DEF a, b
    <2>2. (a \o b) \o adds = a \o (b \o adds)
      BY <2>1, ConcatAssociates
    <2> QED
      BY <2>1, <2>2 DEF Text, a, b
  <1>6. Said(x) \o says = x.replies \o y.replies
    <2> DEFINE a == x.replies
               b == x.cur.replies
               S == Seq(Words(T))
    <2>1. a \in Seq(S) /\ b \in Seq(S) /\ says \in Seq(S) /\ y.replies = b \o says
      BY <1>1, <1>2
    <2> HIDE DEF a, b, S
    <2>2. (a \o b) \o says = a \o (b \o says)
      BY <2>1, ConcatAssociates
    <2> QED
      BY <2>1, <2>2 DEF Said, a, b
  <1>7. CASE y.done
    <2> DEFINE lines == Append(x.lines, y.line)
               replies == x.replies \o y.replies
    <2>1. z = [lines |-> lines, replies |-> replies, cur |-> NewLine]
      BY <1>3, <1>7
    <2> HIDE DEF lines, replies
    <2>2. z.lines = lines /\ z.replies = replies /\ z.cur = NewLine
      BY ONLY <2>1
    <2>3. NewLine.line = <<>> /\ NewLine.replies = <<>> /\ NewLine.state = "iac"
      BY DEF NewLine
    <2>4. FlattenSeq(lines) = FlattenSeq(x.lines) \o y.line
      BY <1>1, <1>4, FlattenAppend, Zenon DEF lines
    <2>5. FlattenSeq(lines) \o <<>> = FlattenSeq(lines)
      <3>1. FlattenSeq(x.lines) \o y.line \in Seq(T)
        BY <1>1, <1>4
      <3> QED
        BY <2>4, <3>1, ConcatAssociates
    <2>6. replies \o <<>> = replies
      <3>1. x.replies \o y.replies \in Seq(Seq(Words(T)))
        BY <1>1, <1>4
      <3> QED
        BY <3>1, ConcatAssociates DEF replies
    <2>7. Text(z) = Text(x) \o adds /\ Said(z) = Said(x) \o says
      BY <1>5, <1>6, <2>2, <2>3, <2>4, <2>5, <2>6 DEF Text, Said, replies
    <2>8. Same(z.cur, y)
      BY <1>2, <1>7, <2>2, <2>3 DEF Same
    <2> QED
      BY <2>7, <2>8 DEF Tells, adds, says, y, z
  <1>8. CASE ~y.done
    <2>1. z = [lines |-> x.lines, replies |-> x.replies, cur |-> y]
      BY <1>3, <1>8
    <2>2. z.lines = x.lines /\ z.replies = x.replies /\ z.cur = y
      BY ONLY <2>1
    <2>3. Text(z) = Text(x) \o adds /\ Said(z) = Said(x) \o says
      BY <1>5, <1>6, <2>2, Zenon DEF Text, Said
    <2>4. Same(z.cur, y)
      BY <2>2 DEF Same
    <2> QED
      BY <2>3, <2>4 DEF Tells, adds, says, y, z
  <1> QED
    BY <1>4, <1>7, <1>8

(* In which of the chunks a source stands.                                   *)
Placed(chunks, src, fd, c) ==
  \E j \in 0..Len(chunks) :
    /\ src.chunks[fd] = SubSeq(chunks, j + 1, Len(chunks))
    /\ c + Len(src.buf) = Len(FlattenSeq(SubSeq(chunks, 1, j)))

LEMMA HeadFlat ==
  ASSUME NEW T, NEW chunks \in Seq(Seq(T)), NEW j \in 0..Len(chunks)
  PROVE  /\ FlattenSeq(SubSeq(chunks, 1, j)) \in Seq(T)
         /\ FlattenSeq(SubSeq(chunks, j + 1, Len(chunks))) \in Seq(T)
         /\ FlattenSeq(chunks) = FlattenSeq(SubSeq(chunks, 1, j))
                                 \o FlattenSeq(SubSeq(chunks, j + 1, Len(chunks)))
  <1>1. /\ SubSeq(chunks, 1, j) \in Seq(Seq(T)) /\ SubSeq(chunks, j + 1, Len(chunks)) \in Seq(Seq(T))
    OBVIOUS
  <1>2. chunks = SubSeq(chunks, 1, j) \o SubSeq(chunks, j + 1, Len(chunks))
    <2>1. 1 \in 1 .. Len(chunks) + 1 /\ j \in 1 - 1 .. Len(chunks) /\ Len(chunks) \in j .. Len(chunks)
      OBVIOUS
    <2>2. SubSeq(chunks, 1, j) \o SubSeq(chunks, j + 1, Len(chunks)) = SubSeq(chunks, 1, Len(chunks))
      BY <2>1, ConcatAdjacentSubSeq, Zenon
    <2>3. SubSeq(chunks, 1, Len(chunks)) = chunks
      OBVIOUS
    <2> QED
      BY <2>2, <2>3, Zenon
  <1>3. FlattenSeq(SubSeq(chunks, 1, j) \o SubSeq(chunks, j + 1, Len(chunks)))
        = FlattenSeq(SubSeq(chunks, 1, j)) \o FlattenSeq(SubSeq(chunks, j + 1, Len(chunks)))
    BY <1>1, FlattenConcat, Zenon
  <1> QED
    BY <1>1, <1>2, <1>3, FlattenTyped, Zenon

LEMMA PlacedNext ==
  ASSUME NEW T, NEW chunks \in Seq(Seq(T)), NEW fd, NEW src \in Sources(T, fd),
         src.buf = <<>>, More(src, fd), NEW c \in Nat, Placed(chunks, src, fd, c)
  PROVE  Placed(chunks, Refresh(src, fd), fd, c)
  <1>1. PICK j \in 0..Len(chunks) : /\ src.chunks[fd] = SubSeq(chunks, j + 1, Len(chunks))
                                    /\ c + Len(src.buf) = Len(FlattenSeq(SubSeq(chunks, 1, j)))
    BY DEF Placed
  <1>2. Len(chunks) \in Nat /\ j \in Nat /\ j <= Len(chunks)
    OBVIOUS
  <1>3. j # Len(chunks)
    <2>1. SubSeq(chunks, Len(chunks) + 1, Len(chunks)) = <<>>
      BY <1>2
    <2> QED
      BY <1>1, <2>1 DEF More
  <1>4. j + 1 \in 1..Len(chunks) /\ j + 1 \in 0..Len(chunks)
    BY <1>2, <1>3
  <1> DEFINE rest == SubSeq(chunks, j + 1, Len(chunks))
             s == chunks[j + 1]
             pre == SubSeq(chunks, 1, j)
  <1>5. s \in Seq(T) /\ pre \in Seq(Seq(T))
    BY <1>2, <1>4
  <1>6. Head(rest) = s /\ Tail(rest) = SubSeq(chunks, (j + 1) + 1, Len(chunks))
    <2>1. Head(rest) = s
      BY <1>2, <1>4
    <2>2. Tail(rest) = SubSeq(chunks, (j + 1) + 1, Len(chunks))
      BY <1>2, <1>4
    <2> QED
      BY <2>1, <2>2, Zenon
  <1>7. SubSeq(chunks, 1, j + 1) = Append(pre, s)
    BY <1>2, <1>4
  <1>8. Refresh(src, fd).buf = s /\ Refresh(src, fd).chunks[fd] = SubSeq(chunks, (j + 1) + 1, Len(chunks))
    <2>1. /\ Refresh(src, fd).buf = Head(src.chunks[fd])
          /\ Refresh(src, fd).chunks[fd] = Tail(src.chunks[fd])
      BY ChunkRead
    <2> QED
      BY <1>1, <1>6, <2>1, Zenon
  <1> HIDE DEF s, pre, rest
  <1>9. FlattenSeq(SubSeq(chunks, 1, j + 1)) = FlattenSeq(pre) \o s /\ FlattenSeq(pre) \in Seq(T)
    BY <1>5, <1>7, FlattenAppend, FlattenTyped, Zenon
  <1>10. c = Len(FlattenSeq(pre))
    BY <1>1 DEF pre
  <1>11. c + Len(s) = Len(FlattenSeq(SubSeq(chunks, 1, j + 1)))
    <2> DEFINE f == FlattenSeq(pre)
    <2>1. f \in Seq(T) /\ c = Len(f) /\ FlattenSeq(SubSeq(chunks, 1, j + 1)) = f \o s
      BY <1>9, <1>10
    <2> HIDE DEF f
    <2>2. Len(f \o s) = Len(f) + Len(s)
      BY <1>5, <2>1
    <2> QED
      BY <2>1, <2>2
  <1> QED
    BY <1>4, <1>8, <1>11 DEF Placed

(* The state after c characters is the same in the run and in the fold.      *)
StateAfter(s) == FoldLeft(Telnet, NewLine, s).state

LEMMA FoldIsRun ==
  ASSUME NEW T, NEW flat \in Seq(T), NEW t, TelRun(flat, t),
         \A c \in 0..Len(flat) : t[c] \in TelRunState(T),
         NEW pre \in Seq(T), NEW rest \in Seq(T), flat = pre \o rest
  PROVE  StateAfter(pre) = t[Len(pre)].cur.state
  <1> DEFINE n == Len(pre)
  <1>1. n \in Nat /\ n <= Len(flat) /\ \A k \in 1..n : pre[k] = flat[k] /\ pre[k] \in T
    OBVIOUS
  <1>2. PICK p : /\ HearRun(pre, p) /\ \A k \in 0..n : p[k] \in TelState(T)
                 /\ FoldLeft(Telnet, NewLine, pre) = p[n]
    BY HearHasRun
  <1> HIDE DEF n
  <1> DEFINE Good == {k \in Nat : k <= n => Same(p[k], t[k].cur)}
  <1>3. 0 \in Good
    <2>1. p[0] = NewLine /\ t[0].cur = NewLine
      BY <1>2 DEF HearRun, TelRun
    <2> QED
      BY <2>1 DEF Same
  <1>4. ASSUME NEW k \in Nat, k \in Good PROVE k + 1 \in Good
    <2> SUFFICES ASSUME k + 1 <= n PROVE Same(p[k + 1], t[k + 1].cur)
      OBVIOUS
    <2>1. /\ k + 1 \in 1..n /\ k + 1 \in 1..Len(flat) /\ (k + 1) - 1 = k /\ k <= n
          /\ k \in 0..n /\ k \in 0..Len(flat)
      BY <1>1
    <2> DEFINE ch == flat[k + 1]
               x == p[k]
               y == t[k]
    <2>2. ch \in T /\ pre[k + 1] = ch
      BY <1>1, <2>1
    <2>3. x \in TelState(T) /\ y \in TelRunState(T) /\ y.cur \in TelState(T) /\ ~y.cur.done
      <3>1. x \in TelState(T) /\ y \in TelRunState(T)
        BY <1>2, <2>1
      <3> QED
        BY <2>1, <3>1, NotDone, Zenon DEF TelRunState
    <2>4. Same(x, y.cur)
      BY <1>4, <2>1
    <2>5. p[k + 1] = Telnet(x, ch)
      BY <1>2, <2>1, <2>2 DEF HearRun, n
    <2>6. t[k + 1] = HearChar(y, ch)
      BY <2>1 DEF TelRun
    <2> HIDE DEF ch, x, y, Good
    <2>7. Same(Telnet(x, ch), Telnet(y.cur, ch))
      BY <2>2, <2>3, <2>4, SameHear
    <2>8. Tells(T, y, ch, HearChar(y, ch))
      BY <2>2, <2>3, HearCharTells
    <2>9. Same(HearChar(y, ch).cur, Telnet(y.cur, ch))
      BY <2>8 DEF Tells
    <2> QED
      BY <2>5, <2>6, <2>7, <2>9 DEF Same
  <1> HIDE DEF Good
  <1>5. Nat \subseteq Good
    BY <1>3, <1>4, SetInduction, Zenon
  <1>6. n \in Good /\ n <= n
    BY <1>1, <1>5
  <1>7. Same(p[n], t[n].cur)
    BY <1>6 DEF Good
  <1> QED
    BY <1>2, <1>7 DEF Same, n, StateAfter

(* At the end of a chunk no command is torn.                                 *)
LEMMA Untorn ==
  ASSUME NEW T, NEW chunks \in Seq(Seq(T)), ~TearsCommand(chunks),
         NEW t, TelRun(FlattenSeq(chunks), t),
         \A c \in 0..Len(FlattenSeq(chunks)) : t[c] \in TelRunState(T),
         NEW fd, NEW src \in Sources(T, fd), src.buf = <<>>,
         NEW c \in Nat, Placed(chunks, src, fd, c)
  PROVE  t[c].cur.state = "iac" \/ c = Len(FlattenSeq(chunks))
  <1> DEFINE flat == FlattenSeq(chunks)
  <1>1. PICK j \in 0..Len(chunks) : /\ src.chunks[fd] = SubSeq(chunks, j + 1, Len(chunks))
                                    /\ c + Len(src.buf) = Len(FlattenSeq(SubSeq(chunks, 1, j)))
    BY DEF Placed
  <1> DEFINE pre == FlattenSeq(SubSeq(chunks, 1, j))
             rest == FlattenSeq(SubSeq(chunks, j + 1, Len(chunks)))
  <1>2. c = Len(pre) /\ Len(chunks) \in Nat
    BY <1>1
  <1>3. pre \in Seq(T) /\ rest \in Seq(T) /\ flat = pre \o rest /\ flat \in Seq(T)
    BY HeadFlat, FlattenTyped
  <1>4. CASE j = 0
    <2>1. SubSeq(chunks, 1, 0) = <<>>
      OBVIOUS
    <2>2. pre = <<>>
      BY <1>4, <2>1, FlattenEmpty, Zenon
    <2>3. Len(<<>>) = 0
      OBVIOUS
    <2>4. c = 0
      BY ONLY <1>2, <2>2, <2>3
    <2> QED
      BY <2>4 DEF TelRun, NewLine
  <1>5. CASE j = Len(chunks)
    <2>1. SubSeq(chunks, 1, Len(chunks)) = chunks
      OBVIOUS
    <2> QED
      BY <1>2, <1>5, <2>1, Zenon
  <1>6. CASE j # 0 /\ j # Len(chunks)
    <2>1. j \in 1..Len(chunks) - 1
      BY <1>2, <1>6
    <2>2. StateAfter(pre) = "iac"
      BY <2>1 DEF TearsCommand, StateAfter
    <2>3. StateAfter(pre) = t[Len(pre)].cur.state
      <3>1. TelRun(flat, t) /\ \A k \in 0..Len(flat) : t[k] \in TelRunState(T)
        OBVIOUS
      <3> HIDE DEF flat, pre, rest
      <3> QED
        BY <1>3, <3>1, FoldIsRun, Zenon
    <2> QED
      BY <1>2, <2>2, <2>3
  <1> QED
    BY <1>4, <1>5, <1>6

(* A piece at the end of a piece.                                            *)
GrowsBy(a, b, c) == (a \o b) \o c = a \o (b \o c)

LEMMA Grows ==
  ASSUME NEW S, NEW a \in Seq(S), NEW b \in Seq(S), NEW c \in Seq(S)
  PROVE  GrowsBy(a, b, c)
  BY ConcatAssociates DEF GrowsBy

(* One call that does not wait: text and said are what the caller has.       *)
PieceAt(chunks, flat, t, text, said, b, fd, c, g) ==
  /\ At(flat, c, Rest(g.src, fd)) /\ Placed(chunks, g.src, fd, c)
  /\ text \o g.c.line = Text(t[c]) /\ said \o g.c.replies = Said(t[c])
  /\ Same(g.c, t[c].cur) \/ c = Len(flat)
  /\ g.c.done => t[c].cur.state = "iac" \/ c = Len(flat)
  /\ g.c.line # <<>> \/ g.c.done => c # b
Pieced(n, c, b, g, fd, m) ==
  \/ g.c.done \/ (g.c.line = <<>> /\ Dry(g.src, fd))
  \/ n + Len(g.src.chunks[fd]) <= (c - b) + m
PieceInv(chunks, flat, t, text, said, b, fd, m, n, g) ==
  \E c \in b..Len(flat) : /\ PieceAt(chunks, flat, t, text, said, b, fd, c, g)
                          /\ Pieced(n, c, b, g, fd, m)

LEMMA PiecePassIs ==
  ASSUME NEW T, NEW fd, NEW chunks \in Seq(Seq(T)), ~TearsCommand(chunks),
         NEW flat \in Seq(T), flat = FlattenSeq(chunks), NEW t, TelRun(flat, t),
         \A c \in 0..Len(flat) : t[c] \in TelRunState(T),
         NEW text \in Seq(T), NEW said \in Seq(Seq(Words(T))),
         NEW b \in 0..Len(flat), NEW m \in Nat, NEW n \in Nat,
         NEW g \in Hearing(T, fd), PieceInv(chunks, flat, t, text, said, b, fd, m, n, g)
  PROVE  PieceInv(chunks, flat, t, text, said, b, fd, m, n + 1, TelGetsPass(g, fd, 0))
  <1> DEFINE h == TelGetsPass(g, fd, 0)
  <1>1. PICK c \in b..Len(flat) : /\ PieceAt(chunks, flat, t, text, said, b, fd, c, g)
                                  /\ Pieced(n, c, b, g, fd, m)
    BY DEF PieceInv
  <1>2. /\ At(flat, c, Rest(g.src, fd)) /\ Placed(chunks, g.src, fd, c)
        /\ text \o g.c.line = Text(t[c]) /\ said \o g.c.replies = Said(t[c])
        /\ Same(g.c, t[c].cur) \/ c = Len(flat)
        /\ g.c.done => t[c].cur.state = "iac" \/ c = Len(flat)
        /\ g.c.line # <<>> \/ g.c.done => c # b
    BY <1>1, Zenon DEF PieceAt
  <1>3. /\ g.c \in TelState(T) /\ g.src \in Sources(T, fd) /\ g.src.buf \in Seq(T)
        /\ g.src.chunks[fd] \in Seq(Seq(T)) /\ g.c.done \in BOOLEAN
        /\ g.c.line \in Seq(T) /\ g.c.replies \in Seq(Seq(Words(T)))
    BY SourceTyped, Zenon DEF Hearing, TelState
  <1>4. Len(g.src.chunks[fd]) \in Nat /\ Len(flat) \in Nat /\ c \in 0..Len(flat) /\ c \in Nat /\ b \in Nat
    BY <1>3
  <1>5. CASE g.c.done \/ (g.src.buf = <<>> /\ g.c.line = <<>> /\ ~More(g.src, fd))
    <2>1. h = g
      BY <1>5 DEF TelGetsPass
    <2>2. Pieced(n + 1, c, b, h, fd, m)
      BY <1>5, <2>1 DEF Pieced, Dry
    <2> QED
      BY <1>1, <2>1, <2>2 DEF PieceInv
  <1>6. CASE ~g.c.done /\ g.src.buf # <<>>
    <2> DEFINE ch == flat[c + 1]
               x == t[c]
               y == Telnet(g.c, ch)
               z == t[c + 1]
    <2>1. /\ c + 1 \in 1..Len(flat) /\ Head(g.src.buf) = ch /\ Next1(g.src) \in Sources(T, fd)
          /\ At(flat, c + 1, Rest(Next1(g.src), fd)) /\ Next1(g.src).chunks = g.src.chunks
          /\ Len(Next1(g.src).buf) = Len(g.src.buf) - 1
      <3> DEFINE src == g.src
      <3>1. src \in Sources(T, fd) /\ src.buf # <<>> /\ At(flat, c, Rest(src, fd)) /\ c \in Nat
        BY <1>2, <1>3, <1>4, <1>6
      <3> HIDE DEF src
      <3>2. NextRead(T, fd, src, flat, c)
        BY <3>1, CharacterRead
      <3> QED
        BY <3>2 DEF NextRead, src
    <2>2. h = [c |-> y, src |-> Next1(g.src)]
      BY <1>6, <2>1 DEF TelGetsPass
    <2>3. z = HearChar(x, ch)
      <3>1. (c + 1) - 1 = c
        BY <1>4
      <3> QED
        BY <2>1, <3>1, Zenon DEF TelRun
    <2>4. ch \in T /\ x \in TelRunState(T) /\ x.cur \in TelState(T) /\ ~x.cur.done /\ c + 1 \in b..Len(flat)
      <3>1. ch \in T /\ x \in TelRunState(T) /\ c + 1 \in b..Len(flat)
        BY <1>4, <2>1
      <3> QED
        BY <1>4, <3>1, NotDone, Zenon DEF TelRunState
    <2>5. Same(g.c, x.cur)
      <3>1. c # Len(flat)
        BY <1>4, <2>1
      <3> QED
        BY <1>2, <3>1
    <2> HIDE DEF ch, x, y, z, h
    <2>6. h.c = y /\ h.src = Next1(g.src)
      BY <2>2
    <2>7. /\ Adds(g.c, ch) = Adds(x.cur, ch) /\ Says(g.c, ch) = Says(x.cur, ch)
          /\ Same(y, Telnet(x.cur, ch))
      BY <1>3, <2>4, <2>5, SameHear, Zenon DEF y
    <2>8. /\ y \in TelState(T) /\ y.line = g.c.line \o Adds(g.c, ch)
          /\ y.replies = g.c.replies \o Says(g.c, ch)
          /\ Adds(g.c, ch) \in Seq(T) /\ Says(g.c, ch) \in Seq(Seq(Words(T)))
          /\ y.done => g.c.done \/ y.state = "iac"
      <3>1. Heard(T, g.c, ch, y)
        BY <1>3, <2>4, TelnetHears DEF y
      <3> QED
        BY <3>1 DEF Heard
    <2>9. /\ Text(z) = Text(x) \o Adds(x.cur, ch) /\ Said(z) = Said(x) \o Says(x.cur, ch)
          /\ Same(z.cur, Telnet(x.cur, ch))
      <3>1. Tells(T, x, ch, HearChar(x, ch))
        BY <2>4, HearCharTells
      <3> QED
        BY <2>3, <3>1 DEF Tells
    <2>10. text \o y.line = Text(z)
      <3> DEFINE a == g.c.line
                 d == Adds(g.c, ch)
      <3>1. y.line = a \o d /\ Text(z) = (text \o a) \o d
        BY <1>2, <2>7, <2>8, <2>9 DEF x
      <3>2. a \in Seq(T) /\ d \in Seq(T)
        BY <1>3, <2>8
      <3> HIDE DEF a, d
      <3>3. GrowsBy(text, a, d)
        BY ONLY text \in Seq(T), <3>2, Grows
      <3> QED
        BY <3>1, <3>3 DEF GrowsBy
    <2>11. said \o y.replies = Said(z)
      <3> DEFINE a == g.c.replies
                 d == Says(g.c, ch)
      <3>1. y.replies = a \o d /\ Said(z) = (said \o a) \o d
        BY <1>2, <2>7, <2>8, <2>9 DEF x
      <3>2. a \in Seq(Seq(Words(T))) /\ d \in Seq(Seq(Words(T)))
        BY <1>3, <2>8
      <3> HIDE DEF a, d
      <3>3. GrowsBy(said, a, d)
        BY ONLY said \in Seq(Seq(Words(T))), <3>2, Grows
      <3> QED
        BY <3>1, <3>3 DEF GrowsBy
    <2>12. Same(y, z.cur)
      BY <2>7, <2>9 DEF Same
    <2>13. y.done => z.cur.state = "iac"
      BY <1>6, <2>8, <2>12 DEF Same
    <2>14. Placed(chunks, Next1(g.src), fd, c + 1)
      <3>1. PICK j \in 0..Len(chunks) :
                   /\ g.src.chunks[fd] = SubSeq(chunks, j + 1, Len(chunks))
                   /\ c + Len(g.src.buf) = Len(FlattenSeq(SubSeq(chunks, 1, j)))
        BY <1>2, Zenon DEF Placed
      <3>2. (c + 1) + Len(Next1(g.src).buf) = c + Len(g.src.buf)
        <4> DEFINE v == Len(g.src.buf)
                   w == Len(Next1(g.src).buf)
        <4>1. v \in Nat /\ w = v - 1
          BY <1>3, <2>1
        <4> HIDE DEF v, w
        <4>2. (c + 1) + w = c + v
          BY <1>4, <4>1
        <4> QED
          BY <4>2, Zenon DEF v, w
      <3> QED
        BY <2>1, <3>1, <3>2, Zenon DEF Placed
    <2>15. Pieced(n + 1, c + 1, b, h, fd, m)
      <3>1. Dry(g.src, fd) = FALSE
        BY <1>6 DEF Dry
      <3>2. n + Len(g.src.chunks[fd]) <= (c - b) + m
        BY <1>1, <1>6, <3>1 DEF Pieced
      <3>3. h.src.chunks[fd] = g.src.chunks[fd]
        BY <2>1, <2>6, Zenon
      <3>4. (n + 1) + Len(h.src.chunks[fd]) <= ((c + 1) - b) + m
        <4> DEFINE v == Len(g.src.chunks[fd])
                   w == Len(h.src.chunks[fd])
        <4>1. v \in Nat /\ w = v /\ n + v <= (c - b) + m
          BY <1>4, <3>2, <3>3
        <4> HIDE DEF v, w
        <4>2. (n + 1) + w <= ((c + 1) - b) + m
          BY <1>4, <4>1
        <4> QED
          BY <4>2, Zenon DEF w
      <3> QED
        BY <3>4, Zenon DEF Pieced
    <2>16. c + 1 # b
      BY <1>4
    <2>17. PieceAt(chunks, flat, t, text, said, b, fd, c + 1, h)
      <3>1. /\ At(flat, c + 1, Rest(h.src, fd)) /\ Placed(chunks, h.src, fd, c + 1)
            /\ text \o h.c.line = Text(t[c + 1]) /\ said \o h.c.replies = Said(t[c + 1])
            /\ Same(h.c, t[c + 1].cur)
            /\ h.c.done => t[c + 1].cur.state = "iac"
        BY <2>1, <2>6, <2>10, <2>11, <2>12, <2>13, <2>14 DEF z
      <3> QED
        BY <2>16, <3>1, Zenon DEF PieceAt
    <2> QED
      BY <2>4, <2>15, <2>17 DEF PieceInv, h
  <1>7. CASE ~g.c.done /\ g.src.buf = <<>> /\ g.c.line # <<>>
    <2>1. h = [g EXCEPT !.c = [g.c EXCEPT !.done = TRUE]]
      BY <1>7 DEF TelGetsPass
    <2>2. h.src = g.src /\ h.c = [g.c EXCEPT !.done = TRUE]
      BY <2>1, Zenon DEF Hearing
    <2>3. /\ h.c.done = TRUE /\ h.c.line = g.c.line /\ h.c.replies = g.c.replies
          /\ h.c.state = g.c.state /\ h.c.cmd = g.c.cmd
      BY <1>3, <2>2, Zenon DEF TelState
    <2> HIDE DEF h
    <2>4. t[c].cur.state = "iac" \/ c = Len(flat)
      <3> DEFINE src == g.src
      <3>1. src \in Sources(T, fd) /\ src.buf = <<>> /\ Placed(chunks, src, fd, c) /\ c \in Nat
        BY <1>2, <1>3, <1>4, <1>7
      <3> HIDE DEF src
      <3> QED
        BY <3>1, Untorn, Zenon
    <2>5. Same(h.c, t[c].cur) \/ c = Len(flat)
      BY <1>2, <2>3 DEF Same
    <2>6. PieceAt(chunks, flat, t, text, said, b, fd, c, h)
      <3>1. /\ At(flat, c, Rest(h.src, fd)) /\ Placed(chunks, h.src, fd, c)
            /\ text \o h.c.line = Text(t[c]) /\ said \o h.c.replies = Said(t[c])
            /\ c # b
        BY <1>2, <1>7, <2>2, <2>3, Zenon
      <3> QED
        BY <2>4, <2>5, <3>1, Zenon DEF PieceAt
    <2>7. Pieced(n + 1, c, b, h, fd, m)
      BY <2>3, Zenon DEF Pieced
    <2> QED
      BY <2>6, <2>7 DEF PieceInv, h
  <1>8. CASE ~g.c.done /\ g.src.buf = <<>> /\ g.c.line = <<>> /\ More(g.src, fd)
    <2>1. /\ Rest(Refresh(g.src, fd), fd) = Rest(g.src, fd)
          /\ Len(Refresh(g.src, fd).chunks[fd]) = Len(g.src.chunks[fd]) - 1
      BY <1>3, <1>8, ChunkRead
    <2>2. h = [g EXCEPT !.src = Refresh(g.src, fd)]
      BY <1>8 DEF TelGetsPass
    <2>3. h.c = g.c /\ h.src = Refresh(g.src, fd)
      BY <2>2 DEF Hearing
    <2>4. Placed(chunks, Refresh(g.src, fd), fd, c)
      <3> DEFINE src == g.src
      <3>1. /\ src \in Sources(T, fd) /\ src.buf = <<>> /\ More(src, fd) /\ Placed(chunks, src, fd, c)
            /\ c \in Nat
        BY <1>2, <1>3, <1>4, <1>8
      <3> HIDE DEF src
      <3>2. Placed(chunks, Refresh(src, fd), fd, c)
        BY <3>1, PlacedNext
      <3> QED
        BY <3>2 DEF src
    <2> HIDE DEF h
    <2>5. PieceAt(chunks, flat, t, text, said, b, fd, c, h)
      <3>1. At(flat, c, Rest(h.src, fd)) /\ Placed(chunks, h.src, fd, c)
        BY <1>2, <2>1, <2>3, <2>4
      <3> QED
        BY <1>2, <2>3, <3>1, Zenon DEF PieceAt
    <2>6. Dry(g.src, fd) = FALSE
      BY <1>8 DEF Dry
    <2>7. n + Len(g.src.chunks[fd]) <= (c - b) + m
      BY <1>1, <1>8, <2>6 DEF Pieced
    <2>8. (n + 1) + Len(h.src.chunks[fd]) <= (c - b) + m
      <3> DEFINE v == Len(g.src.chunks[fd])
                 w == Len(h.src.chunks[fd])
      <3>1. v \in Nat /\ w = v - 1 /\ n + v <= (c - b) + m
        BY <1>4, <2>1, <2>3, <2>7
      <3> HIDE DEF v, w
      <3>2. (n + 1) + w <= (c - b) + m
        BY <1>4, <3>1
      <3> QED
        BY <3>2, Zenon DEF w
    <2>9. Pieced(n + 1, c, b, h, fd, m)
      BY <2>8, Zenon DEF Pieced
    <2> QED
      BY <2>5, <2>9 DEF PieceInv, h
  <1> QED
    BY <1>3, <1>5, <1>6, <1>7, <1>8, Zenon

(* What it returns: a piece of the text, or that the stream is at its end.   *)
GotPiece(T, chunks, flat, t, text, said, b, fd, got) ==
  /\ got.src \in Sources(T, fd) /\ got.line \in Seq(T) /\ got.replies \in Seq(Seq(Words(T)))
  /\ \E c \in b..Len(flat) :
       /\ At(flat, c, Rest(got.src, fd)) /\ Placed(chunks, got.src, fd, c)
       /\ text \o got.line = Text(t[c]) /\ said \o got.replies = Said(t[c])
       /\ \/ got.r = 1 /\ c # b /\ (t[c].cur.state = "iac" \/ c = Len(flat))
          \/ got.r = 0 /\ got.line = <<>> /\ c = Len(flat)

LEMMA PieceTelGetsIs ==
  ASSUME NEW T, NEW fd, NEW chunks \in Seq(Seq(T)), ~TearsCommand(chunks),
         NEW flat \in Seq(T), flat = FlattenSeq(chunks), NEW t, TelRun(flat, t),
         \A c \in 0..Len(flat) : t[c] \in TelRunState(T),
         NEW text \in Seq(T), NEW said \in Seq(Seq(Words(T))),
         NEW b \in 0..Len(flat), t[b].cur.state = "iac" \/ b = Len(flat),
         text = Text(t[b]), said = Said(t[b]),
         NEW src \in Sources(T, fd), At(flat, b, Rest(src, fd)), Placed(chunks, src, fd, b)
  PROVE  GotPiece(T, chunks, flat, t, text, said, b, fd, TelGets(src, fd, 0))
  <1> DEFINE m == Len(src.chunks[fd])
             N == Passes(src, fd)
  <1>1. m \in Nat /\ N \in Nat /\ N = (Len(flat) - b) + m + 2 /\ Len(flat) \in Nat
    <2>1. m \in Nat /\ N \in Nat /\ N = Len(Rest(src, fd)) + m + 2
      BY SourceTyped
    <2>2. Len(Rest(src, fd)) = Len(flat) - b
      BY DEF At
    <2> HIDE DEF m, N
    <2> QED
      BY <2>1, <2>2
  <1>2. PICK p : /\ \A n \in 0..N : p[n] \in Hearing(T, fd)
                 /\ p[0] = [c |-> NewLine, src |-> src]
                 /\ \A n \in 1..N : p[n] = TelGetsPass(p[n - 1], fd, 0)
                 /\ TelGets(src, fd, 0) = Returned(p[N])
                 /\ \A n \in 0..N : ~p[n].c.late
    <2>1. 0 \in {0, 1}
      OBVIOUS
    <2>2. \E p : TelGetsSteps(T, fd, 0, src, p)
      BY ONLY <2>1, src \in Sources(T, fd), TelGetsHasLoop
    <2> QED
      BY ONLY <2>2, Zenon DEF TelGetsSteps, N
  <1> HIDE DEF m, N
  <1>3. PieceInv(chunks, flat, t, text, said, b, fd, m, 0, p[0])
    <2>1. /\ p[0].c = NewLine /\ p[0].src = src /\ NewLine.done = FALSE /\ NewLine.line = <<>>
          /\ NewLine.replies = <<>> /\ NewLine.state = "iac"
      BY <1>2 DEF NewLine
    <2>2. text \o <<>> = text
      BY ConcatAssociates
    <2>3. said \o <<>> = said
      BY ConcatAssociates
    <2>4. Same(p[0].c, t[b].cur) \/ b = Len(flat)
      BY <2>1 DEF Same
    <2>5. PieceAt(chunks, flat, t, text, said, b, fd, b, p[0])
      BY <2>1, <2>2, <2>3, <2>4 DEF PieceAt
    <2>6. Pieced(0, b, b, p[0], fd, m)
      <3>1. 0 + m <= (b - b) + m
        BY <1>1
      <3> QED
        BY <2>1, <3>1 DEF Pieced, m
    <2>7. b \in b..Len(flat)
      BY <1>1
    <2> QED
      BY <2>5, <2>6, <2>7 DEF PieceInv
  <1> DEFINE Good == {n \in Nat : n <= N => PieceInv(chunks, flat, t, text, said, b, fd, m, n, p[n])}
  <1>4. 0 \in Good
    BY <1>3
  <1>5. ASSUME NEW n \in Nat, n \in Good PROVE n + 1 \in Good
    <2> SUFFICES ASSUME n + 1 <= N
                 PROVE  PieceInv(chunks, flat, t, text, said, b, fd, m, n + 1, p[n + 1])
      OBVIOUS
    <2>1. n + 1 \in 1..N /\ n \in 0..N /\ (n + 1) - 1 = n /\ n <= N
      BY ONLY <1>1, n \in Nat, n + 1 <= N
    <2> DEFINE g == p[n]
    <2>2. PieceInv(chunks, flat, t, text, said, b, fd, m, n, g) /\ g \in Hearing(T, fd)
      BY <1>2, <1>5, <2>1
    <2>3. p[n + 1] = TelGetsPass(g, fd, 0)
      BY <1>2, <2>1
    <2> HIDE DEF Good, g
    <2>4. PieceInv(chunks, flat, t, text, said, b, fd, m, n + 1, TelGetsPass(g, fd, 0))
      BY <1>1, <2>2, PiecePassIs, Zenon
    <2> QED
      BY <2>3, <2>4
  <1> HIDE DEF Good
  <1>6. Nat \subseteq Good
    BY <1>4, <1>5, SetInduction, Zenon
  <1>7. PieceInv(chunks, flat, t, text, said, b, fd, m, N, p[N])
    <2>1. N \in Good /\ N <= N
      BY <1>1, <1>6
    <2> QED
      BY <2>1 DEF Good
  <1> DEFINE g == p[N]
             got == TelGets(src, fd, 0)
  <1>8. g \in Hearing(T, fd) /\ got = Returned(g) /\ ~g.c.late
    BY <1>1, <1>2
  <1> HIDE DEF g, got
  <1>9. PICK c \in b..Len(flat) : /\ PieceAt(chunks, flat, t, text, said, b, fd, c, g)
                                  /\ Pieced(N, c, b, g, fd, m)
    BY <1>7 DEF PieceInv, g
  <1>10. g.c.done \/ (g.c.line = <<>> /\ Dry(g.src, fd))
    <2> DEFINE x == Len(g.src.chunks[fd])
    <2>1. x \in Nat
      BY <1>8, SourceTyped DEF Hearing
    <2> HIDE DEF x
    <2>2. ~(N + x <= (c - b) + m)
      BY <1>1, <2>1
    <2> QED
      BY <1>9, <2>2 DEF Pieced, x
  <1>11. /\ g.c \in TelState(T) /\ g.src \in Sources(T, fd)
         /\ g.c.line \in Seq(T) /\ g.c.replies \in Seq(Seq(Words(T)))
    BY <1>8 DEF Hearing, TelState
  <1>12. /\ got.line = g.c.line /\ got.replies = g.c.replies /\ got.src = g.src
         /\ got.r = IF g.c.done \/ g.c.line # <<>> THEN 1 ELSE 0
    BY <1>8 DEF Returned
  <1>13. /\ got.src \in Sources(T, fd) /\ got.line \in Seq(T)
         /\ got.replies \in Seq(Seq(Words(T)))
         /\ c \in b..Len(flat) /\ At(flat, c, Rest(got.src, fd)) /\ Placed(chunks, got.src, fd, c)
         /\ text \o got.line = Text(t[c]) /\ said \o got.replies = Said(t[c])
    BY <1>9, <1>11, <1>12, Zenon DEF PieceAt
  <1>14. CASE g.c.done
    <2>1. got.r = 1 /\ c # b /\ (t[c].cur.state = "iac" \/ c = Len(flat))
      BY <1>9, <1>12, <1>14 DEF PieceAt
    <2> QED
      BY <1>13, <2>1, Zenon DEF GotPiece, got
  <1>15. CASE ~g.c.done /\ g.c.line = <<>> /\ Dry(g.src, fd)
    <2>1. c = Len(flat)
      <3> DEFINE s == g.src
      <3>1. s \in Sources(T, fd) /\ s.buf = <<>> /\ ~More(s, fd) /\ At(flat, c, Rest(s, fd)) /\ c \in Nat
        BY <1>1, <1>9, <1>11, <1>15 DEF Dry, PieceAt
      <3> HIDE DEF s
      <3> QED
        BY <3>1, AllRead
    <2>2. got.r = 0 /\ got.line = <<>> /\ c = Len(flat)
      BY <1>12, <1>15, <2>1
    <2> QED
      BY <1>13, <2>2, Zenon DEF GotPiece, got
  <1> QED
    BY <1>10, <1>14, <1>15

-----------------------------------------------------------------------------
(* All the pieces.                                                           *)

PieceCallAt(chunks, flat, t, fd, c, a) ==
  /\ At(flat, c, Rest(a.src, fd)) /\ Placed(chunks, a.src, fd, c)
  /\ FlattenSeq(a.lines) = Text(t[c]) /\ a.replies = Said(t[c])
  /\ t[c].cur.state = "iac" \/ c = Len(flat)
PieceCallInv(chunks, flat, t, fd, n, a) ==
  \E c \in 0..Len(flat) : /\ PieceCallAt(chunks, flat, t, fd, c, a)
                          /\ IF a.ended THEN c = Len(flat) ELSE n <= c

LEMMA PieceCallIs ==
  ASSUME NEW T, NEW fd, NEW chunks \in Seq(Seq(T)), ~TearsCommand(chunks),
         NEW flat \in Seq(T), flat = FlattenSeq(chunks), NEW t, TelRun(flat, t),
         \A c \in 0..Len(flat) : t[c] \in TelRunState(T),
         NEW n \in Nat, NEW a \in TelCaller(T, fd), PieceCallInv(chunks, flat, t, fd, n, a)
  PROVE  PieceCallInv(chunks, flat, t, fd, n + 1, TelCall(a, fd, 0))
  <1> DEFINE got == TelGets(a.src, fd, 0)
             h == TelCall(a, fd, 0)
             text == FlattenSeq(a.lines)
             said == a.replies
  <1>1. PICK b \in 0..Len(flat) : /\ PieceCallAt(chunks, flat, t, fd, b, a)
                                  /\ IF a.ended THEN b = Len(flat) ELSE n <= b
    BY DEF PieceCallInv
  <1>2. /\ At(flat, b, Rest(a.src, fd)) /\ Placed(chunks, a.src, fd, b)
        /\ text = Text(t[b]) /\ said = Said(t[b])
        /\ t[b].cur.state = "iac" \/ b = Len(flat)
    BY <1>1, Zenon DEF PieceCallAt
  <1>3. /\ a.lines \in Seq(Seq(T)) /\ a.src \in Sources(T, fd) /\ a.ended \in BOOLEAN
        /\ said \in Seq(Seq(Words(T)))
    BY DEF TelCaller
  <1>4. text \in Seq(T)
    BY <1>3, FlattenTyped
  <1>5. h = IF a.ended THEN a
            ELSE [lines |-> IF got.r = 0 THEN a.lines ELSE Append(a.lines, got.line),
                  replies |-> a.replies \o got.replies, src |-> got.src, ended |-> got.r = 0]
    BY DEF TelCall, FdTelgets
  <1> HIDE DEF h
  <1>6. CASE a.ended
    <2>1. h = a
      BY <1>5, <1>6
    <2> QED
      BY <1>1, <1>6, <2>1 DEF PieceCallInv, h
  <1>7. CASE ~a.ended
    <2>1. /\ h.lines = IF got.r = 0 THEN a.lines ELSE Append(a.lines, got.line)
          /\ h.replies = said \o got.replies
          /\ h.src = got.src /\ h.ended = (got.r = 0)
      <3> DEFINE lines == IF got.r = 0 THEN a.lines ELSE Append(a.lines, got.line)
                 replies == a.replies \o got.replies
      <3>1. h = [lines |-> lines, replies |-> replies, src |-> got.src, ended |-> got.r = 0]
        BY <1>5, <1>7
      <3> HIDE DEF lines, replies, got
      <3>2. h.lines = lines /\ h.replies = replies /\ h.src = got.src /\ h.ended = (got.r = 0)
        BY ONLY <3>1
      <3> QED
        BY <3>2 DEF lines, replies
    <2>2. GotPiece(T, chunks, flat, t, text, said, b, fd, got)
      <3> DEFINE src == a.src
      <3>1. src \in Sources(T, fd) /\ At(flat, b, Rest(src, fd)) /\ Placed(chunks, src, fd, b)
        BY <1>2, <1>3
      <3> HIDE DEF text, said, src
      <3>2. GotPiece(T, chunks, flat, t, text, said, b, fd, TelGets(src, fd, 0))
        BY <1>2, <1>3, <1>4, <3>1, PieceTelGetsIs, Zenon
      <3> QED
        BY <3>2 DEF src
    <2> HIDE DEF got
    <2>3. got.src \in Sources(T, fd) /\ got.line \in Seq(T) /\ got.replies \in Seq(Seq(Words(T)))
      BY <2>2 DEF GotPiece
    <2>4. PICK c \in b..Len(flat) :
            /\ At(flat, c, Rest(got.src, fd)) /\ Placed(chunks, got.src, fd, c)
            /\ text \o got.line = Text(t[c]) /\ said \o got.replies = Said(t[c])
            /\ \/ got.r = 1 /\ c # b /\ (t[c].cur.state = "iac" \/ c = Len(flat))
               \/ got.r = 0 /\ got.line = <<>> /\ c = Len(flat)
      BY <2>2, Zenon DEF GotPiece
    <2>5. c \in 0..Len(flat)
      OBVIOUS
    <2>6. CASE got.r = 1 /\ c # b /\ (t[c].cur.state = "iac" \/ c = Len(flat))
      <3>1. got.r # 0
        BY <2>6
      <3>2. h.lines = Append(a.lines, got.line) /\ ~h.ended
        BY ONLY <2>1, <3>1, Zenon
      <3>3. FlattenSeq(h.lines) = text \o got.line
        BY <1>3, <2>3, <3>2, FlattenAppend, Zenon
      <3>4. FlattenSeq(h.lines) = Text(t[c]) /\ h.replies = Said(t[c])
        BY ONLY <2>1, <2>4, <3>3, Zenon
      <3>5. PieceCallAt(chunks, flat, t, fd, c, h)
        BY <2>1, <2>4, <2>6, <3>4, Zenon DEF PieceCallAt
      <3>6. n + 1 <= c
        BY <1>1, <1>7, <2>6
      <3> QED
        BY <2>5, <3>2, <3>5, <3>6, Zenon DEF PieceCallInv, h
    <2>7. CASE got.r = 0 /\ got.line = <<>> /\ c = Len(flat)
      <3>1. h.lines = a.lines /\ h.ended
        BY ONLY <2>1, <2>7, Zenon
      <3>2. text \o <<>> = text
        BY <1>4, ConcatAssociates
      <3>3. FlattenSeq(h.lines) = Text(t[c]) /\ h.replies = Said(t[c])
        BY ONLY <2>1, <2>4, <2>7, <3>1, <3>2, Zenon
      <3>4. PieceCallAt(chunks, flat, t, fd, c, h)
        BY <2>1, <2>4, <2>7, <3>3, Zenon DEF PieceCallAt
      <3> QED
        BY <2>5, <2>7, <3>1, <3>4, Zenon DEF PieceCallInv, h
    <2> QED
      BY <2>4, <2>6, <2>7
  <1> QED
    BY <1>3, <1>6, <1>7

LEMMA PiecesAre ==
  ASSUME NEW T, NEW fd, NEW chunks \in Seq(Seq(T)), ~TearsCommand(chunks),
         NEW flat \in Seq(T), flat = FlattenSeq(chunks), NEW t, TelRun(flat, t),
         \A c \in 0..Len(flat) : t[c] \in TelRunState(T),
         NEW src \in Sources(T, fd), src.buf = <<>>, src.chunks[fd] = chunks
  PROVE  /\ FlattenSeq(AllTelnet(src, fd, 0).lines) = Text(t[Len(flat)])
         /\ AllTelnet(src, fd, 0).replies = Said(t[Len(flat)])
  <1> DEFINE N == Passes(src, fd)
  <1>1. Rest(src, fd) = flat
    BY ConcatAssociates DEF Rest
  <1>2. N \in Nat /\ N > Len(flat) /\ Len(flat) \in Nat
    <2> DEFINE x == Len(src.chunks[fd])
    <2>1. x \in Nat /\ N \in Nat /\ N = Len(Rest(src, fd)) + x + 2
      <3>1. /\ src.chunks[fd] \in Seq(Seq(T)) /\ Passes(src, fd) \in Nat
            /\ Passes(src, fd) = Len(Rest(src, fd)) + Len(src.chunks[fd]) + 2
        BY ONLY src \in Sources(T, fd), SourceTyped
      <3> QED
        BY ONLY <3>1
    <2>2. Len(Rest(src, fd)) = Len(flat) /\ Len(flat) \in Nat
      BY <1>1
    <2> HIDE DEF x, N
    <2> QED
      BY <2>1, <2>2
  <1>3. PICK p : /\ \A n \in 0..N : p[n] \in TelCaller(T, fd)
                 /\ p[0] = [lines |-> <<>>, replies |-> <<>>, src |-> src, ended |-> FALSE]
                 /\ \A n \in 1..N : p[n] = TelCall(p[n - 1], fd, 0)
                 /\ AllTelnet(src, fd, 0) = Heap(p[N])
    <2>1. 0 \in {0, 1}
      OBVIOUS
    <2>2. \E p : AllTelnetSteps(T, fd, 0, src, p)
      BY ONLY <2>1, src \in Sources(T, fd), AllTelnetHasLoop
    <2> QED
      BY ONLY <2>2, Zenon DEF AllTelnetSteps, N
  <1> HIDE DEF N
  <1> DEFINE Good == {n \in Nat : n <= N => PieceCallInv(chunks, flat, t, fd, n, p[n])}
  <1>4. 0 \in Good
    <2>1. At(flat, 0, Rest(src, fd))
      BY <1>1, NothingRead
    <2>2. t[0] = [lines |-> <<>>, replies |-> <<>>, cur |-> NewLine] /\ 0 \in 0..Len(flat) /\ 0 <= 0
      BY <1>2 DEF TelRun
    <2>3. p[0].src = src /\ p[0].lines = <<>> /\ p[0].replies = <<>> /\ ~p[0].ended
      BY <1>3
    <2>4. t[0].cur.state = "iac" /\ FlattenSeq(p[0].lines) = Text(t[0]) /\ p[0].replies = Said(t[0])
      <3>1. /\ t[0].cur.line = <<>> /\ t[0].cur.replies = <<>> /\ t[0].cur.state = "iac"
            /\ t[0].lines = <<>> /\ t[0].replies = <<>>
        BY <2>2 DEF NewLine
      <3>2. <<>> \o <<>> = <<>>
        OBVIOUS
      <3> QED
        BY <2>3, <3>1, <3>2, FlattenEmpty DEF Text, Said
    <2>5. Placed(chunks, src, fd, 0)
      <3>1. SubSeq(chunks, 0 + 1, Len(chunks)) = chunks /\ SubSeq(chunks, 1, 0) = <<>>
        OBVIOUS
      <3>2. Len(FlattenSeq(SubSeq(chunks, 1, 0))) = 0
        <4>1. FlattenSeq(SubSeq(chunks, 1, 0)) = <<>>
          BY ONLY <3>1, FlattenEmpty, Zenon
        <4>2. Len(<<>>) = 0
          OBVIOUS
        <4> QED
          BY ONLY <4>1, <4>2
      <3>3. 0 \in 0..Len(chunks) /\ 0 + Len(src.buf) = 0
        OBVIOUS
      <3> QED
        BY <3>1, <3>2, <3>3 DEF Placed
    <2>6. PieceCallAt(chunks, flat, t, fd, 0, p[0])
      BY <2>1, <2>3, <2>4, <2>5 DEF PieceCallAt
    <2>7. PieceCallInv(chunks, flat, t, fd, 0, p[0])
      BY <2>2, <2>3, <2>6 DEF PieceCallInv
    <2> QED
      BY <2>7
  <1>5. ASSUME NEW n \in Nat, n \in Good PROVE n + 1 \in Good
    <2> SUFFICES ASSUME n + 1 <= N PROVE PieceCallInv(chunks, flat, t, fd, n + 1, p[n + 1])
      OBVIOUS
    <2>1. n + 1 \in 1..N /\ n \in 0..N /\ (n + 1) - 1 = n /\ n <= N
      BY ONLY <1>2, n \in Nat, n + 1 <= N
    <2> DEFINE a == p[n]
    <2>2. PieceCallInv(chunks, flat, t, fd, n, a) /\ a \in TelCaller(T, fd)
      BY <1>3, <1>5, <2>1
    <2>3. p[n + 1] = TelCall(a, fd, 0)
      BY <1>3, <2>1
    <2> HIDE DEF Good, a
    <2>4. PieceCallInv(chunks, flat, t, fd, n + 1, TelCall(a, fd, 0))
      BY <2>2, PieceCallIs, Zenon
    <2> QED
      BY <2>3, <2>4
  <1> HIDE DEF Good
  <1>6. Nat \subseteq Good
    BY <1>4, <1>5, SetInduction, Zenon
  <1>7. PieceCallInv(chunks, flat, t, fd, N, p[N])
    <2>1. N \in Good /\ N <= N
      BY <1>2, <1>6
    <2> QED
      BY <2>1 DEF Good
  <1>8. PICK c \in 0..Len(flat) : /\ PieceCallAt(chunks, flat, t, fd, c, p[N])
                                  /\ IF p[N].ended THEN c = Len(flat) ELSE N <= c
    BY <1>7 DEF PieceCallInv
  <1>9. c = Len(flat)
    <2>1. ~(N <= c)
      BY <1>2
    <2> QED
      BY <1>8, <2>1
  <1>10. FlattenSeq(p[N].lines) = Text(t[c]) /\ p[N].replies = Said(t[c])
    BY <1>8, Zenon DEF PieceCallAt
  <1>11. AllTelnet(src, fd, 0).lines = p[N].lines /\ AllTelnet(src, fd, 0).replies = p[N].replies
    BY <1>3 DEF Heap
  <1> QED
    BY <1>9, <1>10, <1>11

LEMMA FinalText ==
  ASSUME NEW T, NEW x \in TelRunState(T)
  PROVE  FlattenSeq(Final(x).lines) = Text(x) /\ Final(x).replies = Said(x)
  <1>1. /\ x.lines \in Seq(Seq(T)) /\ FlattenSeq(x.lines) \in Seq(T) /\ x.cur.line \in Seq(T)
    BY TextTyped DEF TelRunState
  <1>2. Final(x).replies = Said(x)
    BY Zenon DEF Final, Said
  <1>3. Final(x).lines = IF x.cur.line = <<>> THEN x.lines ELSE Append(x.lines, x.cur.line)
    BY DEF Final
  <1>4. CASE x.cur.line = <<>>
    <2>1. FlattenSeq(x.lines) \o <<>> = FlattenSeq(x.lines)
      BY <1>1, ConcatAssociates
    <2> QED
      BY <1>2, <1>3, <1>4, <2>1 DEF Text
  <1>5. CASE x.cur.line # <<>>
    <2>1. FlattenSeq(Append(x.lines, x.cur.line)) = FlattenSeq(x.lines) \o x.cur.line
      BY <1>1, FlattenAppend, Zenon
    <2> QED
      BY <1>2, <1>3, <1>5, <2>1, Zenon DEF Text
  <1> QED
    BY <1>4, <1>5

(* fd_telgets that never waits in vain returns the same lines and gives the  *)
(* same answers however the stream is cut; in pieces, and whatever the       *)
(* pauses, it returns the same text and answers unless a chunk ends within a *)
(* command; either way it writes at most one cell behind the array it is     *)
(* told of (fdutils.c).                                                      *)
THEOREM TelnetIsWhole ==
  ASSUME NEW T, NEW chunks \in Seq(Seq(T))
  PROVE  TelnetSurvivesChunks(chunks)
  <1> DEFINE flat == FlattenSeq(chunks)
             src == Source(<<chunks>>)
             one == [buf |-> flat, chunks |-> <<<<>>>>]
  <1>1. flat \in Seq(T)
    BY FlattenTyped
  <1>2. PICK t : TelRun(flat, t) /\ \A c \in 0..Len(flat) : t[c] \in TelRunState(T)
    <2> HIDE DEF flat
    <2> QED
      BY <1>1, TelRunExists
  <1>3. src \in Sources(T, 1) /\ Rest(src, 1) = flat /\ src.buf = <<>> /\ src.chunks[1] = chunks
    <2>1. <<chunks>> \in Seq(Seq(Seq(T)))
      OBVIOUS
    <2>2. src.buf = <<>> /\ src.chunks = <<chunks>> /\ 1 \in DOMAIN src.chunks
      BY DEF Source
    <2>3. src.chunks[1] = chunks
      BY <2>2
    <2>4. <<>> \o flat = flat /\ <<>> \in Seq(T)
      BY <1>1, ConcatAssociates
    <2>5. src \in Sources(T, 1)
      BY <2>1, <2>2, <2>4 DEF Sources, Source
    <2> HIDE DEF src
    <2> QED
      BY <2>2, <2>3, <2>4, <2>5 DEF Rest
  <1>4. one \in Sources(T, 1) /\ Rest(one, 1) = flat /\ Prompt(one, 1)
    <2> HIDE DEF flat
    <2>1. <<<<>>>> \in Seq(Seq(Seq(T)))
      OBVIOUS
    <2>2. one.buf = flat /\ one.chunks = <<<<>>>> /\ 1 \in DOMAIN one.chunks
      OBVIOUS
    <2>3. one.chunks[1] = <<>>
      BY <2>2
    <2>4. flat \o <<>> = flat
      BY <1>1, ConcatAssociates
    <2>5. one \in Sources(T, 1)
      BY <1>1, <2>1, <2>2 DEF Sources
    <2>6. DOMAIN <<>> = {}
      OBVIOUS
    <2> HIDE DEF one
    <2> QED
      BY <2>2, <2>3, <2>4, <2>5, <2>6, FlattenEmpty DEF Rest, Prompt
  <1> DEFINE x == t[Len(flat)]
  <1>5. ASSUME \A k \in DOMAIN chunks : chunks[k] # <<>>
        PROVE  AllTelnet(src, 1, 1) = Final(x)
    <2>1. Prompt(src, 1)
      BY <1>3, <1>5 DEF Prompt
    <2> HIDE DEF flat, src
    <2> QED
      BY <1>1, <1>2, <1>3, <2>1, WaitingIs
  <1>6. AllTelnet(one, 1, 1) = Final(x)
    <2> HIDE DEF flat, one
    <2> QED
      BY <1>1, <1>2, <1>4, WaitingIs
  <1>7. FlattenSeq(Final(x).lines) = Text(x) /\ Final(x).replies = Said(x)
    <2>1. x \in TelRunState(T)
      <3> HIDE DEF flat
      <3>1. Len(flat) \in 0..Len(flat)
        BY <1>1
      <3> QED
        BY <1>2, <3>1
    <2> HIDE DEF x
    <2> QED
      BY <2>1, FinalText
  <1>8. ASSUME ~TearsCommand(chunks)
        PROVE  /\ FlattenSeq(AllTelnet(src, 1, 0).lines) = Text(x)
               /\ AllTelnet(src, 1, 0).replies = Said(x)
    <2>1. flat = FlattenSeq(chunks)
      OBVIOUS
    <2> HIDE DEF flat, src
    <2> QED
      BY <1>1, <1>2, <1>3, <1>8, <2>1, PiecesAre
  <1>9. ASSUME NEW wait \in {0, 1}, NEW k \in DOMAIN AllTelnet(src, 1, wait).lines
        PROVE  Cells(AllTelnet(src, 1, wait).lines[k]) \subseteq 0..BufLen
    <2> DEFINE lines == AllTelnet(src, 1, wait).lines
    <2>1. lines \in Seq(Seq(T)) /\ \A i \in DOMAIN lines : Len(lines[i]) <= BufLen
      BY <1>3, AllTelnetFits
    <2> HIDE DEF lines
    <2>2. k \in DOMAIN lines
      BY DEF lines
    <2>3. lines[k] \in Seq(T) /\ Len(lines[k]) <= BufLen
      BY <2>1, <2>2
    <2>4. Cells(lines[k]) \subseteq 0..BufLen
      BY <2>3, CellsFit
    <2> QED
      BY <2>4 DEF lines
  <1> HIDE DEF x
  <1>10. /\ (\A k \in DOMAIN chunks : chunks[k] # <<>>) => AllTelnet(src, 1, 1) = AllTelnet(one, 1, 1)
         /\ ~TearsCommand(chunks) =>
              /\ FlattenSeq(AllTelnet(src, 1, 0).lines) = FlattenSeq(AllTelnet(one, 1, 1).lines)
              /\ AllTelnet(src, 1, 0).replies = AllTelnet(one, 1, 1).replies
    BY ONLY <1>5, <1>6, <1>7, <1>8, Zenon
  <1>11. \A a \in {AllTelnet(src, 1, 1), AllTelnet(src, 1, 0)} :
           \A k \in DOMAIN a.lines : Cells(a.lines[k]) \subseteq 0..BufLen
    <2>1. \A k \in DOMAIN AllTelnet(src, 1, 1).lines : Cells(AllTelnet(src, 1, 1).lines[k]) \subseteq 0..BufLen
      BY <1>9
    <2>2. \A k \in DOMAIN AllTelnet(src, 1, 0).lines : Cells(AllTelnet(src, 1, 0).lines[k]) \subseteq 0..BufLen
      BY <1>9
    <2> QED
      BY ONLY <2>1, <2>2, Zenon
  <1> QED
    BY ONLY <1>10, <1>11, Zenon DEF TelnetSurvivesChunks, src, one, flat

-----------------------------------------------------------------------------
(* Writing.                                                                  *)

(* What a call of send returns.                                              *)
SendReturns == {take \in [kind : {"took", "again", "error"}, n : Nat] : take.n # 0 => take.kind = "took"}
SendProgress(len) == [total : 0..len, result : {"more", "error", "short"}]
Refuses(take) == take.kind # "again" /\ take.n = 0

LEMMA SendTyped ==
  ASSUME NEW len \in Nat, NEW w \in SendProgress(len), NEW take \in SendReturns
  PROVE  Send(w, take, len) \in SendProgress(len)
  <1>1. /\ w.total \in 0..len /\ take.n \in Nat /\ Lesser(len, w.total + take.n) \in 0..len
        /\ take.kind \in {"took", "again", "error"}
    BY DEF SendProgress, SendReturns, Lesser
  <1> HIDE DEF Lesser
  <1> QED
    BY <1>1 DEF Send, SendProgress

SendTurns(len, s, it) ==
  it = [K \in SUBSET DOMAIN s |->
          IF K = {} THEN [total |-> 0, result |-> "more"] ELSE Send(it[K \ {Max(K)}], s[Max(K)], len)]
SendRun(len, s, p) ==
  /\ p[0] = [total |-> 0, result |-> "more"]
  /\ \A k \in 1..Len(s) : p[k] = Send(p[k - 1], s[k], len)

LEMMA SendIsFold ==
  ASSUME NEW len, NEW s
  PROVE  SocketWrite(s, len) = (CHOOSE it : SendTurns(len, s, it))[DOMAIN s]
  BY Zenon DEF SocketWrite, FoldLeft, MapThenFoldSet, SendTurns

LEMMA SendHasRun ==
  ASSUME NEW len \in Nat, NEW s \in Seq(SendReturns)
  PROVE  \E p : /\ SendRun(len, s, p)
                /\ \A k \in 0..Len(s) : p[k] \in SendProgress(len)
                /\ SocketWrite(s, len) = p[Len(s)]
  <1> DEFINE n == Len(s)
             C == SendProgress(len)
             f == [k \in 1..n |-> [c \in C |-> Send(c, s[k], len)]]
             all == CHOOSE it : SendTurns(len, s, it)
             p == [k \in 0..n |-> all[1..k]]
  <1>1. n \in Nat /\ DOMAIN s = 1..n /\ [total |-> 0, result |-> "more"] \in C
    BY DEF SendProgress
  <1>2. \A k \in 1..n, c \in C : Send(c, s[k], len) \in C
    <2> SUFFICES ASSUME NEW k \in 1..n, NEW c \in C PROVE Send(c, s[k], len) \in C
      OBVIOUS
    <2>1. s[k] \in SendReturns
      OBVIOUS
    <2> QED
      BY <2>1, SendTyped
  <1>3. f \in [1..n -> [C -> C]]
    BY <1>2
  <1>4. PICK it \in [SUBSET (1..n) -> C] : Turns(f, [total |-> 0, result |-> "more"], n, it)
    <2> HIDE DEF f, n, C
    <2>1. HasTurns(C, f, [total |-> 0, result |-> "more"], n)
      BY <1>1, <1>3, TurnsExist
    <2> QED
      BY <2>1 DEF HasTurns
  <1>5. SendTurns(len, s, it)
    <2>1. ASSUME NEW K \in SUBSET (1..n), K # {}
          PROVE  f[Max(K)][it[K \ {Max(K)}]] = Send(it[K \ {Max(K)}], s[Max(K)], len)
      <3>1. Max(K) \in 1..n /\ K \ {Max(K)} \in SUBSET (1..n)
        BY <1>1, <2>1, MaxOfSet, Zenon
      <3> HIDE DEF C
      <3>2. it[K \ {Max(K)}] \in C
        BY <3>1
      <3> QED
        BY <3>1, <3>2
    <2> HIDE DEF f, n
    <2>2. it = [K \in SUBSET (1..n) |-> IF K = {} THEN [total |-> 0, result |-> "more"] ELSE f[Max(K)][it[K \ {Max(K)}]]]
      BY <1>4, Zenon DEF Turns
    <2>3. it = [K \in SUBSET (1..n) |-> IF K = {} THEN [total |-> 0, result |-> "more"]
                                        ELSE Send(it[K \ {Max(K)}], s[Max(K)], len)]
      BY ONLY <2>1, <2>2, Zenon
    <2> QED
      BY <1>1, <2>3, Zenon DEF SendTurns
  <1>6. SendTurns(len, s, all)
    BY <1>5
  <1>7. SocketWrite(s, len) = all[1..n]
    <2>1. SocketWrite(s, len) = all[DOMAIN s]
      BY SendIsFold
    <2> QED
      BY <1>1, <2>1
  <1> HIDE DEF f, n, all
  <1>8. \A K \in SUBSET (1..n) : all[K] = IF K = {} THEN [total |-> 0, result |-> "more"]
                                          ELSE Send(all[K \ {Max(K)}], s[Max(K)], len)
    BY <1>1, <1>6, Zenon DEF SendTurns
  <1>9. p[0] = [total |-> 0, result |-> "more"]
    <2>1. 1..0 = {} /\ 0 \in 0..n
      BY <1>1
    <2> QED
      BY <1>8, <2>1, Zenon
  <1>10. ASSUME NEW k \in 1..n PROVE p[k] = Send(p[k - 1], s[k], len)
    <2>1. k \in 0..n /\ k - 1 \in 0..n
      BY <1>1
    <2>2. p[k] = all[1..k] /\ p[k - 1] = all[1 .. k - 1]
      BY <2>1
    <2> HIDE DEF p
    <2>3. all[1..k] = Send(all[1 .. k - 1], s[k], len)
      BY <1>1, <1>8, PrefixMax, Zenon
    <2> QED
      BY <2>2, <2>3
  <1>11. n \in 0..n /\ p[n] = all[1..n]
    BY <1>1
  <1> HIDE DEF p, C
  <1>12. \A k \in 0..n : p[k] \in C
    <2>1. \A k \in 1..n : p[k - 1] \in C => p[k] \in C
      BY <1>2, <1>10
    <2> QED
      BY ONLY <1>1, <1>9, <2>1, RunTyped, Zenon
  <1> QED
    BY <1>7, <1>9, <1>10, <1>11, <1>12 DEF SendRun, n, C

SentTurns(s, it) ==
  it = [K \in SUBSET DOMAIN s |->
          IF K = {} THEN 0 ELSE it[K \ {Max(K)}] + s[Max(K)].n]
SentRun(s, p) ==
  /\ p[0] = 0
  /\ \A k \in 1..Len(s) : p[k] = p[k - 1] + s[k].n

LEMMA SentIsFold ==
  ASSUME NEW s
  PROVE  Sent(s) = (CHOOSE it : SentTurns(s, it))[DOMAIN s]
  BY Zenon DEF Sent, FoldLeft, MapThenFoldSet, SentTurns

LEMMA SentHasRun ==
  ASSUME NEW s \in Seq(SendReturns)
  PROVE  \E p : /\ SentRun(s, p)
                /\ \A k \in 0..Len(s) : p[k] \in Nat
                /\ Sent(s) = p[Len(s)]
  <1> DEFINE n == Len(s)
             C == Nat
             f == [k \in 1..n |-> [c \in C |-> c + s[k].n]]
             all == CHOOSE it : SentTurns(s, it)
             p == [k \in 0..n |-> all[1..k]]
  <1>1. n \in Nat /\ DOMAIN s = 1..n /\ 0 \in C
    OBVIOUS
  <1>2. \A k \in 1..n, c \in C : c + s[k].n \in C
    <2> SUFFICES ASSUME NEW k \in 1..n, NEW c \in C PROVE c + s[k].n \in C
      OBVIOUS
    <2>1. s[k].n \in Nat
      BY DEF SendReturns
    <2> QED
      BY <2>1
  <1>3. f \in [1..n -> [C -> C]]
    BY <1>2
  <1>4. PICK it \in [SUBSET (1..n) -> C] : Turns(f, 0, n, it)
    <2> HIDE DEF f, n, C
    <2>1. HasTurns(C, f, 0, n)
      BY <1>1, <1>3, TurnsExist
    <2> QED
      BY <2>1 DEF HasTurns
  <1>5. SentTurns(s, it)
    <2>1. ASSUME NEW K \in SUBSET (1..n), K # {}
          PROVE  f[Max(K)][it[K \ {Max(K)}]] = it[K \ {Max(K)}] + s[Max(K)].n
      <3>1. Max(K) \in 1..n /\ K \ {Max(K)} \in SUBSET (1..n)
        BY <1>1, <2>1, MaxOfSet, Zenon
      <3> HIDE DEF C
      <3>2. it[K \ {Max(K)}] \in C
        BY <3>1
      <3> QED
        BY <3>1, <3>2
    <2> HIDE DEF f, n
    <2>2. it = [K \in SUBSET (1..n) |-> IF K = {} THEN 0 ELSE f[Max(K)][it[K \ {Max(K)}]]]
      BY <1>4, Zenon DEF Turns
    <2>3. it = [K \in SUBSET (1..n) |-> IF K = {} THEN 0
                                        ELSE it[K \ {Max(K)}] + s[Max(K)].n]
      BY ONLY <2>1, <2>2, Zenon
    <2> QED
      BY <1>1, <2>3, Zenon DEF SentTurns
  <1>6. SentTurns(s, all)
    BY <1>5
  <1>7. Sent(s) = all[1..n]
    <2>1. Sent(s) = all[DOMAIN s]
      BY SentIsFold
    <2> QED
      BY <1>1, <2>1
  <1> HIDE DEF f, n, all
  <1>8. \A K \in SUBSET (1..n) : all[K] = IF K = {} THEN 0
                                          ELSE all[K \ {Max(K)}] + s[Max(K)].n
    BY <1>1, <1>6, Zenon DEF SentTurns
  <1>9. p[0] = 0
    <2>1. 1..0 = {} /\ 0 \in 0..n
      BY <1>1
    <2> QED
      BY <1>8, <2>1, Zenon
  <1>10. ASSUME NEW k \in 1..n PROVE p[k] = p[k - 1] + s[k].n
    <2>1. k \in 0..n /\ k - 1 \in 0..n
      BY <1>1
    <2>2. p[k] = all[1..k] /\ p[k - 1] = all[1 .. k - 1]
      BY <2>1
    <2> HIDE DEF p
    <2>3. all[1..k] = all[1 .. k - 1] + s[k].n
      BY <1>1, <1>8, PrefixMax, Zenon
    <2> QED
      BY <2>2, <2>3
  <1>11. n \in 0..n /\ p[n] = all[1..n]
    BY <1>1
  <1> HIDE DEF p, C
  <1>12. \A k \in 0..n : p[k] \in C
    <2>1. \A k \in 1..n : p[k - 1] \in C => p[k] \in C
      BY <1>2, <1>10
    <2> QED
      BY ONLY <1>1, <1>9, <2>1, RunTyped, Zenon
  <1> QED
    BY <1>7, <1>9, <1>10, <1>11, <1>12 DEF SentRun, n, C

SentInv(s, len, w, p, k) ==
  \/ /\ w[k].result = "more" /\ w[k].total = Lesser(len, p[k])
     /\ \A j \in 1..k : Refuses(s[j]) => p[j - 1] >= len
  \/ /\ w[k].result # "more" /\ w[k].total < len
     /\ \E j \in 1..k : Refuses(s[j]) /\ p[j - 1] < len

LEMMA SendStep ==
  ASSUME NEW len \in Nat, NEW s \in Seq(SendReturns), NEW w, NEW p, SendRun(len, s, w), SentRun(s, p),
         \A k \in 0..Len(s) : w[k] \in SendProgress(len), \A k \in 0..Len(s) : p[k] \in Nat,
         NEW k \in 1..Len(s), SentInv(s, len, w, p, k - 1)
  PROVE  SentInv(s, len, w, p, k)
  <1> DEFINE v == w[k - 1]
             take == s[k]
             q == p[k - 1]
  <1>1. k \in Nat /\ k # 0 /\ k - 1 \in 0..Len(s) /\ k \in 0..Len(s) /\ take \in SendReturns
    OBVIOUS
  <1>2. w[k] = Send(v, take, len) /\ p[k] = q + take.n
    BY DEF SendRun, SentRun
  <1>3. /\ v \in SendProgress(len) /\ v.total \in 0..len /\ v.total \in Nat /\ q \in Nat /\ take.n \in Nat
        /\ take.kind \in {"took", "again", "error"} /\ (take.n # 0 => take.kind = "took")
    <2>1. v \in SendProgress(len) /\ q \in Nat
      BY <1>1
    <2> HIDE DEF v, q, take
    <2> QED
      BY <1>1, <2>1 DEF SendProgress, SendReturns
  <1>4. \A j \in 1..k : j = k \/ j \in 1..(k - 1)
    BY <1>1
  <1>5. 1..(k - 1) \subseteq 1..k /\ k \in 1..k
    BY <1>1
  <1>6. CASE v.result # "more"
    <2>1. w[k] = v
      <3> HIDE DEF v, take
      <3> QED
        BY <1>2, <1>6 DEF Send
    <2>2. v.total < len /\ \E j \in 1..(k - 1) : Refuses(s[j]) /\ p[j - 1] < len
      BY <1>6 DEF SentInv
    <2>3. \E j \in 1..k : Refuses(s[j]) /\ p[j - 1] < len
      BY <1>5, <2>2
    <2> QED
      BY <1>6, <2>1, <2>2, <2>3 DEF SentInv
  <1>7. CASE v.result = "more"
    <2>1. v.total = Lesser(len, q) /\ \A j \in 1..(k - 1) : Refuses(s[j]) => p[j - 1] >= len
      BY <1>7 DEF SentInv
    <2>2. ASSUME Refuses(take) => q >= len
          PROVE  \A j \in 1..k : Refuses(s[j]) => p[j - 1] >= len
      BY <1>4, <2>1, <2>2
    <2>3. ASSUME Refuses(take), q < len
          PROVE  \E j \in 1..k : Refuses(s[j]) /\ p[j - 1] < len
      BY <1>5, <2>3
    <2> HIDE DEF v, take, q
    <2>4. CASE v.total = len
      <3>1. q >= len /\ Lesser(len, p[k]) = len
        BY <1>2, <1>3, <2>1, <2>4 DEF Lesser
      <3>2. w[k] = v
        BY <1>2, <2>4 DEF Send
      <3> QED
        BY <1>7, <2>2, <2>4, <3>1, <3>2 DEF SentInv
    <2>5. CASE v.total # len
      <3>1. q < len /\ v.total = q
        BY <1>3, <2>1, <2>5 DEF Lesser
      <3>2. CASE Refuses(take)
        <4>1. w[k].result # "more" /\ w[k].total = q
          <5>1. take.kind = "error" \/ (take.kind = "took" /\ take.n = 0)
            BY <1>3, <3>2 DEF Refuses
          <5>2. /\ take.kind = "error" => w[k] = [v EXCEPT !.result = "error"]
                /\ take.kind = "took" => w[k] = [v EXCEPT !.result = "short"]
            BY <1>2, <1>7, <2>5, <5>1 DEF Send
          <5> QED
            BY <1>3, <3>1, <5>1, <5>2 DEF SendProgress
        <4> QED
          BY <2>3, <3>1, <3>2, <4>1 DEF SentInv
      <3>3. CASE ~Refuses(take)
        <4>1. w[k].result = "more" /\ w[k].total = Lesser(len, p[k])
          <5>1. CASE take.kind = "again"
            <6>1. w[k] = v /\ take.n = 0
              BY <1>2, <1>3, <1>7, <2>5, <5>1 DEF Send
            <6>2. p[k] = q
              BY <1>2, <1>3, <6>1
            <6> QED
              BY <1>7, <2>1, <6>1, <6>2
          <5>2. CASE take.kind # "again"
            <6>1. take.kind = "took" /\ take.n # 0
              BY <1>3, <3>3, <5>2 DEF Refuses
            <6>2. w[k] = [v EXCEPT !.total = Lesser(len, v.total + take.n)]
              BY <1>2, <1>7, <2>5, <6>1 DEF Send
            <6>3. w[k].total = Lesser(len, v.total + take.n) /\ w[k].result = v.result
              BY <1>3, <6>2 DEF SendProgress
            <6> QED
              BY <1>2, <1>7, <3>1, <6>3
          <5> QED
            BY <5>1, <5>2
        <4> QED
          BY <2>2, <3>3, <4>1 DEF SentInv
      <3> QED
        BY <3>2, <3>3
    <2> QED
      BY <2>4, <2>5
  <1> QED
    BY <1>6, <1>7

LEMMA SendInvHolds ==
  ASSUME NEW len \in Nat, NEW s \in Seq(SendReturns), NEW w, NEW p, SendRun(len, s, w), SentRun(s, p),
         \A k \in 0..Len(s) : w[k] \in SendProgress(len), \A k \in 0..Len(s) : p[k] \in Nat
  PROVE  SentInv(s, len, w, p, Len(s))
  <1> DEFINE Good == {k \in Nat : k <= Len(s) => SentInv(s, len, w, p, k)}
  <1>1. 0 \in Good
    <2>1. w[0] = [total |-> 0, result |-> "more"] /\ p[0] = 0
      BY DEF SendRun, SentRun
    <2>2. w[0].total = 0 /\ w[0].result = "more" /\ Lesser(len, 0) = 0 /\ 1..0 = {}
      BY <2>1 DEF Lesser
    <2>3. SentInv(s, len, w, p, 0)
      BY <2>1, <2>2 DEF SentInv
    <2> QED
      BY <2>3
  <1>2. ASSUME NEW k \in Nat, k \in Good PROVE k + 1 \in Good
    <2> SUFFICES ASSUME k + 1 <= Len(s) PROVE SentInv(s, len, w, p, k + 1)
      OBVIOUS
    <2>1. k + 1 \in 1..Len(s) /\ (k + 1) - 1 = k /\ k <= Len(s)
      OBVIOUS
    <2>2. SentInv(s, len, w, p, k)
      BY <1>2, <2>1
    <2> HIDE DEF Good
    <2> DEFINE m == k + 1
    <2>3. m \in 1..Len(s) /\ SentInv(s, len, w, p, m - 1)
      BY <2>1, <2>2
    <2> HIDE DEF m
    <2>4. SentInv(s, len, w, p, m)
      BY <2>3, SendStep, Zenon
    <2> QED
      BY <2>4 DEF m
  <1> HIDE DEF Good
  <1>3. Nat \subseteq Good
    BY <1>1, <1>2, SetInduction
  <1>4. Len(s) \in Good /\ Len(s) <= Len(s)
    BY <1>3
  <1> QED
    BY <1>4 DEF Good

(* The sums of the prefixes are those of the run, which never falls.         *)
LEMMA SentOfPrefix ==
  ASSUME NEW s \in Seq(SendReturns), NEW p, SentRun(s, p), NEW k \in 0..Len(s)
  PROVE  Sent(SubSeq(s, 1, k)) = p[k]
  <1> DEFINE c == SubSeq(s, 1, k)
  <1>1. c \in Seq(SendReturns) /\ Len(c) = k /\ \A j \in 1..k : c[j] = s[j]
    OBVIOUS
  <1> HIDE DEF c
  <1>2. PICK q : SentRun(c, q) /\ (\A j \in 0..Len(c) : q[j] \in Nat) /\ Sent(c) = q[Len(c)]
    BY <1>1, SentHasRun
  <1> DEFINE Good == {j \in Nat : j <= k => q[j] = p[j]}
  <1>3. 0 \in Good
    BY <1>2 DEF SentRun
  <1>4. ASSUME NEW j \in Nat, j \in Good PROVE j + 1 \in Good
    <2> SUFFICES ASSUME j + 1 <= k PROVE q[j + 1] = p[j + 1]
      OBVIOUS
    <2>1. j + 1 \in 1..Len(c) /\ j + 1 \in 1..k /\ j + 1 \in 1..Len(s) /\ (j + 1) - 1 = j /\ j <= k
      BY <1>1
    <2>2. q[j + 1] = q[j] + c[j + 1].n
      BY <1>2, <2>1 DEF SentRun
    <2>3. p[j + 1] = p[j] + s[j + 1].n
      BY <2>1 DEF SentRun
    <2> QED
      BY <1>1, <1>4, <2>1, <2>2, <2>3
  <1> HIDE DEF Good
  <1>5. Nat \subseteq Good
    BY <1>3, <1>4, SetInduction
  <1>6. k \in Good /\ k <= k
    BY <1>5
  <1> QED
    BY <1>1, <1>2, <1>6 DEF Good, c

LEMMA SentGrows ==
  ASSUME NEW s \in Seq(SendReturns), NEW p, SentRun(s, p), \A k \in 0..Len(s) : p[k] \in Nat,
         NEW k \in 1..Len(s)
  PROVE  p[k] >= s[1].n
  <1> DEFINE Good == {j \in Nat : j + 1 <= Len(s) => p[j + 1] >= s[1].n}
  <1>1. \A j \in 1..Len(s) : s[j].n \in Nat
    BY DEF SendReturns
  <1>2. 0 \in Good
    <2> SUFFICES ASSUME 0 + 1 <= Len(s) PROVE p[0 + 1] >= s[1].n
      OBVIOUS
    <2>1. 1 \in 1..Len(s) /\ 0 + 1 = 1 /\ 1 - 1 = 0
      OBVIOUS
    <2>2. p[1] = p[0] + s[1].n /\ p[0] = 0
      BY <2>1 DEF SentRun
    <2> QED
      BY <1>1, <2>1, <2>2
  <1>3. ASSUME NEW j \in Nat, j \in Good PROVE j + 1 \in Good
    <2> DEFINE m == j + 1
    <2>1. m \in Nat /\ m - 1 = j
      OBVIOUS
    <2> SUFFICES ASSUME m + 1 <= Len(s) PROVE p[m + 1] >= s[1].n
      BY <2>1
    <2>2. m + 1 \in 1..Len(s) /\ m \in 0..Len(s) /\ 1 \in 1..Len(s) /\ (m + 1) - 1 = m /\ m <= Len(s)
      BY <2>1
    <2>3. p[m] >= s[1].n
      BY <1>3, <2>2
    <2> HIDE DEF Good, m
    <2>4. p[m + 1] = p[m] + s[m + 1].n
      BY <2>2 DEF SentRun
    <2>5. p[m] \in Nat /\ s[m + 1].n \in Nat /\ s[1].n \in Nat
      BY <1>1, <2>2, Zenon
    <2> QED
      BY <2>3, <2>4, <2>5
  <1> HIDE DEF Good
  <1>4. Nat \subseteq Good
    BY <1>2, <1>3, SetInduction
  <1>5. k - 1 \in Good /\ (k - 1) + 1 = k /\ k <= Len(s)
    BY <1>4
  <1> QED
    BY <1>5 DEF Good

(* socket_printf returns 0 exactly if all of the line was sent, whatever the *)
(* calls of send take, and fd_printf never if it was not (socket.c,          *)
(* fdutils.c).                                                               *)
THEOREM WritesAreWhole ==
  ASSUME NEW takes \in Seq(SendReturns), NEW len \in Nat
  PROVE  WritesAreReported(takes, len)
  <1> DEFINE N == Len(takes)
             stops == {k \in DOMAIN takes : takes[k].kind # "again" /\ takes[k].n = 0}
             all == Sent(takes) >= len /\ \A k \in stops : Sent(SubSeq(takes, 1, k - 1)) >= len
  <1>1. PICK w : /\ SendRun(len, takes, w) /\ \A k \in 0..N : w[k] \in SendProgress(len)
                 /\ SocketWrite(takes, len) = w[N]
    BY SendHasRun
  <1>2. PICK p : SentRun(takes, p) /\ (\A k \in 0..N : p[k] \in Nat) /\ Sent(takes) = p[N]
    BY SentHasRun
  <1>3. SentInv(takes, len, w, p, N)
    BY <1>1, <1>2, SendInvHolds
  <1>4. N \in Nat /\ DOMAIN takes = 1..N /\ p[N] \in Nat /\ w[N].total \in Nat
    <2>1. N \in Nat /\ DOMAIN takes = 1..N /\ N \in 0..N
      OBVIOUS
    <2>2. p[N] \in Nat /\ w[N] \in SendProgress(len)
      BY <1>1, <1>2, <2>1
    <2> QED
      BY <2>1, <2>2 DEF SendProgress
  <1>5. \A k \in 1..N : Sent(SubSeq(takes, 1, k - 1)) = p[k - 1] /\ p[k - 1] \in Nat
    <2> SUFFICES ASSUME NEW k \in 1..N
                 PROVE  Sent(SubSeq(takes, 1, k - 1)) = p[k - 1] /\ p[k - 1] \in Nat
      OBVIOUS
    <2> DEFINE j == k - 1
    <2>1. j \in 0..N
      OBVIOUS
    <2> HIDE DEF j
    <2>2. Sent(SubSeq(takes, 1, j)) = p[j] /\ p[j] \in Nat
      BY <1>2, <2>1, SentOfPrefix
    <2> QED
      BY <2>2 DEF j
  <1>6. \A k \in stops : k \in 1..N /\ Refuses(takes[k])
    BY <1>4 DEF Refuses
  <1>7. \A k \in 1..N : Refuses(takes[k]) => k \in stops
    BY <1>4 DEF Refuses
  <1>8. SocketPrintf(takes, len) = 0 <=> w[N].total = len
    BY <1>1 DEF SocketPrintf
  <1> HIDE DEF N, stops
  <1>9. w[N].total = len <=> all
    <2>1. CASE /\ w[N].result = "more" /\ w[N].total = Lesser(len, p[N])
               /\ \A j \in 1..N : Refuses(takes[j]) => p[j - 1] >= len
      <3>1. w[N].total = len <=> p[N] >= len
        BY <1>4, <2>1 DEF Lesser
      <3>2. \A k \in stops : Sent(SubSeq(takes, 1, k - 1)) >= len
        BY <1>5, <1>6, <2>1
      <3> QED
        BY <1>2, <3>1, <3>2
    <2>2. CASE /\ w[N].result # "more" /\ w[N].total < len
               /\ \E j \in 1..N : Refuses(takes[j]) /\ p[j - 1] < len
      <3>1. PICK j \in 1..N : Refuses(takes[j]) /\ p[j - 1] < len
        BY <2>2
      <3>2. j \in stops /\ Sent(SubSeq(takes, 1, j - 1)) < len /\ Sent(SubSeq(takes, 1, j - 1)) \in Nat
        BY <1>5, <1>7, <3>1
      <3>3. ~all
        BY <3>2
      <3> QED
        BY <1>4, <2>2, <3>3
    <2> QED
      BY <1>3, <2>1, <2>2 DEF SentInv
  <1>10. ASSUME takes # <<>>, FdPrintf(takes, len) = 0 PROVE all
    <2>1. takes[1].kind = "took" /\ takes[1].n >= len
      BY <1>10 DEF FdPrintf
    <2>2. 1 \in 1..N /\ 1 - 1 = 0 /\ N >= 1 /\ N \in 1..N /\ takes[1].n \in Nat
      BY <1>10 DEF N, SendReturns
    <2>3. \A k \in 1..N : p[k] >= takes[1].n
      BY <1>2, SentGrows DEF N
    <2>4. Sent(takes) >= len
      BY <1>2, <1>4, <2>1, <2>2, <2>3
    <2>5. ASSUME NEW k \in stops PROVE Sent(SubSeq(takes, 1, k - 1)) >= len
      <3>1. k \in 1..N /\ Refuses(takes[k]) /\ Sent(SubSeq(takes, 1, k - 1)) = p[k - 1] /\ p[k - 1] \in Nat
        BY <1>5, <1>6
      <3>2. CASE k = 1
        <4>1. takes[1].n = 0
          BY <3>1, <3>2 DEF Refuses
        <4>2. len = 0
          BY <2>1, <4>1
        <4> QED
          BY <3>1, <4>2
      <3>3. CASE k # 1
        <4>1. k - 1 \in 1..N
          BY <1>4, <3>1, <3>3
        <4> DEFINE m == p[k - 1]
        <4>2. m >= takes[1].n
          BY <2>3, <4>1
        <4>3. m \in Nat /\ Sent(SubSeq(takes, 1, k - 1)) = m
          BY <3>1
        <4> HIDE DEF m
        <4> QED
          BY <2>1, <2>2, <4>2, <4>3
      <3> QED
        BY <3>2, <3>3
    <2> QED
      BY <2>4, <2>5
  <1> HIDE DEF all
  <1>11. /\ SocketPrintf(takes, len) = 0 <=> all
         /\ takes # <<>> /\ FdPrintf(takes, len) = 0 => SocketPrintf(takes, len) = 0
    BY <1>8, <1>9, <1>10
  <1> QED
    BY <1>11 DEF WritesAreReported, all, stops

-----------------------------------------------------------------------------
(* The streams of Inputs.                                                    *)

Cutting(T) == [ended : Seq(Seq(T)), chunk : Seq(T)]

LEMMA CloseTyped ==
  ASSUME NEW T, NEW c \in Cutting(T)
  PROVE  Close(c) \in Cutting(T) /\ CutAt(c) \in Cutting(T)
  <1>1. c.ended \in Seq(Seq(T)) /\ c.chunk \in Seq(T)
    BY DEF Cutting
  <1>2. Append(c.ended, c.chunk) \in Seq(Seq(T)) /\ <<>> \in Seq(T)
    BY <1>1, AppendProperties
  <1> QED
    BY <1>2 DEF Close, CutAt, Cutting

LEMMA DeliverTyped ==
  ASSUME NEW T, NEW c \in Cutting(T), NEW ch \in T
  PROVE  Deliver(c, ch) \in Cutting(T)
  <1>1. Append(c.chunk, ch) \in Seq(T)
    BY AppendProperties DEF Cutting
  <1>2. [c EXCEPT !.chunk = Append(@, ch)] \in Cutting(T)
    BY <1>1, Zenon DEF Cutting
  <1> QED
    BY <1>2, CloseTyped DEF Deliver

DeliverTurns(s, it) ==
  it = [K \in SUBSET DOMAIN s |->
          IF K = {} THEN [ended |-> <<>>, chunk |-> <<>>] ELSE Deliver(it[K \ {Max(K)}], s[Max(K)])]
DeliverRun(s, p) ==
  /\ p[0] = [ended |-> <<>>, chunk |-> <<>>]
  /\ \A k \in 1..Len(s) : p[k] = Deliver(p[k - 1], s[k])

LEMMA DeliverIsFold ==
  ASSUME NEW s
  PROVE  FoldLeft(Deliver, [ended |-> <<>>, chunk |-> <<>>], s) = (CHOOSE it : DeliverTurns(s, it))[DOMAIN s]
  BY Zenon DEF FoldLeft, MapThenFoldSet, DeliverTurns

LEMMA DeliverHasRun ==
  ASSUME NEW T, NEW s \in Seq(T)
  PROVE  \E p : /\ DeliverRun(s, p)
                /\ \A k \in 0..Len(s) : p[k] \in Cutting(T)
                /\ FoldLeft(Deliver, [ended |-> <<>>, chunk |-> <<>>], s) = p[Len(s)]
  <1> DEFINE n == Len(s)
             C == Cutting(T)
             f == [k \in 1..n |-> [c \in C |-> Deliver(c, s[k])]]
             all == CHOOSE it : DeliverTurns(s, it)
             p == [k \in 0..n |-> all[1..k]]
  <1>1. n \in Nat /\ DOMAIN s = 1..n /\ [ended |-> <<>>, chunk |-> <<>>] \in C
    BY DEF Cutting
  <1>2. \A k \in 1..n, c \in C : Deliver(c, s[k]) \in C
    <2> SUFFICES ASSUME NEW k \in 1..n, NEW c \in C PROVE Deliver(c, s[k]) \in C
      OBVIOUS
    <2>1. s[k] \in T
      OBVIOUS
    <2> QED
      BY <2>1, DeliverTyped
  <1>3. f \in [1..n -> [C -> C]]
    BY <1>2
  <1>4. PICK it \in [SUBSET (1..n) -> C] : Turns(f, [ended |-> <<>>, chunk |-> <<>>], n, it)
    <2> HIDE DEF f, n, C
    <2>1. HasTurns(C, f, [ended |-> <<>>, chunk |-> <<>>], n)
      BY <1>1, <1>3, TurnsExist
    <2> QED
      BY <2>1 DEF HasTurns
  <1>5. DeliverTurns(s, it)
    <2>1. ASSUME NEW K \in SUBSET (1..n), K # {}
          PROVE  f[Max(K)][it[K \ {Max(K)}]] = Deliver(it[K \ {Max(K)}], s[Max(K)])
      <3>1. Max(K) \in 1..n /\ K \ {Max(K)} \in SUBSET (1..n)
        BY <1>1, <2>1, MaxOfSet, Zenon
      <3> HIDE DEF C
      <3>2. it[K \ {Max(K)}] \in C
        BY <3>1
      <3> QED
        BY <3>1, <3>2
    <2> HIDE DEF f, n
    <2>2. it = [K \in SUBSET (1..n) |-> IF K = {} THEN [ended |-> <<>>, chunk |-> <<>>] ELSE f[Max(K)][it[K \ {Max(K)}]]]
      BY <1>4, Zenon DEF Turns
    <2>3. it = [K \in SUBSET (1..n) |-> IF K = {} THEN [ended |-> <<>>, chunk |-> <<>>]
                                        ELSE Deliver(it[K \ {Max(K)}], s[Max(K)])]
      BY ONLY <2>1, <2>2, Zenon
    <2> QED
      BY <1>1, <2>3, Zenon DEF DeliverTurns
  <1>6. DeliverTurns(s, all)
    BY <1>5
  <1>7. FoldLeft(Deliver, [ended |-> <<>>, chunk |-> <<>>], s) = all[1..n]
    <2>1. FoldLeft(Deliver, [ended |-> <<>>, chunk |-> <<>>], s) = all[DOMAIN s]
      BY DeliverIsFold
    <2> QED
      BY <1>1, <2>1
  <1> HIDE DEF f, n, all
  <1>8. \A K \in SUBSET (1..n) : all[K] = IF K = {} THEN [ended |-> <<>>, chunk |-> <<>>]
                                          ELSE Deliver(all[K \ {Max(K)}], s[Max(K)])
    BY <1>1, <1>6, Zenon DEF DeliverTurns
  <1>9. p[0] = [ended |-> <<>>, chunk |-> <<>>]
    <2>1. 1..0 = {} /\ 0 \in 0..n
      BY <1>1
    <2> QED
      BY <1>8, <2>1, Zenon
  <1>10. ASSUME NEW k \in 1..n PROVE p[k] = Deliver(p[k - 1], s[k])
    <2>1. k \in 0..n /\ k - 1 \in 0..n
      BY <1>1
    <2>2. p[k] = all[1..k] /\ p[k - 1] = all[1 .. k - 1]
      BY <2>1
    <2> HIDE DEF p
    <2>3. all[1..k] = Deliver(all[1 .. k - 1], s[k])
      BY <1>1, <1>8, PrefixMax, Zenon
    <2> QED
      BY <2>2, <2>3
  <1>11. n \in 0..n /\ p[n] = all[1..n]
    BY <1>1
  <1> HIDE DEF p, C
  <1>12. \A k \in 0..n : p[k] \in C
    <2>1. \A k \in 1..n : p[k - 1] \in C => p[k] \in C
      BY <1>2, <1>10
    <2> QED
      BY ONLY <1>1, <1>9, <2>1, RunTyped, Zenon
  <1> QED
    BY <1>7, <1>9, <1>10, <1>11, <1>12, Zenon DEF DeliverRun, n, C

LEMMA ChunksTyped ==
  ASSUME NEW T, NEW s \in Seq(T)
  PROVE  Chunks(s) \in Seq(Seq(T))
  <1>1. PICK p : /\ DeliverRun(s, p) /\ \A k \in 0..Len(s) : p[k] \in Cutting(T)
                 /\ FoldLeft(Deliver, [ended |-> <<>>, chunk |-> <<>>], s) = p[Len(s)]
    BY DeliverHasRun
  <1> DEFINE c == p[Len(s)]
  <1>2. c \in Cutting(T)
    BY <1>1
  <1>3. Chunks(s) = Close(c).ended
    BY <1>1 DEF Chunks
  <1> HIDE DEF c
  <1>4. Close(c) \in Cutting(T)
    BY <1>2, CloseTyped
  <1> QED
    BY <1>3, <1>4 DEF Cutting

LEMMA SpelledInChunks ==
  ASSUME input \in Seq(Symbol), NEW T, NEW alphabet, \A c \in Symbol : alphabet[c] \in T
  PROVE  Chunks(Spell(alphabet)) \in Seq(Seq(T))
  BY SpelledIn, ChunksTyped

LEMMA SpelledInTakes ==
  ASSUME input \in Seq(Symbol)
  PROVE  Spell(Takes) \in Seq(SendReturns)
  <1>1. \A n \in Nat : Took(n) \in SendReturns
    BY DEF Took, SendReturns
  <1>2. /\ Takes[1] = Took(1) /\ Takes[2] = Took(2) /\ Takes[3] = Took(0) /\ Takes[6] = Took(4)
        /\ Takes[4] = [kind |-> "again", n |-> 0] /\ Takes[5] = [kind |-> "error", n |-> 0]
    BY DEF Takes
  <1>3. Takes[4] \in SendReturns /\ Takes[5] \in SendReturns
    BY <1>2 DEF SendReturns
  <1>4. \A c \in Symbol : Takes[c] \in SendReturns
    BY <1>1, <1>2, <1>3, SymbolIs, Zenon
  <1> QED
    BY <1>4, SpelledIn

(* fdutils.c and socket.c: whatever the stream and however it is cut, the    *)
(* lines, the text behind the telnet commands and the replies are the same,  *)
(* and a line that was not sent whole is never reported as sent.             *)
THEOREM StreamsStayWhole == Spec => []StreamsAreWhole
  <1> DEFINE A == <<"x", "nl", "cut", "y", "cr", "nul">>
             B == <<"x", "nl", "cut", "iac", "do", "nul">>
             T == {"x", "nl", "cut", "y", "cr", "nul", "iac", "do"}
  <1>1. \A c \in Symbol : A[c] \in T
    BY SymbolIs
  <1>2. \A c \in Symbol : B[c] \in T
    BY SymbolIs
  <1> HIDE DEF A, B, T
  <1>3. input \in Seq(Symbol) => StreamsAreWhole
    <2> SUFFICES ASSUME input \in Seq(Symbol) PROVE StreamsAreWhole
      OBVIOUS
    <2>1. LinesSurviveChunks(Chunks(Spell(A)))
      <3>1. Chunks(Spell(A)) \in Seq(Seq(T))
        BY <1>1, SpelledInChunks
      <3> QED
        BY <3>1, LinesAreWhole
    <2>2. TelnetSurvivesChunks(Chunks(Spell(B)))
      <3>1. Chunks(Spell(B)) \in Seq(Seq(T))
        BY <1>2, SpelledInChunks
      <3> QED
        BY <3>1, TelnetIsWhole
    <2>3. WritesAreReported(Spell(Takes), 3)
      <3>1. 3 \in Nat
        OBVIOUS
      <3> QED
        BY <3>1, SpelledInTakes, WritesAreWhole
    <2> QED
      BY <2>1, <2>2, <2>3 DEF StreamsAreWhole, A, B
  <1> QED
    BY <1>3, InputIsTyped, PTL
=============================================================================
