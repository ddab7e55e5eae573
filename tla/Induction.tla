------------------------------ MODULE Induction ------------------------------
(***************************************************************************)
(* Induction over the natural numbers for facts that are given as a set,   *)
(* and what it says of the sequence operators the models are built from.   *)
(***************************************************************************)
EXTENDS Naturals, SequencesExt, FiniteSetTheorems, WellFoundedInduction, TLAPS

\* The pairs of numbers of which the first is the less.
Less == {p \in Nat \X Nat : p[1] < p[2]}

\* No sequence of numbers descends for ever.
LEMMA LessIsWellFounded == IsWellFoundedOn(Less, Nat)
  BY NatLessThanWellFounded DEF OpToRel, Less

(* A set of numbers has a least one.                                       *)
LEMMA LeastOfSet ==
    ASSUME NEW S \in SUBSET Nat, S # {}
    PROVE  \E n \in S : \A m \in S : n <= m
<1>1. PICK x \in S : \A y \in S : ~ (<<y, x>> \in Less)
  BY LessIsWellFounded, WFMin
<1>2. ASSUME NEW m \in S PROVE x <= m
  <2>1. /\ <<m, x>> \in Nat \X Nat
        /\ <<m, x>>[1] = m /\ <<m, x>>[2] = x
    OBVIOUS
  <2> QED
    BY <1>1, <2>1 DEF Less
<1> QED
  BY <1>1, <1>2

(* A set that has 0 and with each number the next has all of them. *)
LEMMA SetInduction ==
    ASSUME NEW S, 0 \in S, \A n \in Nat : n \in S => n + 1 \in S
    PROVE  \A n \in Nat : n \in S
<1>1. ASSUME Nat \ S # {} PROVE FALSE
  <2>1. PICK n \in Nat \ S : \A m \in Nat \ S : n <= m
    BY <1>1, LeastOfSet
  <2>2. n - 1 \in Nat /\ n - 1 \in S
    BY <2>1
  <2> QED
    BY <2>1, <2>2
<1> QED
  BY <1>1

(* What FlattenSeq recurs over is the function its equation describes. *)
LEMMA FlattenExists ==
    ASSUME NEW s
    PROVE  \A n \in Nat : \E f :
                f = [i \in 1..n |-> IF i = 1 THEN s[i] ELSE f[i - 1] \o s[i]]
<1> DEFINE P(n) == \E f : f = [i \in 1..n |-> IF i = 1 THEN s[i] ELSE f[i - 1] \o s[i]]
           D == {n \in Nat : P(n)}
<1>1. 0 \in D
  <2>1. <<>> = [i \in 1..0 |-> IF i = 1 THEN s[i] ELSE <<>>[i - 1] \o s[i]]
    OBVIOUS
  <2> QED
    BY <2>1
<1>2. ASSUME NEW n \in Nat, n \in D PROVE n + 1 \in D
  <2>1. PICK f : f = [i \in 1..n |-> IF i = 1 THEN s[i] ELSE f[i - 1] \o s[i]]
    BY <1>2
  <2> DEFINE g == [i \in 1..(n + 1) |->
                    IF i <= n THEN f[i] ELSE IF i = 1 THEN s[i] ELSE f[i - 1] \o s[i]]
  <2>2. ASSUME NEW i \in 1..(n + 1)
        PROVE  g[i] = IF i = 1 THEN s[i] ELSE g[i - 1] \o s[i]
    <3>1. i # 1 => i - 1 \in 1..n /\ g[i - 1] = f[i - 1]
      OBVIOUS
    <3>2. CASE i <= n
      <4>1. i \in 1..n /\ g[i] = f[i]
        BY <3>2
      <4> QED
        BY <2>1, <3>1, <4>1
    <3>3. CASE ~(i <= n)
      <4>1. g[i] = IF i = 1 THEN s[i] ELSE f[i - 1] \o s[i]
        BY <3>3
      <4> QED
        BY <3>1, <4>1
    <3> QED
      BY <3>2, <3>3
  <2> HIDE DEF g
  <2>3. DOMAIN g = 1..(n + 1) /\ g = [i \in 1..(n + 1) |-> g[i]]
    BY DEF g
  <2>4. g = [i \in 1..(n + 1) |-> IF i = 1 THEN s[i] ELSE g[i - 1] \o s[i]]
    BY <2>2, <2>3
  <2>5. P(n + 1)
    BY <2>4
  <2> HIDE DEF P
  <2> QED
    BY <2>5
<1>3. \A n \in Nat : n \in D
  <2> HIDE DEF D
  <2> QED
    BY <1>1, <1>2, SetInduction
<1> QED
  BY <1>3

(* Two sequences one after the other have the elements of both.            *)
LEMMA RangeOfConcat ==
    ASSUME NEW S, NEW s \in Seq(S), NEW t \in Seq(S)
    PROVE  ToSet(s \o t) = ToSet(s) \cup ToSet(t)
<1>1. /\ Len(s \o t) = Len(s) + Len(t) /\ s \o t \in Seq(S)
      /\ \A i \in 1..Len(s) : (s \o t)[i] = s[i]
      /\ \A i \in 1..Len(t) : (s \o t)[Len(s) + i] = t[i]
      /\ \A i \in 1..Len(s \o t) : i <= Len(s) \/ i - Len(s) \in 1..Len(t)
  OBVIOUS
<1>2. /\ DOMAIN s = 1..Len(s) /\ DOMAIN t = 1..Len(t)
      /\ DOMAIN (s \o t) = 1..Len(s \o t)
  OBVIOUS
<1>3. ToSet(s) \cup ToSet(t) \subseteq ToSet(s \o t)
  <2>1. ASSUME NEW i \in 1..Len(s) PROVE s[i] \in ToSet(s \o t)
    <3>1. i \in 1..Len(s \o t)
      BY <1>1
    <3> QED
      BY <1>1, <1>2, <3>1 DEF ToSet
  <2>2. ASSUME NEW i \in 1..Len(t) PROVE t[i] \in ToSet(s \o t)
    <3>1. Len(s) + i \in 1..Len(s \o t)
      BY <1>1
    <3> QED
      BY <1>1, <1>2, <3>1 DEF ToSet
  <2> QED
    BY <1>2, <2>1, <2>2 DEF ToSet
<1>4. ASSUME NEW i \in 1..Len(s \o t) PROVE (s \o t)[i] \in ToSet(s) \cup ToSet(t)
  <2>1. CASE i <= Len(s)
    BY <1>1, <1>2, <2>1 DEF ToSet
  <2>2. CASE i - Len(s) \in 1..Len(t)
    <3>1. i = Len(s) + (i - Len(s))
      OBVIOUS
    <3> QED
      BY <1>1, <1>2, <2>2, <3>1 DEF ToSet
  <2> QED
    BY <1>1, <2>1, <2>2
<1> QED
  BY <1>2, <1>3, <1>4 DEF ToSet

(* Flattening sequences over S gives one with the elements of them all.    *)
LEMMA FlattenIs ==
    ASSUME NEW S, NEW n \in Nat, NEW s \in [1..n -> Seq(S)]
    PROVE  /\ FlattenSeq(s) \in Seq(S)
           /\ ToSet(FlattenSeq(s)) = UNION {ToSet(s[i]) : i \in 1..n}
<1>1. Len(s) = n /\ s \in Seq(Seq(S))
  OBVIOUS
<1>2. CASE n = 0
  <2>1. s = <<>>
    BY <1>2
  <2> QED
    BY <1>1, <1>2, <2>1 DEF FlattenSeq, ToSet
<1>3. CASE n # 0
  <2> DEFINE F == CHOOSE f :
                    f = [i \in 1..Len(s) |-> IF i = 1 THEN s[i] ELSE f[i - 1] \o s[i]]
  <2>1. FlattenSeq(s) = F[n]
    BY <1>1, <1>3 DEF FlattenSeq
  <2>2. F = [i \in 1..n |-> IF i = 1 THEN s[i] ELSE F[i - 1] \o s[i]]
    BY <1>1, FlattenExists
  <2> HIDE DEF F
  <2>6. ASSUME NEW i \in 1..n
        PROVE  F[i] = IF i = 1 THEN s[i] ELSE F[i - 1] \o s[i]
    BY <2>2
  <2> DEFINE D == {k \in Nat : k \in 1..n =>
                        /\ F[k] \in Seq(S)
                        /\ ToSet(F[k]) = UNION {ToSet(s[i]) : i \in 1..k}}
  <2>3. 0 \in D
    OBVIOUS
  <2>4. ASSUME NEW k \in Nat, k \in D PROVE k + 1 \in D
    <3> SUFFICES ASSUME k + 1 \in 1..n
                 PROVE  /\ F[k + 1] \in Seq(S)
                        /\ ToSet(F[k + 1]) = UNION {ToSet(s[i]) : i \in 1..(k + 1)}
      OBVIOUS
    <3>1. CASE k = 0
      <4>1. F[1] = s[1] /\ 1..1 = {1}
        BY <2>2, <3>1
      <4> QED
        BY <3>1, <4>1
    <3>2. CASE k # 0
      <4>1. k \in 1..n /\ k + 1 # 1 /\ k + 1 - 1 = k
        BY <3>2
      <4>2. /\ F[k] \in Seq(S)
            /\ ToSet(F[k]) = UNION {ToSet(s[i]) : i \in 1..k}
        BY <2>4, <4>1
      <4>3. F[k + 1] = F[k] \o s[k + 1] /\ s[k + 1] \in Seq(S)
        <5>1. F[k + 1] = IF k + 1 = 1 THEN s[k + 1] ELSE F[k + 1 - 1] \o s[k + 1]
          BY <2>6
        <5> QED
          BY <4>1, <5>1
      <4>4. ToSet(F[k + 1]) = ToSet(F[k]) \cup ToSet(s[k + 1])
        BY <4>2, <4>3, RangeOfConcat
      <4>5. F[k + 1] \in Seq(S)
        BY <4>2, <4>3
      <4>6. 1..(k + 1) = 1..k \cup {k + 1}
        OBVIOUS
      <4>7. UNION {ToSet(s[i]) : i \in 1..(k + 1)}
                = (UNION {ToSet(s[i]) : i \in 1..k}) \cup ToSet(s[k + 1])
        BY <4>6
      <4> QED
        BY <4>2, <4>4, <4>5, <4>7
    <3> QED
      BY <3>1, <3>2
  <2>5. n \in D
    <3> HIDE DEF D
    <3> QED
      BY <2>3, <2>4, SetInduction
  <2> QED
    BY <1>3, <2>1, <2>5
<1> QED
  BY <1>2, <1>3

(* The same, element by element.                                           *)
LEMMA FlattenHas ==
    ASSUME NEW S, NEW n \in Nat, NEW s \in [1..n -> Seq(S)]
    PROVE  \A a : a \in ToSet(FlattenSeq(s)) <=> \E i \in 1..n : a \in ToSet(s[i])
<1>1. ToSet(FlattenSeq(s)) = UNION {ToSet(s[i]) : i \in 1..n}
  BY FlattenIs
<1> QED
  BY <1>1, Zenon

(* The sequence of a finite set has each of its elements. *)
LEMMA SetToSeqIs ==
    ASSUME NEW S, IsFiniteSet(S)
    PROVE  /\ SetToSeq(S) \in [1..Len(SetToSeq(S)) -> S]
           /\ Len(SetToSeq(S)) \in Nat
           /\ ToSet(SetToSeq(S)) = S
<1> DEFINE n == Cardinality(S)
           q == SetToSeq(S)
<1>1. n \in Nat
  BY FS_CardinalityType
<1>2. \E f \in [1..n -> S] : IsInjective(f)
  BY FS_CardinalityType, FS_Bijection DEF ExistsBijection, Bijection, Injection, IsInjective
<1>3. q \in [1..n -> S] /\ IsInjective(q)
  BY <1>2 DEF SetToSeq
<1> HIDE DEF q
<1>4. DOMAIN q = 1..n /\ Len(q) = n
  BY <1>1, <1>3
<1>5. ASSUME NEW x \in S, \A i \in 1..n : q[i] # x PROVE FALSE
  <2>1. q \in [1..n -> S \ {x}]
    BY <1>3, <1>5
  <2>2. /\ IsFiniteSet(S \ {x}) /\ Cardinality(S \ {x}) = n - 1
        /\ IsFiniteSet(1..n) /\ Cardinality(1..n) = n
    BY <1>1, FS_RemoveElement, FS_Interval, SMTT(40)
  <2>3. \E i, j \in 1..n : i # j /\ q[i] = q[j]
    BY <1>1, <2>1, <2>2, FS_PigeonHole
  <2> QED
    BY <1>3, <1>4, <2>3 DEF IsInjective
<1>6. ToSet(q) = S
  BY <1>3, <1>4, <1>5 DEF ToSet
<1> QED
  BY <1>1, <1>3, <1>4, <1>6 DEF q
=============================================================================
