--------------------------- MODULE DataInduction ----------------------------
(***************************************************************************)
(* Induction over numbers, said of sets of numbers rather than of a        *)
(* predicate: a nonempty set of naturals has a least element, so a set     *)
(* that has 0 and, with each number, the next one has them all.  With it   *)
(* the equation of a recursive function can be shown to have a solution,   *)
(* which is what makes the function usable in a proof; a finite set of     *)
(* numbers can be shown to have its elements in order, and the smaller of  *)
(* two finite sets to embed in the larger.                                 *)
(***************************************************************************)
EXTENDS Naturals, Sequences, FiniteSetTheorems, SequenceTheorems, TLAPS

LEMMA LeastOf ==
  ASSUME NEW T \in SUBSET Nat, T # {}
  PROVE  \E m \in T : \A n \in T : m <= n
  <1> DEFINE R == OpToRel(<, Nat)
  <1>1. IsWellFoundedOn(R, Nat)
    BY NatLessThanWellFounded
  <1> HIDE DEF R
  <1>2. PICK m \in T : \A n \in T : <<n, m>> \notin R
    BY <1>1, WFMin
  <1>3. ASSUME NEW n \in T PROVE m <= n
    <2>1. n \in Nat /\ m \in Nat
      OBVIOUS
    <2>2. n < m => <<n, m>> \in R
      BY <2>1 DEF R, OpToRel
    <2> QED BY <2>1, <2>2, <1>2
  <1> QED BY <1>3

LEMMA SetInduction ==
  ASSUME NEW T \in SUBSET Nat, 0 \in T, \A n \in T : n + 1 \in T
  PROVE  T = Nat
  <1> DEFINE Left == Nat \ T
  <1>1. SUFFICES ASSUME Left # {} PROVE FALSE
    OBVIOUS
  <1>2. Left \in SUBSET Nat
    OBVIOUS
  <1>3. PICK m \in Left : \A n \in Left : m <= n
    <2> HIDE DEF Left
    <2> QED BY <1>1, <1>2, LeastOf
  <1>4. m \in Nat /\ m # 0
    OBVIOUS
  <1>5. m - 1 \in Nat /\ ~(m <= m - 1) /\ (m - 1) + 1 = m
    BY <1>4
  <1>6. m - 1 \in T
    BY <1>3, <1>5
  <1> QED BY <1>5, <1>6

-----------------------------------------------------------------------------
\* s has the elements of a set of numbers in increasing order, each once.
Increasing(s) == \A i, j \in DOMAIN s : i < j => s[i] < s[j]

LEMMA InOrderOfSize ==
  ASSUME NEW n \in Nat
  PROVE  \A S \in SUBSET Nat :
           IsFiniteSet(S) /\ Cardinality(S) = n =>
             \E s \in [1 .. n -> S] : Increasing(s)
  <1> DEFINE Ordered(k) == \A S \in SUBSET Nat :
                             IsFiniteSet(S) /\ Cardinality(S) = k =>
                               \E s \in [1 .. k -> S] : Increasing(s)
             T == {k \in Nat : Ordered(k)}
  <1>1. 0 \in T
    <2>1. ASSUME NEW S \in SUBSET Nat PROVE \E s \in [1 .. 0 -> S] : Increasing(s)
      <3> DEFINE e == [i \in 1 .. 0 |-> 0]
      <3>1. 1 .. 0 = {}
        OBVIOUS
      <3>2. e \in [1 .. 0 -> S] /\ Increasing(e)
        BY <3>1 DEF Increasing
      <3> QED BY <3>2
    <2> QED BY <2>1
  <1>2. ASSUME NEW k \in T PROVE k + 1 \in T
    <2>1. ASSUME NEW S \in SUBSET Nat, IsFiniteSet(S), Cardinality(S) = k + 1
          PROVE  \E s \in [1 .. k + 1 -> S] : Increasing(s)
      <3>1. S # {}
        BY <2>1, FS_EmptySet
      <3>2. PICK m \in S : \A x \in S : m <= x
        BY <3>1, LeastOf
      <3> DEFINE R == S \ {m}
      <3>3. IsFiniteSet(R) /\ Cardinality(R) = k
        <4>1. IsFiniteSet(R) /\ Cardinality(R) = Cardinality(S) - 1
          BY <2>1, <3>2, FS_RemoveElement
        <4>2. k \in Nat
          OBVIOUS
        <4> QED BY <4>1, <4>2, <2>1
      <3>4. PICK r \in [1 .. k -> R] : Increasing(r)
        BY <3>3
      <3> DEFINE s == [i \in 1 .. k + 1 |-> IF i = 1 THEN m ELSE r[i - 1]]
      <3>5. \A i \in 1 .. k + 1 : i # 1 => i - 1 \in 1 .. k
        OBVIOUS
      <3>6. s \in [1 .. k + 1 -> S]
        BY <3>5
      <3>7. ASSUME NEW i \in 1 .. k + 1, NEW j \in 1 .. k + 1, i < j PROVE s[i] < s[j]
        <4>1. j # 1 /\ j - 1 \in 1 .. k /\ s[j] = r[j - 1] /\ r[j - 1] \in R
          BY <3>5, <3>7
        <4>2. CASE i = 1
          <5>1. s[i] = m /\ m <= r[j - 1] /\ m # r[j - 1] /\ m \in Nat /\ r[j - 1] \in Nat
            BY <4>1, <4>2, <3>2
          <5> QED BY <5>1, <4>1
        <4>3. CASE i # 1
          <5>1. i - 1 \in 1 .. k /\ i - 1 < j - 1 /\ s[i] = r[i - 1]
            BY <3>5, <3>7, <4>3
          <5> QED BY <5>1, <4>1, <3>4 DEF Increasing
        <4> QED BY <4>2, <4>3
      <3> HIDE DEF s
      <3>8. Increasing(s)
        BY <3>6, <3>7 DEF Increasing
      <3> QED BY <3>6, <3>8
    <2>2. Ordered(k + 1)
      BY <2>1
    <2> QED BY <2>2
  <1> HIDE DEF Ordered
  <1>3. T = Nat
    BY <1>1, <1>2, SetInduction
  <1>4. Ordered(n)
    BY <1>3
  <1> QED BY <1>4 DEF Ordered

LEMMA InOrder ==
  ASSUME NEW S \in SUBSET Nat, IsFiniteSet(S)
  PROVE  \E s \in [1 .. Cardinality(S) -> S] : Increasing(s)
  BY InOrderOfSize, FS_CardinalityType
-----------------------------------------------------------------------------
\* A sequence is its elements.
LEMMA FunctionIsSeq ==
  ASSUME NEW U, NEW n \in Nat, NEW s \in [1 .. n -> U]
  PROVE  s \in Seq(U) /\ Len(s) = n /\ DOMAIN s = 1 .. n
  <1>1. s \in Seq(U)
    BY SeqDef
  <1> QED BY <1>1

LEMMA SeqTypes ==
  ASSUME NEW U, NEW s \in Seq(U)
  PROVE  /\ Len(s) \in Nat /\ DOMAIN s = 1 .. Len(s)
         /\ \A i \in 1 .. Len(s) : s[i] \in U
         /\ s = <<>> <=> Len(s) = 0
  BY LenProperties, EmptySeq

LEMMA ConcatSplit ==
  ASSUME NEW U, NEW s \in Seq(U), NEW t \in Seq(U)
  PROVE  /\ s \o t \in Seq(U) /\ Len(s \o t) = Len(s) + Len(t)
         /\ \A i \in 1 .. Len(s) : (s \o t)[i] = s[i]
         /\ \A k \in 1 .. Len(t) : (s \o t)[Len(s) + k] = t[k]
  <1>1. Len(s) \in Nat /\ Len(t) \in Nat
    BY LenProperties
  <1>2. /\ s \o t \in Seq(U) /\ Len(s \o t) = Len(s) + Len(t)
        /\ \A i \in 1 .. Len(s) + Len(t) :
             (s \o t)[i] = IF i <= Len(s) THEN s[i] ELSE t[i - Len(s)]
    BY ConcatProperties
  <1>3. ASSUME NEW k \in 1 .. Len(t) PROVE (s \o t)[Len(s) + k] = t[k]
    <2>1. Len(s) + k \in 1 .. Len(s) + Len(t) /\ ~(Len(s) + k <= Len(s)) /\ (Len(s) + k) - Len(s) = k
      BY <1>1
    <2> QED BY <2>1, <1>2
  <1>4. ASSUME NEW i \in 1 .. Len(s) PROVE (s \o t)[i] = s[i]
    <2>1. i \in 1 .. Len(s) + Len(t) /\ i <= Len(s)
      BY <1>1
    <2> QED BY <2>1, <1>2
  <1> QED BY <1>2, <1>3, <1>4

-----------------------------------------------------------------------------
(* As many of one as of another: an injection.                               *)

LEMMA Embeds ==
  ASSUME NEW A, NEW B, IsFiniteSet(A), IsFiniteSet(B), Cardinality(A) <= Cardinality(B)
  PROVE  \E f \in [A -> B] : \A x, y \in A : f[x] = f[y] => x = y
  <1>1. PICK m \in Nat : m = Cardinality(A)
    BY FS_CardinalityType
  <1>2. PICK n \in Nat : n = Cardinality(B)
    BY FS_CardinalityType
  <1>3. PICK a \in Bijection(1 .. m, A) : TRUE
    BY <1>1, FS_CardinalityType DEF ExistsBijection
  <1>4. PICK b \in Bijection(1 .. n, B) : TRUE
    BY <1>2, FS_CardinalityType DEF ExistsBijection
  <1>5. /\ a \in [1 .. m -> A] /\ \A x \in A : \E i \in 1 .. m : a[i] = x
        /\ b \in [1 .. n -> B] /\ \A i, j \in 1 .. n : b[i] = b[j] => i = j
    BY <1>3, <1>4 DEF Bijection, Injection, Surjection, IsInjective
  <1>6. 1 .. m \subseteq 1 .. n
    BY <1>1, <1>2
  <1> DEFINE at(x) == CHOOSE i \in 1 .. m : a[i] = x
             f == [x \in A |-> b[at(x)]]
  <1>7. \A x \in A : at(x) \in 1 .. m /\ a[at(x)] = x
    BY <1>5
  <1> HIDE DEF at
  <1>8. f \in [A -> B]
    BY <1>5, <1>6, <1>7
  <1>9. ASSUME NEW x \in A, NEW y \in A, f[x] = f[y] PROVE x = y
    <2>1. b[at(x)] = b[at(y)]
      BY <1>9
    <2>2. at(x) = at(y)
      BY <2>1, <1>5, <1>6, <1>7
    <2> QED BY <2>2, <1>7
  <1> QED BY <1>8, <1>9
=============================================================================
