----------------------------- MODULE CommonLemmas -----------------------------
(***************************************************************************)
(* Lemmas about least and greatest numbers and about parts of sequences,   *)
(* cited by the proofs of several components.                              *)
(***************************************************************************)
EXTENDS Integers, Sequences, FiniteSetsExt, SequenceTheorems,
        WellFoundedInduction, TLAPS

\* The least of a set of numbers.
LEMMA MinOfNats ==
    ASSUME NEW S \in SUBSET Nat, S # {}
    PROVE  Min(S) \in S /\ \A y \in S : Min(S) <= y
<1> DEFINE R == {p \in Nat \X Nat : p[1] < p[2]}
<1>1. IsWellFoundedOn(R, Nat)
  BY NatLessThanWellFounded DEF OpToRel
<1> HIDE DEF R
<1>2. PICK x \in S : \A y \in S : ~(<<y, x>> \in R)
  BY <1>1, WFMin
<1>3. ASSUME NEW y \in S PROVE x <= y
  <2>1. <<y, x>> \in Nat \X Nat /\ ~(<<y, x>> \in R)
    BY <1>2
  <2>2. ~(y < x)
    BY <2>1 DEF R
  <2> QED
    BY <2>2
<1>4. \E z \in S : \A y \in S : z <= y
  BY <1>3
<1> QED
  BY <1>4 DEF Min

\* The least of a set is that of any part of it that comes first.
LEMMA MinOfFirstPart ==
    ASSUME NEW A \in SUBSET Nat, NEW B \in SUBSET Nat, A # {}, A \subseteq B,
           \A x \in A : \A y \in B \ A : x <= y
    PROVE  Min(B) = Min(A)
<1>1. Min(A) \in A /\ \A y \in A : Min(A) <= y
  BY MinOfNats
<1>2. Min(B) \in B /\ \A y \in B : Min(B) <= y
  BY MinOfNats
<1>3. Min(A) <= Min(B)
  BY <1>1, <1>2
<1>4. Min(B) <= Min(A)
  BY <1>1, <1>2
<1>5. Min(A) \in Nat /\ Min(B) \in Nat
  BY <1>1, <1>2
<1> QED
  BY <1>3, <1>4, <1>5

\* Induction, for a property that is given as the set of the numbers it holds of.
LEMMA SetInduction ==
    ASSUME NEW S \in SUBSET Nat, 0 \in S, \A n \in S : n + 1 \in S
    PROVE  S = Nat
<1> SUFFICES ASSUME Nat \ S # {} PROVE FALSE
  OBVIOUS
<1> DEFINE m == Min(Nat \ S)
<1>1. m \in Nat \ S /\ \A y \in Nat \ S : m <= y
  BY MinOfNats
<1> HIDE DEF m
<1>2. m # 0
  BY <1>1
<1>3. m - 1 \in Nat /\ ~(m <= m - 1)
  BY <1>1, <1>2
<1>4. m - 1 \in S
  BY <1>1, <1>3
<1>5. m - 1 + 1 = m
  BY <1>1
<1> QED
  BY <1>1, <1>4, <1>5

\* The greatest of a set of numbers that has a bound.
LEMMA MaxOfNats ==
    ASSUME NEW S \in SUBSET Nat, S # {}, NEW bound \in Nat, \A y \in S : y <= bound
    PROVE  Max(S) \in S /\ \A y \in S : y <= Max(S)
<1> DEFINE Bounds == {u \in Nat : \A y \in S : y <= u}
           least == Min(Bounds)
<1>1. bound \in Bounds
  OBVIOUS
<1>2. least \in Bounds /\ \A u \in Bounds : least <= u
  BY <1>1, MinOfNats
<1>3. least \in Nat /\ \A y \in S : y <= least
  BY <1>2
<1>4. least \in S
  <2> SUFFICES ASSUME least \notin S PROVE FALSE
    OBVIOUS
  <2>1. PICK z \in S : TRUE
    OBVIOUS
  <2>2. \A y \in S : y <= least - 1
    <3> SUFFICES ASSUME NEW y \in S PROVE y <= least - 1
      OBVIOUS
    <3>1. y <= least /\ y # least /\ y \in Nat /\ least \in Nat
      BY <1>3
    <3> HIDE DEF least
    <3> QED
      BY <3>1
  <2>3. z \in Nat /\ z <= least - 1 /\ least \in Nat
    BY <1>3, <2>1, <2>2
  <2> HIDE DEF least
  <2>4. least - 1 \in Nat /\ ~(least <= least - 1)
    BY <2>3
  <2> QED
    BY <1>2, <2>2, <2>4
<1> HIDE DEF least
<1>5. \E z \in S : \A y \in S : z >= y
  BY <1>3, <1>4
<1> DEFINE top == CHOOSE z \in S : \A y \in S : z >= y
<1>6. top \in S /\ \A y \in S : top >= y
  BY <1>5
<1>7. Max(S) = top
  BY DEF Max
<1> HIDE DEF top
<1> QED
  BY <1>6, <1>7

\* The smaller of two numbers.
LEMMA MinOfTwo ==
    ASSUME NEW a \in Int, NEW b \in Int
    PROVE  Min({a, b}) = IF a <= b THEN a ELSE b
<1> DEFINE P(x) == x \in {a, b} /\ \A y \in {a, b} : x <= y
<1>1. \A x, z : P(x) /\ P(z) => x = z
  OBVIOUS
<1>2. CASE a <= b
  <2>1. P(a)
    BY <1>2
  <2>2. P(Min({a, b}))
    BY <2>1 DEF Min
  <2> QED
    BY <1>1, <1>2, <2>1, <2>2
<1>3. CASE ~(a <= b)
  <2>1. P(b)
    BY <1>3
  <2>2. P(Min({a, b}))
    BY <2>1 DEF Min
  <2> QED
    BY <1>1, <1>3, <2>1, <2>2
<1> QED
  BY <1>2, <1>3

\* The greater of two numbers.
LEMMA MaxOfTwo ==
    ASSUME NEW a \in Int, NEW b \in Int
    PROVE  Max({a, b}) = IF a >= b THEN a ELSE b
<1> DEFINE P(x) == x \in {a, b} /\ \A y \in {a, b} : x >= y
<1>1. \A x, z : P(x) /\ P(z) => x = z
  OBVIOUS
<1>2. CASE a >= b
  <2>1. P(a)
    BY <1>2
  <2>2. P(Max({a, b}))
    BY <2>1 DEF Max
  <2> QED
    BY <1>1, <1>2, <2>1, <2>2
<1>3. CASE ~(a >= b)
  <2>1. P(b)
    BY <1>3
  <2>2. P(Max({a, b}))
    BY <2>1 DEF Max
  <2> QED
    BY <1>1, <1>3, <2>1, <2>2
<1> QED
  BY <1>2, <1>3

\* A function on 1..n is a sequence of length n.
LEMMA FunctionIsSeq ==
    ASSUME NEW S, NEW n \in Nat, NEW f \in [1..n -> S]
    PROVE  f \in Seq(S) /\ Len(f) = n
<1>1. f \in Seq(S)
  BY SeqDef
<1>2. DOMAIN f = 1..Len(f) /\ Len(f) \in Nat
  BY <1>1, LenProperties
<1> QED
  BY <1>1, <1>2

\* The part of a sequence after its first d elements and up to place n.
LEMMA PartProperties ==
    ASSUME NEW S, NEW s \in Seq(S), NEW d \in Nat, NEW n \in Nat, d <= n, n <= Len(s)
    PROVE  /\ SubSeq(s, d + 1, n) \in Seq(S)
           /\ Len(SubSeq(s, d + 1, n)) = n - d
           /\ \A i \in 1..(n - d) : SubSeq(s, d + 1, n)[i] = s[d + i]
<1> DEFINE part == SubSeq(s, d + 1, n)
<1>1. Len(s) \in Nat
  OBVIOUS
<1>2. \A i \in (d + 1)..n : s[i] \in S
  BY <1>1, ElementOfSeq
<1>3. /\ part \in Seq(S)
      /\ Len(part) = IF d + 1 <= n THEN n - (d + 1) + 1 ELSE 0
      /\ \A i \in 1..(n - (d + 1) + 1) : part[i] = s[d + 1 + i - 1]
  BY <1>2, SubSeqProperties
<1> HIDE DEF part
<1>4. Len(part) = n - d /\ n - (d + 1) + 1 = n - d
  BY <1>3
<1>5. ASSUME NEW i \in 1..(n - d) PROVE part[i] = s[d + i]
  <2>1. part[i] = s[d + 1 + i - 1] /\ d + 1 + i - 1 = d + i
    BY <1>3, <1>4
  <2> QED
    BY <2>1
<1> QED
  BY <1>3, <1>4, <1>5 DEF part

\* The first n elements of a sequence.
LEMMA PrefixProperties ==
    ASSUME NEW S, NEW s \in Seq(S), NEW n \in Nat, n <= Len(s)
    PROVE  /\ SubSeq(s, 1, n) \in Seq(S)
           /\ Len(SubSeq(s, 1, n)) = n
           /\ \A i \in 1..n : SubSeq(s, 1, n)[i] = s[i]
<1>1. 0 + 1 = 1 /\ n - 0 = n /\ \A i \in 1..n : 0 + i = i
  OBVIOUS
<1>2. /\ SubSeq(s, 0 + 1, n) \in Seq(S)
      /\ Len(SubSeq(s, 0 + 1, n)) = n - 0
      /\ \A i \in 1..(n - 0) : SubSeq(s, 0 + 1, n)[i] = s[0 + i]
  BY PartProperties
<1> QED
  BY <1>1, <1>2

\* The last k elements of a sequence.
LEMMA SuffixProperties ==
    ASSUME NEW S, NEW s \in Seq(S), NEW d \in Nat, NEW k \in Nat, Len(s) = d + k
    PROVE  /\ SubSeq(s, d + 1, Len(s)) \in Seq(S)
           /\ Len(SubSeq(s, d + 1, Len(s))) = k
           /\ \A i \in 1..k : SubSeq(s, d + 1, Len(s))[i] = s[d + i]
<1>1. d <= Len(s) /\ Len(s) - d = k /\ Len(s) \in Nat
  OBVIOUS
<1> QED
  BY <1>1, PartProperties
=============================================================================
