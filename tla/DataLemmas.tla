----------------------------- MODULE DataLemmas -----------------------------
(***************************************************************************)
(* Lemmas about numbers and sequences that several proofs need and that    *)
(* mention no module of the model.                                         *)
(***************************************************************************)
EXTENDS Integers, Sequences, SequencesExt, WellFoundedInduction, FiniteSetTheorems, SequenceTheorems, TLAPS

NatLess == {ss \in Nat \X Nat : ss[1] < ss[2]}

\* A set of naturals that is not empty has a least member.
LEMMA LeastNat ==
  ASSUME NEW S \in SUBSET Nat, S # {}
  PROVE  \E x \in S : \A y \in S : x <= y
<1>1. OpToRel(<, Nat) = NatLess
  BY DEF OpToRel, NatLess
<1>2. IsWellFoundedOn(NatLess, Nat)
  BY <1>1, NatLessThanWellFounded, Zenon
<1>3. PICK x \in S : \A y \in S : ~(<<y, x>> \in NatLess)
  BY <1>2, WFMin, Zenon
<1>4. ASSUME NEW y \in S PROVE x <= y
  <2>1. ~(<<y, x>> \in NatLess)
    BY <1>3
  <2>2. x \in Nat /\ y \in Nat
    OBVIOUS
  <2> QED
    BY <2>1, <2>2 DEF NatLess
<1> QED
  BY <1>4

\* Min picks the least member of a set of naturals that is not empty.
LEMMA MinMember ==
  ASSUME NEW S \in SUBSET Nat, S # {}
  PROVE  Min(S) \in S /\ \A x \in S : Min(S) <= x
BY LeastNat DEF Min

\* A number is divided where it was put together.
LEMMA DivMod ==
  ASSUME NEW size \in Nat \ {0}, NEW q \in Nat, NEW r \in 0..(size - 1)
  PROVE  (size * q + r) \div size = q /\ (size * q + r) % size = r
OBVIOUS

-----------------------------------------------------------------------------
\* A part of a sequence has elements of the sequence.
LEMMA PartOf ==
  ASSUME NEW S, NEW s \in Seq(S), NEW m \in 1..(Len(s) + 1), NEW n \in 0..Len(s)
  PROVE  /\ SubSeq(s, m, n) \in Seq(S)
         /\ \A i \in DOMAIN SubSeq(s, m, n) : \E j \in DOMAIN s : SubSeq(s, m, n)[i] = s[j]
<1> DEFINE part == SubSeq(s, m, n)
<1>1. \A i \in m..n : i \in DOMAIN s /\ s[i] \in S
  OBVIOUS
<1>2. /\ part \in Seq(S)
      /\ Len(part) = IF m <= n THEN n - m + 1 ELSE 0
      /\ \A i \in 1..(n - m + 1) : part[i] = s[m + i - 1]
  <2>1. part \in Seq(S)
    OBVIOUS
  <2>2. Len(part) = IF m <= n THEN n - m + 1 ELSE 0
    OBVIOUS
  <2>3. ASSUME NEW i \in 1..(n - m + 1) PROVE part[i] = s[m + i - 1]
    OBVIOUS
  <2> QED
    BY <2>1, <2>2, <2>3
<1>3. DOMAIN part = 1..Len(part)
  BY <1>2
<1>4. ASSUME NEW i \in DOMAIN part PROVE \E j \in DOMAIN s : part[i] = s[j]
  <2> HIDE DEF part
  <2>1. i \in 1..(n - m + 1)
    BY <1>2, <1>3
  <2>2. m + i - 1 \in DOMAIN s /\ part[i] = s[m + i - 1]
    BY <1>2, <2>1
  <2> QED
    BY <2>2
<1> QED
  BY <1>2, <1>4

\* The elements of a concatenation are those of its parts.
LEMMA ConcatParts ==
  ASSUME NEW S, NEW s \in Seq(S), NEW t \in Seq(S)
  PROVE  /\ s \o t \in Seq(S)
         /\ \A i \in DOMAIN (s \o t) : \/ \E j \in DOMAIN s : (s \o t)[i] = s[j]
                                      \/ \E j \in DOMAIN t : (s \o t)[i] = t[j]
<1>1. s \o t \in Seq(S) /\ Len(s \o t) = Len(s) + Len(t)
  OBVIOUS
<1>2. ASSUME NEW i \in DOMAIN (s \o t), i <= Len(s)
      PROVE  i \in DOMAIN s /\ (s \o t)[i] = s[i]
  BY <1>1, <1>2
<1>3. ASSUME NEW i \in DOMAIN (s \o t), ~(i <= Len(s))
      PROVE  i - Len(s) \in DOMAIN t /\ (s \o t)[i] = t[i - Len(s)]
  BY <1>1, <1>3
<1> QED
  BY <1>1, <1>2, <1>3

\* Removing an entry keeps a sequence over the same set.
LEMMA RemoveAtType ==
  ASSUME NEW S, NEW s \in Seq(S), NEW i \in DOMAIN s
  PROVE  RemoveAt(s, i) \in Seq(S)
BY DEF RemoveAt

-----------------------------------------------------------------------------
\* The members of S up to i.
Upto(S, i) == {j \in S : j <= i}

\* The rank of a member of a finite set of naturals: its members are counted
\* from 1 to the size of the set, and no two have the same rank.
LEMMA RankOnce ==
  ASSUME NEW S \in SUBSET Nat, IsFiniteSet(S), NEW i \in S
  PROVE  /\ Cardinality(Upto(S, i)) \in 1..Cardinality(S)
         /\ \A j \in S : Cardinality(Upto(S, j)) = Cardinality(Upto(S, i)) => j = i
<1>1. \A j : Upto(S, j) \in SUBSET S
  BY DEF Upto
<1>2. \A j : /\ IsFiniteSet(Upto(S, j)) /\ Cardinality(Upto(S, j)) \in Nat
             /\ Cardinality(Upto(S, j)) <= Cardinality(S)
  BY <1>1, FS_Subset, FS_CardinalityType
<1>3. Cardinality(S) \in Nat /\ i \in Upto(S, i)
  BY FS_CardinalityType DEF Upto
<1>4. Cardinality(Upto(S, i)) # 0
  BY <1>2, <1>3, FS_EmptySet
<1>5. ASSUME NEW a \in S, NEW b \in S, a <= b, Cardinality(Upto(S, a)) = Cardinality(Upto(S, b))
      PROVE  a = b
  <2>4. a \in Nat /\ b \in Nat /\ \A j \in S : j \in Nat
    OBVIOUS
  <2>1. Upto(S, a) \subseteq Upto(S, b)
    <3>1. \A j \in S : j <= a => j <= b
      BY <1>5, <2>4
    <3> QED
      BY <3>1 DEF Upto
  <2>2. Upto(S, b) = Upto(S, a)
    BY <1>2, <1>5, <2>1, FS_Subset
  <2>3. b \in Upto(S, a)
    BY <2>2 DEF Upto
  <2> QED
    BY <1>5, <2>3 DEF Upto
<1>6. ASSUME NEW j \in S, Cardinality(Upto(S, j)) = Cardinality(Upto(S, i)) PROVE j = i
  <2>1. j <= i \/ i <= j
    OBVIOUS
  <2> QED
    BY <1>5, <1>6, <2>1
<1>7. Cardinality(Upto(S, i)) \in 1..Cardinality(S)
  BY <1>2, <1>3, <1>4
<1> QED
  BY <1>6, <1>7

\* Every rank is that of some member.
LEMMA RankOnto ==
  ASSUME NEW S \in SUBSET Nat, IsFiniteSet(S), NEW n \in 1..Cardinality(S)
  PROVE  \E i \in S : Cardinality(Upto(S, i)) = n
<1> DEFINE T == 1..Cardinality(S)
           rank == [i \in S |-> Cardinality(Upto(S, i))]
<1>1. Cardinality(S) \in Nat
  BY FS_CardinalityType
<1>2. IsFiniteSet(T) /\ Cardinality(T) = Cardinality(S)
  BY <1>1, FS_Interval
<1>3. rank \in Injection(S, T)
  <2>1. \A i \in S : rank[i] \in T
    BY RankOnce
  <2>2. \A i, j \in S : rank[i] = rank[j] => i = j
    BY RankOnce
  <2> QED
    BY <2>1, <2>2 DEF Injection, IsInjective
<1>4. rank \in Surjection(S, T)
  BY <1>2, <1>3, FS_Injection
<1>5. \E i \in S : rank[i] = n
  BY <1>4 DEF Surjection
<1> QED
  BY <1>5

\* What a sequence shows of its elements is a finite set.
LEMMA FiniteImage ==
  ASSUME NEW n \in Nat, NEW f, DOMAIN f = 1..n
  PROVE  IsFiniteSet({f[i] : i \in 1..n})
<1> DEFINE T == {f[i] : i \in 1..n}
           g == [i \in 1..n |-> f[i]]
<1>1. g \in Surjection(1..n, T)
  BY DEF Surjection
<1>2. IsFiniteSet(1..n)
  BY FS_Interval
<1>3. IsFiniteSet(T)
  <2> HIDE DEF T, g
  <2> QED
    BY <1>1, <1>2, FS_Surjection
<1> QED
  BY <1>3
=============================================================================
