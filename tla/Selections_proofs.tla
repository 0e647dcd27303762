-------------------------- MODULE Selections_proofs --------------------------
(***************************************************************************)
(* What selecting and sorting by positions gives, and joining sequences.   *)
(* What depends on a length is shown by its least counterexample.          *)
(***************************************************************************)
EXTENDS Selections, SequenceTheorems, FiniteSetTheorems, TLAPS

\* A set of natural numbers that is not empty has a least one.
LEMMA LeastNumber ==
    ASSUME NEW S, S \subseteq Nat, S # {}
    PROVE  \E m \in S : \A i \in S : m <= i
<1>1. PICK m \in S : \A i \in S : ~ (<<i, m>> \in OpToRel(<, Nat))
  BY NatLessThanWellFounded, WFMin, Zenon
<1>2. ASSUME NEW i \in S PROVE m <= i
  <2>1. m \in Nat /\ i \in Nat /\ <<i, m>> \in Nat \X Nat
    OBVIOUS
  <2>2. ~ (i < m)
    BY <2>1, <1>1 DEF OpToRel
  <2>3. QED
    BY <2>1, <2>2
<1>3. QED
  BY <1>2

\* The size of 1..n.
LEMMA UpTo ==
    ASSUME NEW n \in Nat
    PROVE  IsFiniteSet(1..n) /\ Cardinality(1..n) = n
<1>1. 1 \in Int /\ n \in Int
  OBVIOUS
<1>2. IsFiniteSet(1..n) /\ Cardinality(1..n) = IF 1 > n THEN 0 ELSE n - 1 + 1
  BY <1>1, FS_Interval
<1>3. QED
  BY <1>2

\* Ordered lists the numbers of a finite set, each once, in ascending order.
LEMMA OrderedIsOrdered ==
    ASSUME NEW S, S \subseteq Nat, IsFiniteSet(S)
    PROVE  /\ Cardinality(S) \in Nat
           /\ Ordered(S) \in [1..Cardinality(S) -> S]
           /\ \A k, l \in 1..Cardinality(S) : k < l => Ordered(S)[k] < Ordered(S)[l]
           /\ \A i \in S : \E k \in 1..Cardinality(S) : Ordered(S)[k] = i
<1> DEFINE n == Cardinality(S)
           Below(i) == {x \in S : x <= i}
           rank == [i \in S |-> Cardinality(Below(i))]
<1>1. n \in Nat
  BY FS_CardinalityType
<1>2. ASSUME NEW i \in S
      PROVE  IsFiniteSet(Below(i)) /\ rank[i] \in 1..n
  <2>1. IsFiniteSet(Below(i)) /\ Cardinality(Below(i)) <= n
    BY FS_Subset
  <2>2. Cardinality(Below(i)) \in Nat
    BY <2>1, FS_CardinalityType
  <2>3. i \in Below(i)
    OBVIOUS
  <2>4. Cardinality(Below(i)) # 0
    BY <2>1, <2>3, FS_EmptySet
  <2>5. rank[i] = Cardinality(Below(i))
    OBVIOUS
  <2> HIDE DEF n, Below, rank
  <2>6. QED
    BY <2>1, <2>2, <2>4, <2>5, <1>1
<1>3. ASSUME NEW i \in S, NEW j \in S, i < j
      PROVE  rank[i] < rank[j]
  <2>0. i \in Nat /\ j \in Nat /\ i < j
    BY <1>3
  <2>1. Below(i) \subseteq Below(j) /\ j \in Below(j) /\ j \notin Below(i)
    <3>1. \A x \in S : x <= i => x <= j
      BY <2>0
    <3>2. Below(i) \subseteq Below(j)
      BY <3>1, Zenon
    <3>3. j <= j /\ ~ (j <= i)
      BY <2>0
    <3>4. QED
      BY <3>2, <3>3
  <2>2. Cardinality(Below(i)) <= Cardinality(Below(j))
        /\ Cardinality(Below(i)) # Cardinality(Below(j))
    BY <2>1, <1>2, FS_Subset
  <2>3. rank[i] = Cardinality(Below(i)) /\ rank[j] = Cardinality(Below(j))
    OBVIOUS
  <2>4. rank[i] \in Nat /\ rank[j] \in Nat
    BY <1>2
  <2> HIDE DEF Below, rank
  <2>5. QED
    BY <2>2, <2>3, <2>4
<1>4. rank \in Injection(S, 1..n)
  <2>1. rank \in [S -> 1..n]
    BY <1>2
  <2>2. ASSUME NEW i \in S, NEW j \in S, rank[i] = rank[j]
        PROVE  i = j
    <3>1. i \in Nat /\ j \in Nat /\ rank[i] \in Nat
      BY <1>2
    <3>2. ~ (i < j) /\ ~ (j < i)
      <4> HIDE DEF rank
      <4>1. QED
        BY <1>3, <2>2, <3>1
    <3>3. QED
      BY <3>1, <3>2
  <2> HIDE DEF rank, n
  <2>3. QED
    BY <2>1, <2>2 DEF Injection, IsInjective
<1>5. rank \in Surjection(S, 1..n)
  <2>1. IsFiniteSet(1..n) /\ Cardinality(1..n) = n
    BY <1>1, UpTo
  <2> HIDE DEF rank
  <2>2. QED
    BY <1>4, <2>1, FS_Injection
<1>6. ASSUME NEW k \in 1..n
      PROVE  Ordered(S)[k] \in S /\ rank[Ordered(S)[k]] = k
  <2>1. \E i \in S : rank[i] = k
    <3> HIDE DEF rank
    <3>1. QED
      BY <1>5 DEF Surjection
  <2>2. \E i \in S : Cardinality(Below(i)) = k
    BY <2>1
  <2>3. Ordered(S)[k] = CHOOSE i \in S : Cardinality(Below(i)) = k
    BY DEF Ordered
  <2>4. Ordered(S)[k] \in S /\ Cardinality(Below(Ordered(S)[k])) = k
    <3> HIDE DEF Below
    <3>1. QED
      BY <2>2, <2>3
  <2>5. QED
    BY <2>4
<1>7. Ordered(S) \in [1..n -> S]
  <2> DEFINE o == [k \in 1..n |-> CHOOSE i \in S : Cardinality({j \in S : j <= i}) = k]
  <2>1. Ordered(S) = o
    BY DEF Ordered
  <2>2. \A k \in 1..n : o[k] \in S
    BY <2>1, <1>6
  <2>3. o \in [1..n -> S]
    <3> HIDE DEF n
    <3>1. \A k \in 1..n : (CHOOSE i \in S : Cardinality({j \in S : j <= i}) = k) \in S
      BY <2>2
    <3>2. QED
      BY <3>1
  <2>4. QED
    BY <2>1, <2>3
<1> HIDE DEF rank, Below, n
<1>8. ASSUME NEW k \in 1..n, NEW l \in 1..n, k < l
      PROVE  Ordered(S)[k] < Ordered(S)[l]
  <2> DEFINE a == Ordered(S)[k]
             b == Ordered(S)[l]
  <2>1. a \in S /\ b \in S /\ rank[a] = k /\ rank[b] = l
    BY <1>6
  <2> HIDE DEF a, b
  <2>2. a \in Nat /\ b \in Nat
    BY <2>1
  <2>3. a # b /\ ~ (b < a)
    BY <2>1, <1>3, <1>1, <1>8
  <2>4. a < b
    BY <2>2, <2>3
  <2>5. QED
    BY <2>4 DEF a, b
<1>9. ASSUME NEW i \in S
      PROVE  \E k \in 1..n : Ordered(S)[k] = i
  <2>1. rank[i] \in 1..n
    BY <1>2
  <2>2. rank[Ordered(S)[rank[i]]] = rank[i] /\ Ordered(S)[rank[i]] \in S
    BY <2>1, <1>6
  <2>3. Ordered(S)[rank[i]] = i
    BY <2>2, <1>4 DEF Injection, IsInjective
  <2>4. QED
    BY <2>1, <2>3
<1>10. QED
  BY <1>1, <1>7, <1>8, <1>9 DEF n

\* The same, of the sequence it is.
LEMMA OrderedIsSequence ==
    ASSUME NEW S, S \subseteq Nat, IsFiniteSet(S)
    PROVE  /\ Ordered(S) \in Seq(S)
           /\ Len(Ordered(S)) \in Nat
           /\ DOMAIN Ordered(S) = 1..Len(Ordered(S))
           /\ Len(Ordered(S)) = Cardinality(S)
           /\ \A k \in 1..Len(Ordered(S)) : Ordered(S)[k] \in S
           /\ \A k, l \in 1..Len(Ordered(S)) : k < l => Ordered(S)[k] < Ordered(S)[l]
           /\ \A i \in S : \E k \in 1..Len(Ordered(S)) : Ordered(S)[k] = i
<1> DEFINE n == Cardinality(S)
           o == Ordered(S)
<1>1. /\ n \in Nat /\ o \in [1..n -> S]
      /\ \A k, l \in 1..n : k < l => o[k] < o[l]
      /\ \A i \in S : \E k \in 1..n : o[k] = i
  BY OrderedIsOrdered
<1> HIDE DEF n, o
<1>2. o \in Seq(S)
  BY <1>1, SeqDef
<1>3. Len(o) = n /\ DOMAIN o = 1..n
  BY <1>1, <1>2, LenProperties
<1>4. \A k \in 1..n : o[k] \in S
  BY <1>1
<1>5. QED
  BY <1>1, <1>2, <1>3, <1>4 DEF n, o

\* `at` has the positions of s that Select takes for T, in ascending order.
Takes(at, A, s, T) ==
    /\ at \in Seq(1..Len(s))
    /\ Len(at) \in Nat
    /\ \A k, l \in 1..Len(at) : k < l => at[k] < at[l]
    /\ \A k \in 1..Len(at) : at[k] \in 1..Len(s) /\ s[at[k]] \in T
    /\ \A i \in 1..Len(s) : s[i] \in T => \E k \in 1..Len(at) : at[k] = i
    /\ Select(s, T) \in Seq(A \cap T)
    /\ Len(Select(s, T)) = Len(at)
    /\ \A k \in 1..Len(at) : Select(s, T)[k] = s[at[k]]

\* Select takes from s what is at the positions of T.
LEMMA SelectsInOrder ==
    ASSUME NEW A, NEW s \in Seq(A), NEW T
    PROVE  \E at : Takes(at, A, s, T)
<1> DEFINE P == {i \in DOMAIN s : s[i] \in T}
           at == Ordered(P)
           n == Len(at)
           t == [k \in DOMAIN at |-> s[at[k]]]
<1>1. Len(s) \in Nat /\ DOMAIN s = 1..Len(s) /\ \A i \in 1..Len(s) : s[i] \in A
  BY LenProperties, ElementOfSeq
<1>2. P \subseteq 1..Len(s) /\ P \subseteq Nat
  BY <1>1
<1>3. IsFiniteSet(P)
  BY <1>1, <1>2, UpTo, FS_Subset
<1>4. Select(s, T) = t
  BY DEF Select
<1>5. \A i \in P : i \in 1..Len(s) /\ s[i] \in A \cap T
  BY <1>1
<1>6. \A i \in 1..Len(s) : s[i] \in T => i \in P
  BY <1>1
<1> HIDE DEF P
<1>7. /\ at \in Seq(P) /\ n \in Nat /\ DOMAIN at = 1..n
      /\ \A k \in 1..n : at[k] \in P
      /\ \A k, l \in 1..n : k < l => at[k] < at[l]
      /\ \A i \in P : \E k \in 1..n : at[k] = i
  BY <1>2, <1>3, OrderedIsSequence
<1>8. at \in Seq(1..Len(s))
  BY <1>2, <1>7, SeqMonotonic
<1> HIDE DEF at, n
<1>9. t = [k \in 1..n |-> s[at[k]]]
  BY <1>7
<1>10. t \in [1..n -> A \cap T]
  <2>1. \A k \in 1..n : s[at[k]] \in A \cap T
    BY <1>5, <1>7
  <2>2. QED
    BY <2>1, <1>9
<1>11. t \in Seq(A \cap T) /\ Len(t) = n
  <2>1. t \in Seq(A \cap T)
    BY <1>7, <1>10, SeqDef
  <2>2. DOMAIN t = 1..n
    BY <1>9
  <2>3. DOMAIN t = 1..Len(t) /\ Len(t) \in Nat
    BY <2>1, LenProperties
  <2>4. QED
    BY <2>1, <2>2, <2>3, <1>7
<1>12. \A k \in 1..n : t[k] = s[at[k]]
  BY <1>9
<1> HIDE DEF t
<1>13. n = Len(at)
  BY DEF n
<1>14. /\ \A k \in 1..n : at[k] \in 1..Len(s) /\ s[at[k]] \in T
       /\ \A i \in 1..Len(s) : s[i] \in T => \E k \in 1..n : at[k] = i
  BY <1>5, <1>6, <1>7
<1>15. Takes(at, A, s, T)
  BY <1>4, <1>7, <1>8, <1>11, <1>12, <1>13, <1>14 DEF Takes
<1>16. QED
  BY <1>15

\* What is a permutation of 1..n becomes 1, ..., n when it is sorted.
LEMMA PermutationSorted ==
    ASSUME NEW n \in Nat, NEW s \in Seq(1..n),
           \A i, j \in 1..Len(s) : s[i] = s[j] => i = j,
           \A k \in 1..n : \E i \in 1..Len(s) : s[i] = k
    PROVE  Sorted(s) = [k \in 1..n |-> k]
<1> DEFINE D == 1..Len(s)
<1>1. Len(s) \in Nat /\ DOMAIN s = D /\ s \in [D -> 1..n]
  BY LenProperties
<1>2. \A i, j \in D : s[i] = s[j] => i = j
  OBVIOUS
<1>3. \A k \in 1..n : \E i \in D : s[i] = k
  OBVIOUS
<1>4. IsFiniteSet(D) /\ Cardinality(D) = Len(s) /\ IsFiniteSet(1..n) /\ Cardinality(1..n) = n
  BY <1>1, UpTo
<1> HIDE DEF D
<1>5. Len(s) = n
  <2>1. s \in Bijection(D, 1..n)
    BY <1>1, <1>2, <1>3 DEF Bijection, Injection, Surjection, IsInjective
  <2>2. QED
    BY <2>1, <1>4, FS_Bijection DEF ExistsBijection
<1>6. ASSUME NEW i \in D
      PROVE  Rank(s, i) = s[i]
  <2> DEFINE v == s[i]
             B == {j \in D : s[j] < v \/ (s[j] = v /\ j <= i)}
             f == [j \in B |-> s[j]]
  <2>1. Rank(s, i) = Cardinality(B)
    BY <1>1 DEF Rank
  <2>2. v \in Nat /\ v \in 1..n /\ i \in Nat
    BY <1>1 DEF D
  <2>3. v = s[i]
    OBVIOUS
  <2> HIDE DEF v
  <2>4. ASSUME NEW j \in D
        PROVE  j \in B <=> s[j] \in 1..v
    <3>1. s[j] \in Nat /\ s[j] \in 1..n /\ j \in Nat
      BY <1>1 DEF D
    <3>2. s[j] = v => j <= i
      <4>1. s[j] = v => j = i
        BY <2>3, <1>2
      <4>2. i <= i
        BY <2>2
      <4>3. QED
        BY <4>1, <4>2
    <3>3. (s[j] < v \/ (s[j] = v /\ j <= i)) <=> s[j] \in 1..v
      <4> DEFINE w == s[j]
                 first == j <= i
      <4>1. w \in 1..n /\ v \in 1..n /\ (w = v => first)
        BY <2>2, <3>1, <3>2
      <4> HIDE DEF w, first
      <4>2. (w < v \/ w = v) <=> w \in 1..v
        BY <4>1
      <4>3. (w < v \/ (w = v /\ first)) <=> w \in 1..v
        BY <4>1, <4>2, Zenon
      <4>4. QED
        BY <4>3 DEF w, first
    <3>4. QED
      BY <3>3
  <2>5. \A k \in 1..v : \E j \in B : s[j] = k
    <3>1. \A k \in 1..v : k \in 1..n
      BY <2>2
    <3>2. QED
      BY <3>1, <1>3, <2>4
  <2>6. \A j \in B : j \in D /\ f[j] = s[j] /\ s[j] \in 1..v
    BY <2>4
  <2>7. f \in [B -> 1..v]
    BY <2>6
  <2>8. B \subseteq D
    OBVIOUS
  <2> HIDE DEF B, f
  <2>9. f \in Bijection(B, 1..v)
    BY <1>2, <2>5, <2>6, <2>7 DEF Bijection, Injection, Surjection, IsInjective
  <2>10. IsFiniteSet(B)
    BY <2>8, <1>4, FS_Subset
  <2>11. Cardinality(1..v) = Cardinality(B)
    BY <2>9, <2>10, FS_Bijection DEF ExistsBijection
  <2>12. QED
    BY <2>1, <2>2, <2>3, <2>11, UpTo
<1>7. ASSUME NEW k \in 1..n
      PROVE  s[CHOOSE i \in D : Rank(s, i) = k] = k
  <2>1. \E i \in D : Rank(s, i) = k
    BY <1>3, <1>6
  <2> DEFINE c == CHOOSE i \in D : Rank(s, i) = k
  <2>2. c \in D /\ Rank(s, c) = k
    BY <2>1
  <2> HIDE DEF c
  <2>3. s[c] = k
    BY <2>2, <1>6
  <2>4. QED
    BY <2>3 DEF c
<1>8. Sorted(s) = [k \in 1..n |-> s[CHOOSE i \in D : Rank(s, i) = k]]
  BY <1>1, <1>5 DEF Sorted, D
<1>9. QED
  BY <1>7, <1>8

\* An element occurs a number of times, and at least once if it is there.
LEMMA OccurrencesOf ==
    ASSUME NEW A, NEW s \in Seq(A), NEW x
    PROVE  /\ IsFiniteSet({i \in DOMAIN s : s[i] = x})
           /\ Occurrences(s, x) \in Nat
           /\ Occurrences(s, x) > 0 <=> x \in Range(s)
<1> DEFINE P == {i \in DOMAIN s : s[i] = x}
<1>1. Len(s) \in Nat /\ DOMAIN s = 1..Len(s)
  BY LenProperties
<1>2. P \subseteq 1..Len(s)
  BY <1>1
<1>3. P # {} <=> x \in Range(s)
  BY DEF Range
<1>4. Occurrences(s, x) = Cardinality(P)
  BY DEF Occurrences
<1> HIDE DEF P
<1>5. IsFiniteSet(P)
  BY <1>1, <1>2, UpTo, FS_Subset
<1>6. Cardinality(P) \in Nat
  BY <1>5, FS_CardinalityType
<1>7. Cardinality(P) = 0 <=> P = {}
  BY <1>5, FS_EmptySet
<1>8. QED
  BY <1>3, <1>4, <1>5, <1>6, <1>7 DEF P

\* Where no element is twice, each occurs once at most.
LEMMA OccursOnce ==
    ASSUME NEW A, NEW s \in Seq(A), NEW x,
           \A i, j \in 1..Len(s) : s[i] = s[j] => i = j
    PROVE  Occurrences(s, x) <= 1
<1> DEFINE P == {i \in DOMAIN s : s[i] = x}
<1>1. DOMAIN s = 1..Len(s)
  BY LenProperties
<1>2. Occurrences(s, x) = Cardinality(P)
  BY DEF Occurrences
<1>3. \A i, j \in P : i = j
  BY <1>1
<1> HIDE DEF P
<1>4. CASE P = {}
  BY <1>2, <1>4, FS_EmptySet
<1>5. CASE P # {}
  <2>1. PICK i : i \in P
    BY <1>5
  <2>2. P = {i}
    BY <1>3, <2>1
  <2>3. Cardinality(P) = 1
    BY <2>2, FS_Singleton
  <2>4. QED
    BY <1>2, <2>3
<1>6. QED
  BY <1>4, <1>5

\* In one sequence after another, an element occurs as often as in both.
LEMMA OccurrencesInBoth ==
    ASSUME NEW A, NEW s \in Seq(A), NEW t \in Seq(A), NEW x
    PROVE  Occurrences(s \o t, x) = Occurrences(s, x) + Occurrences(t, x)
<1> DEFINE c == s \o t
           m == Len(s)
           n == Len(t)
           P == {i \in DOMAIN s : s[i] = x}
           Q == {i \in DOMAIN t : t[i] = x}
           R == {i \in DOMAIN c : c[i] = x}
           S == {i \in R : i > m}
<1>1. /\ m \in Nat /\ n \in Nat /\ DOMAIN s = 1..m /\ DOMAIN t = 1..n
      /\ c \in Seq(A) /\ Len(c) = m + n
      /\ \A i \in 1..m + n : c[i] = IF i <= m THEN s[i] ELSE t[i - m]
  BY LenProperties, ConcatProperties
<1>2. DOMAIN c = 1..(m + n)
  BY <1>1, LenProperties
<1>3. /\ Occurrences(s, x) = Cardinality(P) /\ Occurrences(t, x) = Cardinality(Q)
      /\ Occurrences(c, x) = Cardinality(R)
  BY DEF Occurrences
<1>4. IsFiniteSet(P) /\ IsFiniteSet(Q) /\ IsFiniteSet(R)
  BY <1>1, OccurrencesOf
<1> HIDE DEF c, m, n
<1>5. \A i : i \in R <=> i \in 1..(m + n) /\ c[i] = x
  BY <1>2
<1>6. \A i : i \in P <=> i \in 1..m /\ s[i] = x
  BY <1>1
<1>7. \A i : i \in Q <=> i \in 1..n /\ t[i] = x
  BY <1>1
<1>8. \A i : i \in S <=> i \in R /\ i > m
  OBVIOUS
<1> HIDE DEF P, Q, R, S
<1>9. \A i \in 1..m : i \in 1..(m + n) /\ c[i] = s[i]
  BY <1>1
<1>10. R = P \cup S /\ P \cap S = {}
  <2>1. \A i \in P : i \in R /\ i \notin S
    BY <1>1, <1>5, <1>6, <1>8, <1>9
  <2>2. ASSUME NEW i \in R, i \notin S
        PROVE  i \in P
    <3>1. i \in 1..(m + n) /\ ~ (i > m) /\ c[i] = x
      BY <1>5, <1>8, <2>2
    <3>2. i \in 1..m
      BY <3>1, <1>1
    <3>3. QED
      BY <3>1, <3>2, <1>6, <1>9
  <2>3. QED
    BY <2>1, <2>2, <1>8
<1>11. ASSUME NEW i \in Q
       PROVE  m + i \in S
  <2>1. i \in 1..n
    BY <1>7
  <2>2. m + i \in 1..m + n /\ ~ (m + i <= m) /\ (m + i) - m = i
    BY <2>1, <1>1
  <2>3. c[m + i] = t[(m + i) - m]
    BY <2>2, <1>1
  <2>4. QED
    BY <2>2, <2>3, <1>1, <1>5, <1>7, <1>8
<1>12. ASSUME NEW i \in S
       PROVE  i - m \in Q /\ m + (i - m) = i
  <2>1. i \in 1..(m + n) /\ i > m /\ c[i] = x
    BY <1>5, <1>8
  <2>2. i - m \in 1..n /\ ~ (i <= m) /\ m + (i - m) = i
    BY <2>1, <1>1
  <2>3. c[i] = t[i - m]
    BY <2>1, <2>2, <1>1
  <2>4. QED
    BY <2>1, <2>2, <2>3, <1>7
<1> DEFINE f == [i \in Q |-> m + i]
<1>13. f \in Bijection(Q, S)
  <2>1. f \in [Q -> S]
    BY <1>11
  <2>2. \A i, j \in Q : f[i] = f[j] => i = j
    BY <1>1, <1>7
  <2>3. \A i \in S : \E j \in Q : f[j] = i
    BY <1>12
  <2>4. QED
    BY <2>1, <2>2, <2>3 DEF Bijection, Injection, Surjection, IsInjective
<1>14. ExistsBijection(Q, S)
  BY <1>13 DEF ExistsBijection
<1>15. IsFiniteSet(S) /\ Cardinality(S) = Cardinality(Q)
  BY <1>4, <1>14, FS_Bijection
<1>16. Cardinality(P \cup S) = Cardinality(P) + Cardinality(S) - Cardinality(P \cap S)
  BY <1>4, <1>15, FS_Union
<1>17. Cardinality(P \cap S) = 0 /\ Cardinality(P) \in Nat /\ Cardinality(S) \in Nat
  BY <1>4, <1>10, <1>15, FS_EmptySet, FS_CardinalityType
<1>18. QED
  BY <1>3, <1>10, <1>15, <1>16, <1>17 DEF c

\* Taken from the front of one sequence to the end of another, an element is still there
\* as often as before.
LEMMA OccurrencesMoved ==
    ASSUME NEW A, NEW s \in Seq(A), NEW t \in Seq(A), t # <<>>, NEW x
    PROVE  /\ Append(s, Head(t)) \in Seq(A) /\ Tail(t) \in Seq(A)
           /\ Occurrences(Append(s, Head(t)), x) + Occurrences(Tail(t), x)
                = Occurrences(s, x) + Occurrences(t, x)
<1> DEFINE h == <<Head(t)>>
           r == Tail(t)
<1>1. Head(t) \in A /\ r \in Seq(A) /\ Len(r) = Len(t) - 1
      /\ \A i \in 1..Len(r) : r[i] = t[i + 1]
  BY HeadTailProperties
<1>2. h \in Seq(A) /\ Len(h) = 1 /\ h[1] = Head(t)
  BY <1>1
<1>3. Append(s, Head(t)) = s \o h /\ s \o h \in Seq(A)
  BY <1>1, <1>2, AppendIsConcat, ConcatProperties
<1>4. t = h \o r
  OBVIOUS
<1> HIDE DEF h, r
<1>5. Occurrences(s \o h, x) = Occurrences(s, x) + Occurrences(h, x)
  BY <1>2, OccurrencesInBoth
<1>6. Occurrences(t, x) = Occurrences(h, x) + Occurrences(r, x)
  BY <1>1, <1>2, <1>4, OccurrencesInBoth
<1>7. /\ Occurrences(s, x) \in Nat /\ Occurrences(h, x) \in Nat
      /\ Occurrences(r, x) \in Nat
  BY <1>1, <1>2, OccurrencesOf
<1>8. Occurrences(s \o h, x) + Occurrences(r, x) = Occurrences(s, x) + Occurrences(t, x)
  BY <1>5, <1>6, <1>7
<1>9. QED
  BY <1>1, <1>3, <1>8 DEF r

\* What is in one sequence after another is in one of both.
LEMMA RangeOfBoth ==
    ASSUME NEW A, NEW s \in Seq(A), NEW t \in Seq(A)
    PROVE  Range(s \o t) = Range(s) \cup Range(t)
<1> DEFINE c == s \o t
           m == Len(s)
           n == Len(t)
<1>1. /\ m \in Nat /\ n \in Nat /\ DOMAIN s = 1..m /\ DOMAIN t = 1..n
      /\ c \in Seq(A) /\ Len(c) = m + n
      /\ \A i \in 1..m + n : c[i] = IF i <= m THEN s[i] ELSE t[i - m]
  BY LenProperties, ConcatProperties
<1>2. DOMAIN c = 1..(m + n)
  BY <1>1, LenProperties
<1> HIDE DEF c, m, n
<1>3. ASSUME NEW i \in 1..m
      PROVE  s[i] \in Range(c)
  <2>1. i \in 1..(m + n) /\ c[i] = s[i]
    BY <1>1
  <2>2. QED
    BY <2>1, <1>2 DEF Range
<1>4. ASSUME NEW i \in 1..n
      PROVE  t[i] \in Range(c)
  <2>1. m + i \in 1..m + n /\ ~ (m + i <= m) /\ (m + i) - m = i
    BY <1>1
  <2>2. c[m + i] = t[(m + i) - m]
    BY <2>1, <1>1
  <2>3. QED
    BY <2>1, <2>2, <1>2 DEF Range
<1>5. ASSUME NEW i \in 1..(m + n)
      PROVE  c[i] \in Range(s) \cup Range(t)
  <2>1. CASE i <= m
    <3>1. i \in 1..m /\ c[i] = s[i]
      BY <2>1, <1>1
    <3>2. QED
      BY <3>1, <1>1 DEF Range
  <2>2. CASE ~ (i <= m)
    <3>1. i - m \in 1..n /\ c[i] = t[i - m]
      BY <2>2, <1>1
    <3>2. QED
      BY <3>1, <1>1 DEF Range
  <2>3. QED
    BY <2>1, <2>2
<1>6. Range(c) \subseteq Range(s) \cup Range(t)
  BY <1>2, <1>5 DEF Range
<1>7. Range(s) \subseteq Range(c) /\ Range(t) \subseteq Range(c)
  BY <1>1, <1>3, <1>4 DEF Range
<1>8. QED
  BY <1>6, <1>7 DEF c

---------------------------------------------------------------------------
(* Joined sequences. *)

\* J[n] has the first n sequences of ss, one after the other.
Accumulates(J, ss) ==
    /\ DOMAIN J = 0..Len(ss)
    /\ J[0] = <<>>
    /\ \A n \in 1..Len(ss) : J[n] = J[n - 1] \o ss[n]

\* Joined(ss) is reached in this way: the recursion of its definition has a solution.
LEMMA JoinedAccumulates ==
    ASSUME NEW A, NEW ss \in Seq(A)
    PROVE  \E J : Accumulates(J, ss) /\ Joined(ss) = J[Len(ss)]
<1> DEFINE N == Len(ss)
           Step(f) == [n \in 0..N |-> IF n = 0 THEN <<>> ELSE f[n - 1] \o ss[n]]
           J == CHOOSE f : f = Step(f)
           Good(f, m) == /\ DOMAIN f = 0..m
                         /\ f[0] = <<>>
                         /\ \A n \in 1..m : f[n] = f[n - 1] \o ss[n]
           Bad == {m \in 0..N : \A f : ~ Good(f, m)}
<1>1. N \in Nat
  BY LenProperties
<1> HIDE DEF N
<1>2. Bad = {}
  <2>1. SUFFICES ASSUME Bad # {}
                 PROVE  FALSE
    OBVIOUS
  <2>2. Bad \subseteq Nat
    <3>1. 0..N \subseteq Nat
      BY <1>1
    <3> HIDE DEF Good
    <3>2. QED
      BY <3>1
  <2> HIDE DEF Bad
  <2>3. PICK m \in Bad : \A i \in Bad : m <= i
    BY <2>1, <2>2, LeastNumber
  <2>4. m \in 0..N /\ \A f : ~ Good(f, m)
    BY <2>3 DEF Bad
  <2>5. m # 0
    <3> DEFINE f == [n \in 0..0 |-> <<>>]
    <3>1. Good(f, 0)
      OBVIOUS
    <3> HIDE DEF f, Good
    <3>2. QED
      BY <3>1, <2>4
  <2>6. m - 1 \in 0..N /\ m - 1 \notin Bad
    <3>1. m - 1 \in 0..N /\ m - 1 < m /\ m - 1 \in Nat /\ m \in Nat
      BY <2>4, <2>5, <1>1
    <3>2. ~ (m <= m - 1)
      BY <3>1
    <3>3. QED
      BY <3>1, <3>2, <2>3
  <2>7. PICK g : Good(g, m - 1)
    <3> HIDE DEF Good
    <3>1. QED
      BY <2>6 DEF Bad
  <2> DEFINE f == [n \in 0..m |-> IF n = m THEN g[m - 1] \o ss[m] ELSE g[n]]
  <2>8. Good(f, m)
    <3>1. m \in Nat /\ m > 0 /\ m - 1 \in Nat
      BY <2>4, <2>5, <1>1
    <3>2. ASSUME NEW n \in 1..m
          PROVE  f[n] = f[n - 1] \o ss[n]
      <4>1. n - 1 \in 0..m /\ n \in 0..m /\ n - 1 # m
        BY <3>1
      <4>2. f[n - 1] = g[n - 1]
        BY <4>1
      <4>3. CASE n = m
        BY <4>1, <4>2, <4>3
      <4>4. CASE n # m
        <5>1. n \in 1..(m - 1)
          BY <3>1, <4>4
        <5>2. f[n] = g[n]
          BY <4>1, <4>4
        <5>3. QED
          BY <5>1, <5>2, <4>2, <2>7
      <4>5. QED
        BY <4>3, <4>4
    <3>3. f[0] = <<>>
      BY <3>1, <2>7
    <3>4. DOMAIN f = 0..m
      OBVIOUS
    <3> HIDE DEF f
    <3>5. QED
      BY <3>2, <3>3, <3>4
  <2> HIDE DEF f, Good
  <2>9. QED
    BY <2>8, <2>4
<1>3. \E f : Good(f, N)
  <2> HIDE DEF Good
  <2>1. N \in 0..N
    BY <1>1
  <2>2. QED
    BY <2>1, <1>2
<1>4. \E f : f = Step(f)
  <2>1. PICK g : Good(g, N)
    BY <1>3
  <2> DEFINE f == [n \in 0..N |-> g[n]]
  <2>2. Good(f, N)
    <3>1. \A n \in 1..N : n \in 0..N /\ n - 1 \in 0..N
      BY <1>1
    <3>2. 0 \in 0..N
      BY <1>1
    <3>3. QED
      BY <3>1, <3>2, <2>1
  <2>3. \A n \in 0..N : f[n] = IF n = 0 THEN <<>> ELSE f[n - 1] \o ss[n]
    <3>1. \A n \in 0..N : n # 0 => n \in 1..N
      BY <1>1
    <3> HIDE DEF f
    <3>2. QED
      BY <3>1, <2>2
  <2>4. f = [n \in 0..N |-> f[n]]
    OBVIOUS
  <2> HIDE DEF f
  <2>5. f = Step(f)
    BY <2>3, <2>4
  <2> HIDE DEF Step
  <2>6. QED
    BY <2>5
<1>5. J = Step(J)
  <2> HIDE DEF Step
  <2>1. QED
    BY <1>4
<1>6. Joined(ss) = J[N]
  BY DEF Joined, N
<1> HIDE DEF J
<1>7. DOMAIN J = 0..N /\ \A n \in 0..N : J[n] = IF n = 0 THEN <<>> ELSE J[n - 1] \o ss[n]
  <2> DEFINE S == Step(J)
  <2>1. DOMAIN S = 0..N /\ \A n \in 0..N : S[n] = IF n = 0 THEN <<>> ELSE J[n - 1] \o ss[n]
    OBVIOUS
  <2>2. J = S
    BY <1>5
  <2> HIDE DEF S, Step
  <2>3. QED
    BY <2>1, <2>2
<1>8. Accumulates(J, ss)
  <2>1. \A n \in 1..N : n \in 0..N /\ n # 0
    BY <1>1
  <2>2. 0 \in 0..N
    BY <1>1
  <2>3. QED
    BY <1>7, <2>1, <2>2 DEF Accumulates, N
<1>9. QED
  BY <1>6, <1>8 DEF N

EachOver(J, P, n) == \A i \in 0..n : J[i] \in Seq(P)

\* Sequences over P joined are sequences over P.
LEMMA AccumulatesTypes ==
    ASSUME NEW P, NEW ss \in Seq(Seq(P)), NEW J, Accumulates(J, ss)
    PROVE  EachOver(J, P, Len(ss))
<1> DEFINE N == Len(ss)
           Bad == {m \in 0..N : J[m] \notin Seq(P)}
<1>1. N \in Nat /\ \A n \in 1..N : ss[n] \in Seq(P)
  BY LenProperties, ElementOfSeq
<1>2. J[0] = <<>> /\ \A n \in 1..N : J[n] = J[n - 1] \o ss[n]
  BY DEF Accumulates
<1> HIDE DEF N
<1>3. 0..N \subseteq Nat
  BY <1>1
<1>4. SUFFICES ASSUME Bad # {}
               PROVE  FALSE
  BY DEF EachOver, N
<1>5. PICK m \in Bad : \A i \in Bad : m <= i
  <2>1. Bad \subseteq Nat
    BY <1>3
  <2> HIDE DEF Bad
  <2>2. QED
    BY <1>4, <2>1, LeastNumber
<1>6. m \in 1..N
  <2>1. J[0] \in Seq(P)
    BY <1>2
  <2>2. m \in 0..N /\ m # 0
    BY <2>1, <1>5
  <2>3. QED
    BY <1>1, <2>2
<1>7. m - 1 \in 0..N /\ m - 1 \notin Bad
  BY <1>1, <1>5, <1>6
<1>8. J[m - 1] \in Seq(P)
  BY <1>7
<1>9. J[m] \in Seq(P)
  BY <1>2, <1>6, <1>8, <1>1, ConcatProperties
<1>10. QED
  BY <1>5, <1>9

BeginAlike(ss, tt, m) ==
    /\ Len(ss) \in Nat /\ Len(tt) \in Nat /\ m <= Len(ss) /\ m <= Len(tt)
    /\ \A i \in 1..m : ss[i] = tt[i]

\* The same recursion has the same values, as far as the sequences are the same.
LEMMA AccumulatesAlike ==
    ASSUME NEW J, NEW K, NEW ss, NEW tt, NEW m \in Nat,
           Accumulates(J, ss), Accumulates(K, tt), BeginAlike(ss, tt, m)
    PROVE  J[m] = K[m]
<1> USE DEF BeginAlike
<1> DEFINE Bad == {i \in 0..m : J[i] # K[i]}
<1>1. /\ J[0] = <<>> /\ \A n \in 1..m : J[n] = J[n - 1] \o ss[n]
      /\ K[0] = <<>> /\ \A n \in 1..m : K[n] = K[n - 1] \o tt[n]
  BY DEF Accumulates
<1>2. SUFFICES ASSUME Bad # {}
               PROVE  FALSE
  OBVIOUS
<1>3. PICK l \in Bad : \A i \in Bad : l <= i
  <2>1. Bad \subseteq Nat
    OBVIOUS
  <2> HIDE DEF Bad
  <2>2. QED
    BY <1>2, <2>1, LeastNumber
<1>4. l \in 1..m
  BY <1>1, <1>3
<1>5. l - 1 \in 0..m /\ l - 1 \notin Bad
  BY <1>3, <1>4
<1>6. J[l - 1] = K[l - 1]
  BY <1>5
<1>7. J[l] = K[l]
  BY <1>1, <1>4, <1>6
<1>8. QED
  BY <1>3, <1>7

\* Nothing joined is nothing.
LEMMA JoinedNone ==
    ASSUME NEW A, NEW ss \in Seq(A), Len(ss) = 0
    PROVE  Joined(ss) = <<>>
  BY JoinedAccumulates DEF Accumulates

\* Sequences over P joined are one sequence over P.
LEMMA JoinedIsSequence ==
    ASSUME NEW P, NEW ss \in Seq(Seq(P))
    PROVE  Joined(ss) \in Seq(P)
<1>1. PICK J : Accumulates(J, ss) /\ Joined(ss) = J[Len(ss)]
  BY JoinedAccumulates
<1>2. EachOver(J, P, Len(ss))
  BY <1>1, AccumulatesTypes
<1>3. Len(ss) \in 0..Len(ss)
  BY LenProperties
<1>4. QED
  BY <1>1, <1>2, <1>3 DEF EachOver

\* One sequence more is appended to the others.
LEMMA JoinedOneMore ==
    ASSUME NEW A, NEW ss \in Seq(A), NEW tt \in Seq(A), Len(tt) = Len(ss) + 1,
           \A i \in 1..Len(ss) : tt[i] = ss[i]
    PROVE  Joined(tt) = Joined(ss) \o tt[Len(tt)]
<1> DEFINE n == Len(ss)
<1>1. n \in Nat /\ n <= n /\ n <= Len(tt) /\ Len(tt) \in 1..Len(tt) /\ Len(tt) - 1 = n
      /\ Len(tt) \in Nat
  BY LenProperties
<1>2. PICK J : Accumulates(J, ss) /\ Joined(ss) = J[Len(ss)]
  BY JoinedAccumulates
<1>3. PICK K : Accumulates(K, tt) /\ Joined(tt) = K[Len(tt)]
  BY JoinedAccumulates
<1>4. J[n] = K[n]
  <2>1. BeginAlike(ss, tt, n)
    BY <1>1 DEF BeginAlike
  <2>2. QED
    BY <1>1, <1>2, <1>3, <2>1, AccumulatesAlike
<1>5. K[Len(tt)] = K[Len(tt) - 1] \o tt[Len(tt)]
  BY <1>1, <1>3 DEF Accumulates
<1>6. QED
  BY <1>1, <1>2, <1>3, <1>4, <1>5

Grouped(A) == \A s, t, u \in Seq(A) : (s \o t) \o u = s \o (t \o u)

\* Concatenation may be done in any grouping.
LEMMA Regrouped ==
    ASSUME NEW A
    PROVE  Grouped(A)
  BY ConcatAssociative DEF Grouped

\* As much as is appended to the last sequence is appended to all of them.
LEMMA JoinedLonger ==
    ASSUME NEW P, NEW ss \in Seq(Seq(P)), NEW tt \in Seq(Seq(P)), NEW s \in Seq(P),
           Len(ss) > 0, Len(tt) = Len(ss), tt[Len(ss)] = ss[Len(ss)] \o s,
           \A i \in 1..(Len(ss) - 1) : tt[i] = ss[i]
    PROVE  Joined(tt) = Joined(ss) \o s
<1> DEFINE n == Len(ss)
<1>1. /\ n \in Nat /\ n - 1 \in Nat /\ n - 1 <= n /\ n \in 1..n
      /\ n - 1 <= Len(tt) /\ Len(tt) \in Nat
  BY LenProperties
<1>2. PICK J : Accumulates(J, ss) /\ Joined(ss) = J[Len(ss)]
  BY JoinedAccumulates
<1>3. PICK K : Accumulates(K, tt) /\ Joined(tt) = K[Len(tt)]
  BY JoinedAccumulates
<1>4. J[n - 1] = K[n - 1]
  <2>1. \A i \in 1..(n - 1) : ss[i] = tt[i]
    OBVIOUS
  <2>2. n - 1 <= Len(ss) /\ Len(ss) \in Nat
    BY <1>1
  <2>3. BeginAlike(ss, tt, n - 1)
    BY <1>1, <2>1, <2>2 DEF BeginAlike
  <2>4. n - 1 \in Nat
    BY <1>1
  <2> HIDE DEF n
  <2>5. QED
    BY <1>2, <1>3, <2>3, <2>4, AccumulatesAlike
<1>5. J[n] = J[n - 1] \o ss[n] /\ K[n] = K[n - 1] \o (ss[n] \o s)
  BY <1>1, <1>2, <1>3 DEF Accumulates
<1>6. J[n - 1] \in Seq(P) /\ ss[n] \in Seq(P)
  <2>1. EachOver(J, P, Len(ss))
    BY <1>2, AccumulatesTypes
  <2>2. n - 1 \in 0..Len(ss)
    BY <1>1
  <2>3. QED
    BY <2>1, <2>2, <1>1, ElementOfSeq DEF EachOver
<1>7. (J[n - 1] \o ss[n]) \o s = J[n - 1] \o (ss[n] \o s)
  <2> DEFINE u == J[n - 1]
             v == ss[n]
  <2>0. Grouped(P)
    BY Regrouped
  <2>1. u \in Seq(P) /\ v \in Seq(P) /\ s \in Seq(P)
    BY <1>6
  <2> HIDE DEF u, v
  <2>2. (u \o v) \o s = u \o (v \o s)
    BY <2>1, <2>0 DEF Grouped
  <2>3. QED
    BY <2>2 DEF u, v
<1>8. QED
  BY <1>2, <1>3, <1>4, <1>5, <1>7

---------------------------------------------------------------------------
(* Selecting an interval. *)

\* The numbers of an interval, in ascending order.
LEMMA OrderedInterval ==
    ASSUME NEW a \in Nat, NEW n \in Nat
    PROVE  Ordered((a + 1)..(a + n)) = [k \in 1..n |-> a + k]
<1> DEFINE S == (a + 1)..(a + n)
           Rk(i) == Cardinality({j \in S : j <= i})
<1>1. Cardinality(S) = n
  <2>1. a + 1 \in Int /\ a + n \in Int
    OBVIOUS
  <2>2. Cardinality(S) = IF a + 1 > a + n THEN 0 ELSE (a + n) - (a + 1) + 1
    BY <2>1, FS_Interval
  <2>3. (IF a + 1 > a + n THEN 0 ELSE (a + n) - (a + 1) + 1) = n
    OBVIOUS
  <2>4. QED
    BY <2>2, <2>3
<1>2. ASSUME NEW i \in S
      PROVE  Rk(i) = i - a
  <2>1. i \in Nat /\ a + 1 <= i /\ i <= a + n
    OBVIOUS
  <2>2. {j \in S : j <= i} = (a + 1)..i
    BY <2>1
  <2>3. a + 1 \in Int /\ i \in Int
    BY <2>1
  <2>4. Cardinality((a + 1)..i) = IF a + 1 > i THEN 0 ELSE i - (a + 1) + 1
    BY <2>3, FS_Interval
  <2>5. (IF a + 1 > i THEN 0 ELSE i - (a + 1) + 1) = i - a
    BY <2>1
  <2>6. QED
    BY <2>2, <2>4, <2>5
<1>3. Ordered(S) = [k \in 1..n |-> CHOOSE i \in S : Rk(i) = k]
  BY <1>1 DEF Ordered
<1>4. \A i \in S : i \in Nat /\ i - a \in 1..n
  OBVIOUS
<1>5. \A k \in 1..n : a + k \in S /\ (a + k) - a = k
  OBVIOUS
<1> HIDE DEF S, Rk
<1>6. ASSUME NEW k \in 1..n
      PROVE  (CHOOSE i \in S : Rk(i) = k) = a + k
  <2> DEFINE c == CHOOSE i \in S : Rk(i) = k
  <2>1. a + k \in S /\ Rk(a + k) = k
    BY <1>2, <1>5
  <2>2. c \in S /\ Rk(c) = k
    BY <2>1
  <2> HIDE DEF c
  <2>3. c \in Nat /\ c - a = k
    BY <2>2, <1>2, <1>4
  <2>4. c = a + k
    BY <2>3
  <2>5. QED
    BY <2>4 DEF c
<1>7. QED
  BY <1>3, <1>6 DEF S

InPlaces(s, T, a, n) ==
    a + n <= Len(s) /\ \A i \in 1..Len(s) : s[i] \in T <=> i \in (a + 1)..(a + n)

SelectsPlaces(s, T, a, n) == Select(s, T) = [k \in 1..n |-> s[a + k]]

\* What is selected when it is the elements of an interval of positions.
LEMMA SelectInterval ==
    ASSUME NEW A, NEW s \in Seq(A), NEW T, NEW a \in Nat, NEW n \in Nat, InPlaces(s, T, a, n)
    PROVE  SelectsPlaces(s, T, a, n)
<1> USE DEF InPlaces, SelectsPlaces
<1>1. DOMAIN s = 1..Len(s) /\ Len(s) \in Nat
  BY LenProperties
<1>2. {i \in DOMAIN s : s[i] \in T} = (a + 1)..(a + n)
  <2>1. \A i \in (a + 1)..(a + n) : i \in 1..Len(s)
    BY <1>1
  <2>2. QED
    BY <1>1, <2>1
<1>3. Ordered({i \in DOMAIN s : s[i] \in T}) = [k \in 1..n |-> a + k]
  BY <1>2, OrderedInterval
<1> DEFINE o == [k \in 1..n |-> a + k]
<1>4. Select(s, T) = [k \in DOMAIN o |-> s[o[k]]]
  BY <1>3 DEF Select
<1>5. QED
  BY <1>4
=============================================================================
