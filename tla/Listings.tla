------------------------------- MODULE Listings -----------------------------
(***************************************************************************)
(* Lemmas about listing a finite set as a sequence, which the mount tables *)
(* and the rows of the browser are made with.                              *)
(***************************************************************************)
EXTENDS Integers, Sequences, SequencesExt, FiniteSets, FiniteSetTheorems, FunctionTheorems,
        SequenceTheorems, TLAPS

\* A sequence in SetToSeqs(S) lists every element of S, each at one position.
LEMMA Listing ==
    ASSUME NEW S, IsFiniteSet(S), NEW s \in SetToSeqs(S)
    PROVE  /\ Cardinality(S) \in Nat /\ s \in [1..Cardinality(S) -> S]
           /\ \A i, j \in 1..Cardinality(S) : s[i] = s[j] => i = j
           /\ \A x \in S : \E i \in 1..Cardinality(S) : s[i] = x
  <1> DEFINE n == Cardinality(S)
  <1>1. n \in Nat
    BY FS_CardinalityType
  <1>2. s \in [1..n -> S] /\ \A i, j \in 1..n : s[i] = s[j] => i = j
    BY DEF SetToSeqs
  <1>3. s \in Injection(1..n, S)
    BY <1>2, Fun_IsInj
  <1>4. IsFiniteSet(1..n) /\ Cardinality(1..n) = n
    BY <1>1, FS_Interval
  <1>5. s \in Surjection(1..n, S)
    BY <1>3, <1>4, FS_Injection
  <1>6. \A x \in S : \E i \in 1..n : s[i] = x
    BY <1>5 DEF Surjection
  <1> QED
    BY <1>1, <1>2, <1>6

\* A finite set of numbers can be listed in increasing order: each number goes
\* to the position that counts the numbers up to it.
LEMMA Increasing ==
    ASSUME NEW S \in SUBSET Nat, IsFiniteSet(S)
    PROVE  \E s \in SetToSeqs(S) : \A i, j \in DOMAIN s : i < j => s[i] < s[j]
  <1> DEFINE n == Cardinality(S)
             upTo(x) == {y \in S : y <= x}
             rank == [x \in S |-> Cardinality(upTo(x))]
  <1>1. n \in Nat
    BY FS_CardinalityType
  <1>2. ASSUME NEW x \in S
        PROVE  /\ IsFiniteSet(upTo(x)) /\ rank[x] = Cardinality(upTo(x))
               /\ rank[x] \in 1..n
    <2>1. IsFiniteSet(upTo(x)) /\ Cardinality(upTo(x)) <= n
      BY FS_Subset
    <2>2. Cardinality(upTo(x)) \in Nat
      BY <2>1, FS_CardinalityType
    <2>3. x \in upTo(x)
      OBVIOUS
    <2>4. Cardinality(upTo(x)) # 0
      BY <2>1, <2>3, FS_EmptySet
    <2> QED
      BY <1>1, <2>1, <2>2, <2>4
  <1>3. ASSUME NEW x \in S, NEW y \in S, x < y
        PROVE  rank[x] < rank[y]
    <2>1. upTo(x) \in SUBSET upTo(y)
      <3> SUFFICES ASSUME NEW z \in S, z <= x PROVE z <= y
        OBVIOUS
      <3>1. x \in Nat /\ y \in Nat /\ z \in Nat
        OBVIOUS
      <3> QED
        BY <1>3, <3>1
    <2>2. y \in upTo(y) /\ y \notin upTo(x)
      BY <1>3
    <2>3. /\ Cardinality(upTo(x)) <= Cardinality(upTo(y))
          /\ Cardinality(upTo(y)) = Cardinality(upTo(x)) => upTo(y) = upTo(x)
      BY <1>2, <2>1, FS_Subset
    <2> QED
      BY <1>1, <1>2, <2>2, <2>3
  <1>4. rank \in [S -> 1..n]
    BY <1>2
  <1>5. \A x, y \in S : rank[x] = rank[y] => x = y
    <2> SUFFICES ASSUME NEW x \in S, NEW y \in S, rank[x] = rank[y], x # y PROVE FALSE
      OBVIOUS
    <2>1. x < y \/ y < x
      OBVIOUS
    <2>2. rank[x] \in Nat /\ rank[y] \in Nat
      BY <1>1, <1>2
    <2>3. rank[x] < rank[y] \/ rank[y] < rank[x]
      BY <1>3, <2>1
    <2> QED
      BY <2>2, <2>3
  <1>6. rank \in Surjection(S, 1..n)
    <2>1. rank \in Injection(S, 1..n)
      BY <1>4, <1>5, Fun_IsInj
    <2>2. IsFiniteSet(1..n) /\ Cardinality(1..n) = n
      BY <1>1, FS_Interval
    <2> QED
      BY <2>1, <2>2, FS_Injection
  <1> DEFINE s == [k \in 1..n |-> CHOOSE x \in S : rank[x] = k]
  <1>7. ASSUME NEW k \in 1..n PROVE s[k] \in S /\ rank[s[k]] = k
    <2>1. \E x \in S : rank[x] = k
      BY <1>6 DEF Surjection
    <2> QED
      BY <2>1
  <1>8. s \in SetToSeqs(S)
    <2> HIDE DEF rank
    <2>1. s \in [1..n -> S]
      BY <1>7
    <2>2. \A i, j \in 1..n : i # j => s[i] # s[j]
      BY <1>7
    <2> QED
      BY <2>1, <2>2 DEF SetToSeqs
  <1>9. ASSUME NEW i \in DOMAIN s, NEW j \in DOMAIN s, i < j PROVE s[i] < s[j]
    <2> DEFINE a == s[i]
               b == s[j]
    <2>1. a \in S /\ b \in S /\ rank[a] = i /\ rank[b] = j
      BY <1>7
    <2>2. ~(b < a)
      <3>1. SUFFICES ASSUME b < a PROVE FALSE
        OBVIOUS
      <3>2. rank[b] < rank[a]
        BY <1>3, <2>1, <3>1
      <3> QED
        BY <1>1, <1>9, <2>1, <3>2
    <2> HIDE DEF a, b, rank
    <2>3. a # b
      <3>1. i # j
        BY <1>1, <1>9
      <3> QED
        BY <2>1, <3>1
    <2>4. a < b
      BY <2>1, <2>2, <2>3
    <2> QED
      BY <2>4 DEF a, b
  <1> QED
    BY <1>8, <1>9

\* A sequence without repetitions is no longer than a finite set its elements are in.
LEMMA DistinctElements ==
    ASSUME NEW n \in Nat, NEW S, IsFiniteSet(S), NEW f \in [1..n -> S],
           \A i, j \in 1..n : f[i] = f[j] => i = j
    PROVE  n <= Cardinality(S)
  <1>1. IsFiniteSet(1..n) /\ Cardinality(1..n) = n
    BY FS_Interval
  <1>2. f \in Injection(1..n, S)
    BY Fun_IsInj
  <1> QED
    BY <1>1, <1>2, FS_Injection

\* It is as long as the set of its elements is large.
LEMMA CountedElements ==
    ASSUME NEW n \in Nat, NEW T, NEW f \in [1..n -> T],
           \A i, j \in 1..n : f[i] = f[j] => i = j, \A t \in T : \E i \in 1..n : f[i] = t
    PROVE  Cardinality(T) = n
  <1>1. f \in Bijection(1..n, T)
    BY Fun_IsBij
  <1>2. ExistsBijection(1..n, T)
    BY <1>1 DEF ExistsBijection
  <1> QED
    BY <1>2, FS_CountingElements

\* The largest number of a finite set.
LEMMA Largest ==
    ASSUME NEW S \in SUBSET Nat, IsFiniteSet(S), S # {}
    PROVE  \E m \in S : \A x \in S : x <= m
  <1> PICK s \in SetToSeqs(S) : \A i, j \in DOMAIN s : i < j => s[i] < s[j]
    BY Increasing
  <1> DEFINE n == Cardinality(S)
  <1>1. /\ n \in Nat /\ s \in [1..n -> S]
        /\ \A x \in S : \E i \in 1..n : s[i] = x
    BY Listing
  <1>2. n # 0
    BY FS_EmptySet
  <1> HIDE DEF n
  <1>3. n \in DOMAIN s /\ s[n] \in S
    BY <1>1, <1>2
  <1>4. ASSUME NEW x \in S PROVE x <= s[n]
    <2> PICK i \in 1..n : s[i] = x
      BY <1>1
    <2>1. x \in Nat /\ s[n] \in Nat
      BY <1>3
    <2>2. CASE i = n
      BY <2>1, <2>2
    <2>3. CASE i < n
      <3>1. s[i] < s[n]
        BY <1>1, <1>3, <2>3
      <3> QED
        BY <2>1, <3>1
    <2> QED
      BY <1>1, <2>2, <2>3
  <1> QED
    BY <1>3, <1>4

\* The smallest number of a set.
LEMMA Smallest ==
    ASSUME NEW S \in SUBSET Nat, S # {}
    PROVE  \E m \in S : \A x \in S : m <= x
  <1> PICK top \in S : TRUE
    OBVIOUS
  <1> DEFINE T == {n \in 0..top : top - n \in S}
  <1>1. T \in SUBSET Nat /\ 0 \in T /\ \A n \in T : n <= top
    OBVIOUS
  <1>2. IsFiniteSet(T)
    <2>1. top \in Nat
      OBVIOUS
    <2> HIDE DEF T
    <2> QED
      BY <1>1, <2>1, FS_BoundedSetOfNaturals
  <1>3. PICK n \in T : \A k \in T : k <= n
    <2> HIDE DEF T
    <2> QED
      BY <1>1, <1>2, Largest
  <1>4. ASSUME NEW x \in S PROVE top - n <= x
    <2>1. x \in Nat /\ top \in Nat /\ n \in 0..top
      OBVIOUS
    <2>2. CASE x <= top
      <3>1. top - x \in T
        BY <2>1, <2>2
      <3>2. top - x <= n
        BY <1>3, <3>1
      <3> QED
        BY <2>1, <2>2, <3>2
    <2>3. CASE x > top
      BY <2>1, <2>3
    <2> QED
      BY <2>1, <2>2, <2>3
  <1> QED
    BY <1>4

=============================================================================
