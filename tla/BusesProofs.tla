----------------------------- MODULE BusesProofs -----------------------------
(***************************************************************************)
(* Proofs about Buses, for every set of consumers, every number of entries *)
(* and of claims in a call, every limit of the stream, every order of ids  *)
(* and any number of nacks, reclaims and abandoned batches.                *)
(***************************************************************************)
EXTENDS Buses, SequenceTheorems, FiniteSetTheorems, TLAPS

-----------------------------------------------------------------------------
(* Finite sets of numbers, and their order.                                *)

\* A set of naturals that is not empty has a least element.
LEMMA LeastNatural ==
  ASSUME NEW S \in SUBSET Nat, S # {}
  PROVE  \E x \in S : \A y \in S : x <= y
<1>1. \E x \in S : \A y \in S : <<y, x>> \notin OpToRel(<, Nat)
  BY NatLessThanWellFounded, WFMin
<1>2. PICK x \in S : \A y \in S : ~(y < x)
  BY <1>1 DEF OpToRel
<1>3. \A y \in S : x <= y
  BY <1>2
<1> QED
  BY <1>3

\* Fewer numbers of a finite set are below a smaller number.
LEMMA FewerBelow ==
  ASSUME NEW S \in SUBSET Int, IsFiniteSet(S), NEW d \in S, NEW e \in S, d < e
  PROVE  /\ Cardinality({f \in S : f <= d}) \in Nat
         /\ Cardinality({f \in S : f <= e}) \in Nat
         /\ Cardinality({f \in S : f <= d}) < Cardinality({f \in S : f <= e})
<1> DEFINE A == {f \in S : f <= d}
           B == {f \in S : f <= e}
<1>1. A \in SUBSET B /\ e \in B /\ e \notin A /\ B \in SUBSET S
  <2>1. \A f \in S : f <= d => f <= e
    OBVIOUS
  <2>2. e <= e /\ ~(e <= d)
    OBVIOUS
  <2> QED
    BY <2>1, <2>2
<1> HIDE DEF A, B
<1>2. IsFiniteSet(B) /\ IsFiniteSet(A)
  BY <1>1, FS_Subset
<1>3. Cardinality(A) \in Nat /\ Cardinality(B) \in Nat
  BY <1>2, FS_CardinalityType
<1>4. Cardinality(A) <= Cardinality(B) /\ Cardinality(A) # Cardinality(B)
  BY <1>1, <1>2, FS_Subset
<1> QED
  BY <1>3, <1>4 DEF A, B

\* A number of a finite set has itself and the smaller ones at or below it.
LEMMA RankOf ==
  ASSUME NEW S \in SUBSET Int, IsFiniteSet(S), NEW e \in S
  PROVE  Cardinality({f \in S : f <= e}) \in 1 .. Cardinality(S)
<1> DEFINE A == {f \in S : f <= e}
<1>1. A \in SUBSET S /\ e \in A
  OBVIOUS
<1> HIDE DEF A
<1>2. IsFiniteSet(A) /\ Cardinality(A) <= Cardinality(S)
  BY <1>1, FS_Subset
<1>3. Cardinality(A) \in Nat /\ Cardinality(S) \in Nat
  BY <1>2, FS_CardinalityType
<1>4. Cardinality(A) # 0
  BY <1>1, <1>2, FS_EmptySet
<1> QED
  BY <1>2, <1>3, <1>4 DEF A

\* Every rank up to the size of the set is some number's: ranks are a map of the set
\* into as many ranks, and no two numbers share one.
LEMMA EveryRank ==
  ASSUME NEW S \in SUBSET Int, IsFiniteSet(S), NEW k \in 1 .. Cardinality(S)
  PROVE  \E e \in S : Cardinality({f \in S : f <= e}) = k
<1> DEFINE n == Cardinality(S)
           At == [e \in S |-> Cardinality({f \in S : f <= e})]
<1>1. n \in Nat
  BY FS_CardinalityType
<1>2. At \in [S -> 1 .. n]
  BY RankOf
<1>3. \A d, e \in S : At[d] = At[e] => d = e
  <2>1. ASSUME NEW d \in S, NEW e \in S, d < e PROVE At[d] # At[e]
    BY <2>1, FewerBelow
  <2>2. \A d, e \in S : d < e \/ e < d \/ d = e
    OBVIOUS
  <2> HIDE DEF At
  <2> QED
    BY <2>1, <2>2
<1>4. IsFiniteSet(1 .. n) /\ Cardinality(1 .. n) = n
  BY <1>1, FS_Interval
<1>5. At \in Injection(S, 1 .. n)
  BY <1>2, <1>3 DEF Injection, IsInjective
<1>6. At \in Surjection(S, 1 .. n)
  <2> HIDE DEF At
  <2> QED BY <1>4, <1>5, FS_Injection
<1>7. \E e \in S : At[e] = k
  <2> HIDE DEF At
  <2> QED BY <1>6 DEF Surjection
<1> QED
  BY <1>7

\* The k-th number of a finite set is in it, and of rank k.
LEMMA NthIs ==
  ASSUME NEW S \in SUBSET Int, IsFiniteSet(S), NEW k \in 1 .. Cardinality(S)
  PROVE  Nth(S, k) \in S /\ Cardinality({f \in S : f <= Nth(S, k)}) = k
BY EveryRank DEF Nth

\* A sequence of numbers in ascending order.
Ascending(s) == \A i, j \in DOMAIN s : i < j => s[i] < s[j]

\* InOrder lists the numbers of a finite set, each once, in ascending order.
LEMMA InOrderLists ==
  ASSUME NEW S \in SUBSET Int, IsFiniteSet(S)
  PROVE  /\ InOrder(S) \in Seq(S) /\ Len(InOrder(S)) = Cardinality(S)
         /\ Ascending(InOrder(S))
         /\ ToSet(InOrder(S)) = S
<1> DEFINE n == Cardinality(S)
           s == InOrder(S)
<1>1. n \in Nat
  BY FS_CardinalityType
<1>2. s = [k \in 1 .. n |-> Nth(S, k)]
  BY DEF InOrder
<1>3. \A k \in 1 .. n : Nth(S, k) \in S /\ Cardinality({f \in S : f <= Nth(S, k)}) = k
  BY NthIs
<1>4. s \in [1 .. n -> S] /\ DOMAIN s = 1 .. n
  BY <1>2, <1>3
<1>5. s \in Seq(S) /\ Len(s) = n
  <2> HIDE DEF n, s
  <2> QED BY <1>1, <1>4, SeqDef, LenProperties
<1>6. \A i, j \in 1 .. n : i < j => s[i] < s[j]
  <2> SUFFICES ASSUME NEW i \in 1 .. n, NEW j \in 1 .. n, i < j PROVE s[i] < s[j]
    OBVIOUS
  <2>1. s[i] \in S /\ s[j] \in S /\ s[i] \in Int /\ s[j] \in Int
    BY <1>4
  <2>2. Cardinality({f \in S : f <= s[i]}) = i /\ Cardinality({f \in S : f <= s[j]}) = j
    BY <1>2, <1>3
  <2> HIDE DEF s, n
  <2>3. CASE s[i] = s[j]
    BY <2>2, <2>3
  <2>4. CASE s[j] < s[i]
    <3>1. j < i
      BY <2>1, <2>2, <2>4, FewerBelow
    <3> QED
      BY <3>1, <1>1
  <2> QED
    BY <2>1, <2>3, <2>4
<1>7. ASSUME NEW e \in S PROVE \E k \in 1 .. n : s[k] = e
  <2> DEFINE k == Cardinality({f \in S : f <= e})
  <2>1. k \in 1 .. n
    BY RankOf
  <2>2. s[k] \in S /\ Cardinality({f \in S : f <= s[k]}) = k
    BY <2>1, <1>2, <1>3
  <2>3. e \in Int /\ s[k] \in Int
    BY <2>2
  <2>4. s[k] = e
    <3>1. PICK d \in S : d = s[k]
      BY <2>2
    <3>2. Cardinality({f \in S : f <= d}) = Cardinality({f \in S : f <= e})
      BY <2>2, <3>1
    <3> HIDE DEF k, s
    <3>3. ~(e < d) /\ ~(d < e)
      <4>1. ASSUME e < d PROVE FALSE
        BY <4>1, <3>2, FewerBelow
      <4>2. ASSUME d < e PROVE FALSE
        BY <4>2, <3>2, FewerBelow
      <4> QED
        BY <4>1, <4>2
    <3> QED
      BY <2>3, <3>1, <3>3
  <2> QED
    BY <2>1, <2>4
<1>8. ToSet(s) = S
  <2> HIDE DEF s, n
  <2> QED BY <1>4, <1>7 DEF ToSet
<1> HIDE DEF s
<1>9. Ascending(s)
  BY <1>4, <1>6 DEF Ascending
<1> QED
  BY <1>5, <1>8, <1>9 DEF s

-----------------------------------------------------------------------------
(* Sequences, and what they hold.                                          *)

\* A sequence of a set holds elements of it.
LEMMA HoldsOf ==
  ASSUME NEW E, NEW s \in Seq(E)
  PROVE  /\ ToSet(s) \subseteq E
         /\ \A e \in ToSet(s) : \E i \in 1 .. Len(s) : s[i] = e
         /\ \A i \in 1 .. Len(s) : s[i] \in ToSet(s)
<1>1. DOMAIN s = 1 .. Len(s) /\ \A i \in 1 .. Len(s) : s[i] \in E
  BY LenProperties, ElementOfSeq
<1> QED
  BY <1>1 DEF ToSet

\* A concatenation holds what its parts hold, and repeats nothing exactly when
\* neither part does and they share nothing.
LEMMA Joining ==
  ASSUME NEW E, NEW s \in Seq(E), NEW t \in Seq(E)
  PROVE  /\ ToSet(s \o t) = ToSet(s) \cup ToSet(t)
         /\ IsInjective(s \o t)
              <=> IsInjective(s) /\ IsInjective(t) /\ ToSet(s) \cap ToSet(t) = {}
<1> DEFINE m == Len(s)
           n == Len(t)
           u == s \o t
<1>1. m \in Nat /\ n \in Nat /\ DOMAIN s = 1 .. m /\ DOMAIN t = 1 .. n
  BY LenProperties
<1>2. u \in Seq(E) /\ Len(u) = m + n
  BY ConcatProperties
<1>3. DOMAIN u = 1 .. m + n
  BY <1>2, LenProperties
<1>4. \A i \in 1 .. m + n : u[i] = IF i <= m THEN s[i] ELSE t[i - m]
  BY ConcatProperties
<1> HIDE DEF m, n, u
<1>5. \A i \in 1 .. m : i \in 1 .. m + n /\ u[i] = s[i]
  BY <1>1, <1>4
<1>6. \A i \in 1 .. n : m + i \in 1 .. m + n /\ u[m + i] = t[i] /\ m + i \notin 1 .. m
  BY <1>1, <1>4
<1>7. \A i \in 1 .. m + n :
        (i \in 1 .. m /\ u[i] = s[i]) \/ (i - m \in 1 .. n /\ u[i] = t[i - m])
  BY <1>1, <1>4
<1>8. ToSet(u) = ToSet(s) \cup ToSet(t)
  <2>1. ASSUME NEW e \in ToSet(u) PROVE e \in ToSet(s) \cup ToSet(t)
    BY <2>1, <1>1, <1>3, <1>7 DEF ToSet
  <2>2. ASSUME NEW e \in ToSet(s) PROVE e \in ToSet(u)
    BY <2>2, <1>1, <1>3, <1>5 DEF ToSet
  <2>3. ASSUME NEW e \in ToSet(t) PROVE e \in ToSet(u)
    BY <2>3, <1>1, <1>3, <1>6 DEF ToSet
  <2> QED
    BY <2>1, <2>2, <2>3
<1>9. ASSUME IsInjective(u)
      PROVE  IsInjective(s) /\ IsInjective(t) /\ ToSet(s) \cap ToSet(t) = {}
  <2>0. \A i, j \in 1 .. m + n : u[i] = u[j] => i = j
    BY <1>9, <1>3 DEF IsInjective
  <2>1. IsInjective(s)
    BY <2>0, <1>1, <1>5 DEF IsInjective
  <2>2. IsInjective(t)
    <3>1. ASSUME NEW i \in 1 .. n, NEW j \in 1 .. n, t[i] = t[j] PROVE i = j
      <4>1. m + i = m + j
        BY <2>0, <3>1, <1>6
      <4> QED BY <4>1, <1>1
    <3> QED
      BY <3>1, <1>1 DEF IsInjective
  <2>3. ASSUME NEW e \in ToSet(s), e \in ToSet(t) PROVE FALSE
    <3>1. PICK i \in 1 .. m : s[i] = e
      BY <2>3, <1>1 DEF ToSet
    <3>2. PICK j \in 1 .. n : t[j] = e
      BY <2>3, <1>1 DEF ToSet
    <3>3. i = m + j
      BY <2>0, <3>1, <3>2, <1>5, <1>6
    <3> QED
      BY <3>3, <1>1
  <2> QED
    BY <2>1, <2>2, <2>3
<1>10. ASSUME IsInjective(s), IsInjective(t), ToSet(s) \cap ToSet(t) = {}
       PROVE  IsInjective(u)
  <2>0. /\ \A i, j \in 1 .. m : s[i] = s[j] => i = j
        /\ \A i, j \in 1 .. n : t[i] = t[j] => i = j
        /\ \A i \in 1 .. m, j \in 1 .. n : s[i] # t[j]
    BY <1>10, <1>1 DEF IsInjective, ToSet
  <2>1. ASSUME NEW i \in 1 .. m + n, NEW j \in 1 .. m + n, u[i] = u[j] PROVE i = j
    <3>1. CASE i \in 1 .. m /\ u[i] = s[i] /\ j \in 1 .. m /\ u[j] = s[j]
      BY <2>0, <2>1, <3>1
    <3>2. CASE i - m \in 1 .. n /\ u[i] = t[i - m] /\ j - m \in 1 .. n /\ u[j] = t[j - m]
      <4>1. i - m = j - m
        BY <2>0, <2>1, <3>2
      <4> QED BY <4>1, <1>1
    <3>3. CASE i \in 1 .. m /\ u[i] = s[i] /\ j - m \in 1 .. n /\ u[j] = t[j - m]
      BY <2>0, <2>1, <3>3
    <3>4. CASE i - m \in 1 .. n /\ u[i] = t[i - m] /\ j \in 1 .. m /\ u[j] = s[j]
      BY <2>0, <2>1, <3>4
    <3> QED
      BY <1>7, <3>1, <3>2, <3>3, <3>4
  <2> QED
    BY <2>1, <1>3 DEF IsInjective
<1> QED
  BY <1>8, <1>9, <1>10 DEF u

\* Ascending sequences repeat nothing.
LEMMA AscendingIsInjective ==
  ASSUME NEW s \in Seq(Int), Ascending(s)
  PROVE  IsInjective(s)
<1>1. DOMAIN s = 1 .. Len(s) /\ Len(s) \in Nat
  BY LenProperties
<1>2. \A i \in DOMAIN s : s[i] \in Int
  BY <1>1, ElementOfSeq
<1>3. ASSUME NEW i \in DOMAIN s, NEW j \in DOMAIN s, s[i] = s[j] PROVE i = j
  <2>1. ~(i < j) /\ ~(j < i)
    BY <1>2, <1>3 DEF Ascending
  <2> QED
    BY <2>1, <1>1
<1> QED
  BY <1>3 DEF IsInjective

\* There is one way to list numbers in ascending order: at the least place where two
\* lists of the same numbers would differ, neither could have the other's number.
LEMMA OneAscending ==
  ASSUME NEW s \in Seq(Int), NEW t \in Seq(Int), Ascending(s), Ascending(t),
         ToSet(s) = ToSet(t)
  PROVE  s = t
<1> DEFINE m == Len(s)
           n == Len(t)
           Same(k) == (k \in 1 .. m <=> k \in 1 .. n) /\ (k \in 1 .. m => s[k] = t[k])
           bad == {k \in Nat : ~Same(k)}
<1>1. m \in Nat /\ n \in Nat /\ DOMAIN s = 1 .. m /\ DOMAIN t = 1 .. n
  BY LenProperties
<1>2. (\A i \in 1 .. m : s[i] \in Int) /\ (\A i \in 1 .. n : t[i] \in Int)
  BY ElementOfSeq
<1>3. /\ \A i \in 1 .. m : \E j \in 1 .. n : s[i] = t[j]
      /\ \A j \in 1 .. n : \E i \in 1 .. m : s[i] = t[j]
  BY <1>1 DEF ToSet
<1>4. /\ \A i, j \in 1 .. m : i < j => s[i] < s[j]
      /\ \A i, j \in 1 .. n : i < j => t[i] < t[j]
  BY <1>1 DEF Ascending
<1> HIDE DEF m, n
<1>5. ASSUME bad # {} PROVE FALSE
  <2>1. bad \in SUBSET Nat
    OBVIOUS
  <2>2. PICK k \in bad : \A j \in bad : k <= j
    <3> HIDE DEF bad
    <3> QED BY <1>5, <2>1, LeastNatural
  <2>3. k \in Nat /\ ~Same(k)
    OBVIOUS
  <2>4. \A j \in Nat : j < k => Same(j)
    BY <2>2
  <2>5. ASSUME k \in 1 .. m PROVE k \in 1 .. n /\ t[k] <= s[k]
    <3>1. PICK j \in 1 .. n : s[k] = t[j]
      BY <2>5, <1>3
    <3>2. ~(j < k)
      <4>1. ASSUME j < k PROVE FALSE
        <5>1. j \in 1 .. m /\ s[j] = t[j]
          BY <2>4, <4>1, <1>1
        <5>2. s[j] < s[k]
          BY <5>1, <4>1, <2>5, <1>4
        <5> QED
          BY <5>1, <5>2, <3>1, <1>2
      <4> QED
        BY <4>1
    <3>3. k <= j /\ k \in 1 .. n
      BY <3>2, <2>3, <2>5, <1>1
    <3>4. t[k] <= t[j]
      BY <3>3, <1>2, <1>4
    <3> QED
      BY <3>1, <3>3, <3>4
  <2>6. ASSUME k \in 1 .. n PROVE k \in 1 .. m /\ s[k] <= t[k]
    <3>1. PICK j \in 1 .. m : s[j] = t[k]
      BY <2>6, <1>3
    <3>2. ~(j < k)
      <4>1. ASSUME j < k PROVE FALSE
        <5>1. j \in 1 .. n /\ s[j] = t[j]
          BY <2>4, <4>1, <1>1
        <5>2. t[j] < t[k]
          BY <5>1, <4>1, <2>6, <1>4
        <5> QED
          BY <5>1, <5>2, <3>1, <1>2
      <4> QED
        BY <4>1
    <3>3. k <= j /\ k \in 1 .. m
      BY <3>2, <2>3, <2>6, <1>1
    <3>4. s[k] <= s[j]
      BY <3>3, <1>2, <1>4
    <3> QED
      BY <3>1, <3>3, <3>4
  <2>7. k \in 1 .. m => s[k] = t[k]
    BY <2>5, <2>6, <1>2
  <2> QED
    BY <2>3, <2>5, <2>6, <2>7
<1>6. \A k \in Nat : Same(k)
  BY <1>5
<1> HIDE DEF Same
<1>7. m = n
  <2>1. Same(m) /\ Same(n)
    BY <1>1, <1>6
  <2> QED
    BY <2>1, <1>1, SMT DEF Same
<1>8. \A i \in 1 .. m : s[i] = t[i]
  BY <1>1, <1>6 DEF Same
<1> QED
  BY <1>7, <1>8, SeqEqual DEF m, n

\* Among keeps what is in the set, and repeats nothing that was not repeated.
LEMMA AmongKeeps ==
  ASSUME NEW E, NEW s \in Seq(E), NEW S
  PROVE  /\ Among(s, S) \in Seq(E)
         /\ ToSet(Among(s, S)) = ToSet(s) \cap S
         /\ IsInjective(s) => IsInjective(Among(s, S))
<1> DEFINE W == {i \in DOMAIN s : s[i] \in S}
           at == InOrder(W)
           u == Among(s, S)
           n == Cardinality(W)
<1>1. DOMAIN s = 1 .. Len(s) /\ Len(s) \in Nat /\ \A i \in 1 .. Len(s) : s[i] \in E
  BY LenProperties, ElementOfSeq
<1>2. IsFiniteSet(1 .. Len(s)) /\ W \in SUBSET (1 .. Len(s)) /\ W \in SUBSET Int
  BY <1>1, FS_Interval
<1>3. IsFiniteSet(W)
  <2> HIDE DEF W
  <2> QED BY <1>2, FS_Subset
<1>4. /\ at \in Seq(W) /\ Len(at) = n /\ Ascending(at) /\ ToSet(at) = W
      /\ n \in Nat
  <2> HIDE DEF W
  <2> QED BY <1>2, <1>3, InOrderLists, FS_CardinalityType
<1>5. DOMAIN at = 1 .. n /\ \A k \in 1 .. n : at[k] \in W
  <2> HIDE DEF W, at, n
  <2> QED BY <1>4, LenProperties, ElementOfSeq
<1>6. u = [k \in 1 .. n |-> s[at[k]]]
  BY <1>5 DEF Among
<1>7. \A k \in 1 .. n : at[k] \in 1 .. Len(s) /\ s[at[k]] \in S /\ s[at[k]] \in E
  <2>1. \A i \in W : i \in 1 .. Len(s) /\ s[i] \in S /\ s[i] \in E
    BY <1>1
  <2> HIDE DEF W, at, n
  <2> QED BY <1>5, <2>1
<1>8. \A e \in ToSet(s) \cap S : \E k \in 1 .. n : s[at[k]] = e
  <2>1. \A e \in ToSet(s) \cap S : \E i \in W : s[i] = e
    BY <1>1 DEF ToSet
  <2> HIDE DEF W, at, n
  <2>2. \A i \in W : \E k \in 1 .. n : at[k] = i
    BY <1>4, <1>5 DEF ToSet
  <2> QED
    BY <2>1, <2>2
<1>9. IsInjective(at)
  <2>1. at \in Seq(Int)
    <3> HIDE DEF W, at
    <3> QED BY <1>2, <1>4, SeqMonotonic
  <2> HIDE DEF at
  <2> QED
    BY <1>4, <2>1, AscendingIsInjective
<1> HIDE DEF W, at, n, u
<1>10. u \in Seq(E) /\ DOMAIN u = 1 .. n
  <2>1. u \in [1 .. n -> E]
    BY <1>6, <1>7
  <2> QED
    BY <2>1, <1>4, SeqDef
<1>11. ToSet(u) = ToSet(s) \cap S
  <2>1. ASSUME NEW e \in ToSet(u) PROVE e \in ToSet(s) \cap S
    BY <2>1, <1>1, <1>6, <1>7, <1>10 DEF ToSet
  <2>2. ASSUME NEW e \in ToSet(s) \cap S PROVE e \in ToSet(u)
    BY <2>2, <1>6, <1>8, <1>10 DEF ToSet
  <2> QED
    BY <2>1, <2>2
<1>12. ASSUME IsInjective(s) PROVE IsInjective(u)
  BY <1>12, <1>1, <1>5, <1>6, <1>7, <1>9, <1>10 DEF IsInjective
<1> QED
  BY <1>10, <1>11, <1>12 DEF u

\* A sequence is its first n entries and the rest.
LEMMA Splitting ==
  ASSUME NEW E, NEW s \in Seq(E), NEW n \in 0 .. Len(s)
  PROVE  /\ SubSeq(s, 1, n) \in Seq(E) /\ SubSeq(s, n + 1, Len(s)) \in Seq(E)
         /\ Len(SubSeq(s, 1, n)) = n
         /\ SubSeq(s, 1, n) \o SubSeq(s, n + 1, Len(s)) = s
<1>1. Len(s) \in Nat /\ \A i \in 1 .. Len(s) : s[i] \in E
  BY LenProperties, ElementOfSeq
<1>2. n \in Int /\ n + 1 \in Int /\ Len(s) \in Int /\ 1 \in Int
  BY <1>1
<1>3. (\A i \in 1 .. n : s[i] \in E) /\ (\A i \in n + 1 .. Len(s) : s[i] \in E)
  BY <1>1
<1> DEFINE a == SubSeq(s, 1, n)
           b == SubSeq(s, n + 1, Len(s))
           m == Len(s)
<1>4. a \in Seq(E) /\ Len(a) = n /\ \A i \in 1 .. n : a[i] = s[i]
  <2>1. a \in Seq(E) /\ Len(a) = (IF 1 <= n THEN n - 1 + 1 ELSE 0)
          /\ \A i \in 1 .. n - 1 + 1 : a[i] = s[1 + i - 1]
    BY <1>2, <1>3, SubSeqProperties
  <2> HIDE DEF a
  <2>2. Len(a) = n
    BY <2>1, <1>2
  <2> QED
    BY <2>1, <2>2
<1>5. b \in Seq(E) /\ Len(b) = m - n /\ \A i \in 1 .. m - n : b[i] = s[n + i]
  <2>1. b \in Seq(E) /\ Len(b) = (IF n + 1 <= m THEN m - (n + 1) + 1 ELSE 0)
          /\ \A i \in 1 .. m - (n + 1) + 1 : b[i] = s[(n + 1) + i - 1]
    BY <1>2, <1>3, SubSeqProperties
  <2> HIDE DEF b
  <2>2. Len(b) = m - n
    BY <2>1, <1>1, <1>2
  <2>3. \A i \in 1 .. m - n : i \in 1 .. m - (n + 1) + 1 /\ (n + 1) + i - 1 = n + i
    BY <1>1, <1>2
  <2> QED
    BY <2>1, <2>2, <2>3
<1> HIDE DEF a, b
<1>6. /\ a \o b \in Seq(E) /\ Len(a \o b) = Len(a) + Len(b)
      /\ \A i \in 1 .. Len(a) + Len(b) : (a \o b)[i] = IF i <= Len(a) THEN a[i] ELSE b[i - Len(a)]
  BY <1>4, <1>5, ConcatProperties
<1>7. Len(a \o b) = m /\ \A i \in 1 .. m : (a \o b)[i] = s[i]
  <2>1. Len(a) + Len(b) = m
    BY <1>1, <1>4, <1>5
  <2>2. \A i \in 1 .. m : i <= n => i \in 1 .. n
    OBVIOUS
  <2>3. \A i \in 1 .. m : ~(i <= n) => i - n \in 1 .. m - n /\ n + (i - n) = i
    BY <1>1
  <2> QED
    BY <1>4, <1>5, <1>6, <2>1, <2>2, <2>3
<1>8. a \o b = s
  BY <1>6, <1>7, SeqEqual
<1> QED
  BY <1>4, <1>5, <1>8 DEF a, b

\* The k numbers after a, counted up.
LEMMA CountingUp ==
  ASSUME NEW a \in Int, NEW k \in Nat
  PROVE  /\ [i \in 1 .. k |-> a + i] \in Seq(Int)
         /\ Len([i \in 1 .. k |-> a + i]) = k
         /\ Ascending([i \in 1 .. k |-> a + i])
         /\ ToSet([i \in 1 .. k |-> a + i]) = a + 1 .. a + k
<1> DEFINE s == [i \in 1 .. k |-> a + i]
<1>1. s \in [1 .. k -> Int] /\ DOMAIN s = 1 .. k /\ \A i \in 1 .. k : s[i] = a + i
  OBVIOUS
<1> HIDE DEF s
<1>2. s \in Seq(Int) /\ Len(s) = k
  BY <1>1, SeqDef, LenProperties
<1>3. Ascending(s)
  BY <1>1 DEF Ascending
<1>4. ToSet(s) = a + 1 .. a + k
  <2>1. \A i \in 1 .. k : a + i \in a + 1 .. a + k
    OBVIOUS
  <2>2. \A e \in a + 1 .. a + k : e - a \in 1 .. k /\ a + (e - a) = e
    OBVIOUS
  <2>3. \A e \in a + 1 .. a + k : \E i \in 1 .. k : s[i] = e
    BY <1>1, <2>2
  <2> QED
    BY <1>1, <2>1, <2>3 DEF ToSet
<1> QED
  BY <1>2, <1>3, <1>4 DEF s

\* The larger of two numbers.
LEMMA LargerOfTwo ==
  ASSUME NEW a \in Int, NEW b \in Int
  PROVE  Max({a, b}) = IF a <= b THEN b ELSE a
<1> DEFINE m == IF a <= b THEN b ELSE a
<1>1. m \in {a, b} /\ \A y \in {a, b} : m >= y
  OBVIOUS
<1>2. \A x \in {a, b} : (\A y \in {a, b} : x >= y) => x = m
  OBVIOUS
<1> QED
  BY <1>1, <1>2 DEF Max

\* The smaller of two numbers.
LEMMA SmallerOfTwo ==
  ASSUME NEW a \in Int, NEW b \in Int
  PROVE  Min({a, b}) = IF a <= b THEN a ELSE b
<1> DEFINE m == IF a <= b THEN a ELSE b
<1>1. m \in {a, b} /\ \A y \in {a, b} : m <= y
  OBVIOUS
<1>2. \A x \in {a, b} : (\A y \in {a, b} : x <= y) => x = m
  OBVIOUS
<1> QED
  BY <1>1, <1>2 DEF Min

\* The largest of a number and a later interval that is not empty is where that ends.
LEMMA LargestOf ==
  ASSUME NEW a \in Int, NEW b \in Int, NEW c \in Int, a < b, b <= c
  PROVE  Max({a} \cup (b .. c)) = c
<1>1. c \in {a} \cup (b .. c) /\ \A y \in {a} \cup (b .. c) : c >= y
  OBVIOUS
<1>2. \A x \in {a} \cup (b .. c) : (\A y \in {a} \cup (b .. c) : x >= y) => x = c
  OBVIOUS
<1> QED
  BY <1>1, <1>2 DEF Max

\* FirstOf takes at most n of a finite set, the small ones before the others, and all
\* of a set that has no more than n.
LEMMA FirstOfTakes ==
  ASSUME NEW S \in SUBSET Int, IsFiniteSet(S), NEW n \in Nat
  PROVE  /\ FirstOf(S, n) \in SUBSET S /\ IsFiniteSet(FirstOf(S, n))
         /\ Cardinality(FirstOf(S, n)) \in 0 .. n
         /\ \A e \in FirstOf(S, n), f \in S : f < e => f \in FirstOf(S, n)
         /\ Cardinality(S) <= n => FirstOf(S, n) = S
<1> DEFINE T == FirstOf(S, n)
           Below(e) == {f \in S : f < e}
           AtMost(e) == {f \in S : f <= e}
<1>1. \A e \in S : e \in T <=> Cardinality(Below(e)) < n
  BY DEF FirstOf
<1>2. T \in SUBSET S
  BY DEF FirstOf
<1>3. IsFiniteSet(T) /\ Cardinality(T) \in Nat /\ Cardinality(S) \in Nat
  <2> HIDE DEF T
  <2> QED BY <1>2, FS_Subset, FS_CardinalityType
<1>4. \A e \in S : IsFiniteSet(Below(e)) /\ Cardinality(Below(e)) \in Nat
  <2>1. ASSUME NEW e \in S PROVE IsFiniteSet(Below(e)) /\ Cardinality(Below(e)) \in Nat
    <3>1. Below(e) \in SUBSET S
      OBVIOUS
    <3> HIDE DEF Below
    <3> QED BY <3>1, FS_Subset, FS_CardinalityType
  <2> HIDE DEF Below
  <2> QED
    BY <2>1
<1>5. \A e \in S : Cardinality(AtMost(e)) = Cardinality(Below(e)) + 1
  <2>1. ASSUME NEW e \in S PROVE Cardinality(AtMost(e)) = Cardinality(Below(e)) + 1
    <3>0. \A f \in S : f <= e <=> f < e \/ f = e
      OBVIOUS
    <3>1. AtMost(e) = Below(e) \cup {e} /\ e \notin Below(e)
      <4>1. ~(e < e)
        OBVIOUS
      <4> QED
        BY <3>0, <4>1
    <3> HIDE DEF Below, AtMost
    <3> QED BY <3>1, <1>4, FS_AddElement
  <2> HIDE DEF Below, AtMost
  <2> QED
    BY <2>1
<1>6. Cardinality(T) <= n
  <2>1. CASE T = {}
    <3> HIDE DEF T
    <3> QED BY <2>1, FS_EmptySet
  <2>2. CASE T # {}
    <3>1. PICK e \in S : Cardinality(AtMost(e)) = Cardinality(T) /\ e \in T
      <4> DEFINE k == Cardinality(T)
      <4>1. k \in 1 .. Cardinality(T)
        <5>1. k # 0
          <6> HIDE DEF T
          <6> QED BY <2>2, <1>3, FS_EmptySet
        <5> HIDE DEF T
        <5> QED BY <5>1, <1>3
      <4>2. T \in SUBSET Int
        <5> HIDE DEF T
        <5> QED BY <1>2
      <4>3. PICK e \in T : Cardinality({f \in T : f <= e}) = k
        <5> HIDE DEF T, k
        <5> QED BY <4>1, <4>2, <1>3, EveryRank
      <4>4. {f \in T : f <= e} \in SUBSET T /\ Cardinality({f \in T : f <= e}) = Cardinality(T)
        BY <4>3
      <4>5. {f \in T : f <= e} = T
        <5> HIDE DEF T
        <5> QED BY <4>4, <1>3, FS_Subset
      <4>6. \A f \in S : f <= e => f \in T
        <5>1. ASSUME NEW f \in S, f <= e PROVE f \in T
          <6>2. e \in S
            <7> HIDE DEF T
            <7> QED BY <1>2, <4>3
          <6>0. \A g \in S : g < f => g < e
            BY <5>1, <6>2
          <6>1. Below(f) \in SUBSET Below(e)
            BY <6>0
          <6> HIDE DEF Below, T
          <6>3. Cardinality(Below(f)) <= Cardinality(Below(e))
            BY <6>1, <6>2, <1>4, FS_Subset
          <6> QED
            BY <5>1, <6>2, <6>3, <4>3, <1>1, <1>4
        <5> HIDE DEF T
        <5> QED
          BY <5>1
      <4>7. AtMost(e) = {f \in T : f <= e}
        BY <4>6, <1>2
      <4> HIDE DEF T, AtMost
      <4> QED
        BY <4>3, <4>4, <4>7, <1>2
    <3> HIDE DEF T, Below, AtMost
    <3> QED
      BY <3>1, <1>1, <1>3, <1>4, <1>5
  <2> QED
    BY <2>1, <2>2
<1>7. \A e \in T, f \in S : f < e => f \in T
  <2>1. ASSUME NEW e \in T, NEW f \in S, f < e PROVE f \in T
    <3>2. e \in S
      <4> HIDE DEF T
      <4> QED BY <1>2
    <3>3. \A g \in S : g < f => g < e
      BY <2>1, <3>2
    <3>1. Below(f) \in SUBSET Below(e) /\ e \in S
      BY <3>2, <3>3
    <3> HIDE DEF Below, T
    <3>4. Cardinality(Below(f)) <= Cardinality(Below(e))
      BY <3>1, <1>4, FS_Subset
    <3> QED
      BY <2>1, <3>1, <3>4, <1>1, <1>4
  <2> HIDE DEF T
  <2> QED
    BY <2>1
<1>8. ASSUME Cardinality(S) <= n PROVE T = S
  <2>1. ASSUME NEW e \in S PROVE e \in T
    <3>1. AtMost(e) \in SUBSET S
      OBVIOUS
    <3> HIDE DEF AtMost, Below, T
    <3>2. Cardinality(AtMost(e)) <= Cardinality(S)
      BY <3>1, FS_Subset
    <3> QED
      BY <3>2, <1>1, <1>3, <1>4, <1>5, <1>8
  <2> HIDE DEF T
  <2> QED
    BY <2>1, <1>2
<1> HIDE DEF T
<1>9. Cardinality(T) \in 0 .. n
  BY <1>3, <1>6
<1> QED
  BY <1>2, <1>3, <1>7, <1>8, <1>9 DEF T

\* The first n of an interval are where it begins.
LEMMA FirstOfInterval ==
  ASSUME NEW a \in Int, NEW b \in Int, NEW n \in Nat, a <= b + 1
  PROVE  FirstOf(a .. b, n) = a .. (a + (IF n <= b + 1 - a THEN n ELSE b + 1 - a) - 1)
<1>1. ASSUME NEW e \in a .. b PROVE Cardinality({f \in a .. b : f < e}) = e - a
  <2>1. {f \in a .. b : f < e} = a .. (e - 1) /\ e - 1 \in Int
    OBVIOUS
  <2>2. Cardinality(a .. (e - 1)) = IF a > e - 1 THEN 0 ELSE (e - 1) - a + 1
    BY <2>1, FS_Interval
  <2>3. Cardinality({f \in a .. b : f < e}) = Cardinality(a .. (e - 1))
    BY <2>1
  <2>4. (IF a > e - 1 THEN 0 ELSE (e - 1) - a + 1) = e - a
    OBVIOUS
  <2> QED
    BY <2>2, <2>3, <2>4
<1>2. FirstOf(a .. b, n) = {e \in a .. b : e - a < n}
  BY <1>1 DEF FirstOf
<1> DEFINE c == a + (IF n <= b + 1 - a THEN n ELSE b + 1 - a) - 1
<1>3. c \in Int /\ \A e \in Int : e \in a .. b /\ e - a < n <=> e \in a .. c
  OBVIOUS
<1> HIDE DEF c
<1>4. (\A e \in a .. b : e \in Int) /\ (\A e \in a .. c : e \in Int)
  BY <1>3
<1>5. {e \in a .. b : e - a < n} = a .. c
  BY <1>3, <1>4, Zenon
<1> QED
  BY <1>2, <1>5 DEF c

\* A sequence is one of whatever set its entries are in.
LEMMA Retyping ==
  ASSUME NEW D, NEW E, NEW s \in Seq(D), ToSet(s) \subseteq E
  PROVE  s \in Seq(E)
<1>1. Len(s) \in Nat /\ s \in [1 .. Len(s) -> D] /\ DOMAIN s = 1 .. Len(s)
  BY LenProperties
<1>2. s \in [1 .. Len(s) -> E]
  BY <1>1 DEF ToSet
<1> QED
  BY <1>1, <1>2, SeqDef

-----------------------------------------------------------------------------
(* The inductive invariant.                                                *)

\* What a claim answers of one entry, and the states of the two transports.
Deliveries == [entry : Entries, count : Nat]
MemStates ==
  [cursor : 0 .. N, pending : Seq(Entries), retry : Seq(Entries), count : [Entries -> Nat]]
RedStates ==
  [cursor : 0 .. N, owner : [Entries -> deployed \cup {NoOne}], count : [Entries -> Nat]]

\* What every variable holds.
Shape ==
  /\ used \in {{"memory"}, {"redis"}, Transports}
  /\ used = Transports => Sole(deployed)
  /\ deployed \in Deployments /\ limit \in Limits /\ rank \in Ranks
  /\ joined \in BOOLEAN
  /\ tail \in 0 .. N
  /\ kept \in 1 .. N /\ kept <= tail + 1
  /\ mem \in MemStates
  /\ red \in RedStates
  /\ last \in [Transports -> Seq(Deliveries)]
  /\ given \in [Transports -> [Entries -> Nat]]
  /\ batch \in [Consumers -> Seq(Entries)]
  /\ idle \in [Transports -> SUBSET Entries]
  /\ nacks \in 0 .. MaxNacks /\ lost \in 0 .. MaxLost

\* Where entries are: nothing is pending or queued before it was read, or twice, and
\* what is idle is pending unless it was trimmed.
Places ==
  /\ mem.cursor <= tail /\ red.cursor <= tail
  /\ IsInjective(mem.pending \o mem.retry)
  /\ ToSet(mem.pending \o mem.retry) \subseteq 1 .. mem.cursor
  /\ RedPending \subseteq 1 .. red.cursor
  /\ Kept(idle.redis) \subseteq RedPending
  /\ ~joined \/ ~OnMemory => mem.cursor = 0
  /\ ~joined \/ ~OnRedis => red.cursor = 0

\* Each transport keeps the number of deliveries, and it is 0 beyond its cursor.
Counted ==
  /\ \A e \in Entries : mem.count[e] = given.memory[e] /\ red.count[e] = given.redis[e]
  /\ \A e \in Entries : mem.cursor < e => given.memory[e] = 0
  /\ \A e \in Entries : red.cursor < e => given.redis[e] = 0

\* What a batch holds was delivered.
Held ==
  \A c \in Consumers : ToSet(batch[c]) \subseteq {e \in Entries : \E b \in used : given[b][e] > 0}

BusInv == Shape /\ Places /\ Counted /\ Held

\* What one claim makes of InMemoryBus, and what it answers: it moves the cursor, puts
\* what it passes over among the outstanding, and counts what it answers.
MemStep(m, answer) ==
  /\ m \in MemStates /\ answer \in Seq(Deliveries)
  /\ m.cursor \in mem.cursor .. tail
  /\ IsInjective(m.pending \o m.retry)
  /\ ToSet(m.pending \o m.retry)
       = ToSet(mem.pending \o mem.retry) \cup (mem.cursor + 1 .. m.cursor)
  /\ ToSet(EntriesOf(answer)) \subseteq 1 .. m.cursor
  /\ \A e \in Entries :
       m.count[e] = IF e \in ToSet(EntriesOf(answer)) THEN mem.count[e] + 1 ELSE mem.count[e]
  /\ \A i \in DOMAIN answer : answer[i].count = mem.count[answer[i].entry] + 1

\* The entries a reader with this cursor is through with: what was trimmed counts.
Through(n) == Max({n, kept - 1})

\* The same of RedisBus: a count is exact or too small.
RedStep(r, answer) ==
  /\ r \in RedStates /\ answer \in Seq(Deliveries)
  /\ r.cursor \in red.cursor .. tail
  /\ PendingIn(r) \subseteq 1 .. r.cursor
  /\ Kept(PendingIn(r)) = Kept(RedPending) \cup (Through(red.cursor) + 1 .. Through(r.cursor))
  /\ ToSet(EntriesOf(answer)) \subseteq 1 .. r.cursor
  /\ \A e \in Entries :
       r.count[e] = IF e \in ToSet(EntriesOf(answer)) THEN red.count[e] + 1 ELSE red.count[e]
  /\ \A i \in DOMAIN answer : answer[i].count <= red.count[answer[i].entry] + 1

-----------------------------------------------------------------------------
(* One claim.                                                              *)

\* An answer that has the entries of a sequence.
LEMMA Answering ==
  ASSUME NEW s \in Seq(Entries), NEW A \in [DOMAIN s -> Deliveries],
         \A i \in DOMAIN s : A[i].entry = s[i]
  PROVE  A \in Seq(Deliveries) /\ DOMAIN A = DOMAIN s /\ EntriesOf(A) = s
<1>1. Len(s) \in Nat /\ DOMAIN s = 1 .. Len(s) /\ s \in [1 .. Len(s) -> Entries]
  BY LenProperties
<1>2. A \in Seq(Deliveries)
  BY <1>1, SeqDef
<1>3. EntriesOf(A) = s
  BY <1>1 DEF EntriesOf
<1> QED
  BY <1>2, <1>3

\* The parts of Shape that the lemmas about claims use.
LEMMA Parts ==
  ASSUME Shape, Places
  PROVE  /\ N \in Nat \ {0} /\ Count \in Nat \ {0} /\ tail \in 0 .. N /\ kept \in 1 .. N
         /\ kept <= tail + 1
         /\ mem.cursor \in 0 .. tail /\ mem.pending \in Seq(Entries) /\ mem.retry \in Seq(Entries)
         /\ mem.count \in [Entries -> Nat]
         /\ red.cursor \in 0 .. tail /\ red.owner \in [Entries -> deployed \cup {NoOne}]
         /\ red.count \in [Entries -> Nat]
         /\ deployed \subseteq Consumers /\ deployed # {} /\ NoOne \notin deployed
<1>1. N \in Nat \ {0} /\ Count \in Nat \ {0} /\ tail \in 0 .. N /\ kept \in 1 .. N
      /\ kept <= tail + 1
  BY BusConstants DEF Shape
<1>2. /\ mem.cursor \in 0 .. N /\ mem.pending \in Seq(Entries) /\ mem.retry \in Seq(Entries)
      /\ mem.count \in [Entries -> Nat]
  BY DEF Shape, MemStates
<1>3. /\ red.cursor \in 0 .. N /\ red.owner \in [Entries -> deployed \cup {NoOne}]
      /\ red.count \in [Entries -> Nat]
  BY DEF Shape, RedStates
<1>4. mem.cursor <= tail /\ red.cursor <= tail
  BY DEF Places
<1>5. mem.cursor \in 0 .. tail /\ red.cursor \in 0 .. tail
  BY <1>1, <1>2, <1>3, <1>4
<1>6. deployed \subseteq Consumers /\ deployed # {} /\ NoOne \notin deployed
  BY BusConstants DEF Shape
<1> QED
  BY <1>1, <1>2, <1>3, <1>5, <1>6

\* InMemoryBus.subscribe: what is queued and not claimed stays queued, and what is
\* new is what the cursor passes over.
LEMMA MemClaiming ==
  ASSUME Shape, Places
  PROVE  /\ Again \in Seq(Entries)
         /\ Len(Again) = (IF Count <= Len(mem.retry) THEN Count ELSE Len(mem.retry))
         /\ SubSeq(mem.retry, Len(Again) + 1, Len(mem.retry)) \in Seq(Entries)
         /\ Again \o SubSeq(mem.retry, Len(Again) + 1, Len(mem.retry)) = mem.retry
         /\ MemNew = (IF Count - Len(Again) <= tail - mem.cursor
                      THEN Count - Len(Again) ELSE tail - mem.cursor)
         /\ MemNew \in Nat /\ mem.cursor + MemNew \in mem.cursor .. tail
         /\ [i \in 1 .. MemNew |-> mem.cursor + i] \in Seq(Entries)
         /\ Ascending([i \in 1 .. MemNew |-> mem.cursor + i])
         /\ ToSet([i \in 1 .. MemNew |-> mem.cursor + i]) = mem.cursor + 1 .. mem.cursor + MemNew
         /\ Len([i \in 1 .. MemNew |-> mem.cursor + i]) = MemNew
         /\ MemClaims \in Seq(Entries)
         /\ ToSet(MemClaims) = ToSet(Again) \cup (mem.cursor + 1 .. mem.cursor + MemNew)
<1> DEFINE n == Min({Count, Len(mem.retry)})
           k == MemNew
           new == [i \in 1 .. k |-> mem.cursor + i]
<1>1. /\ Count \in Nat /\ mem.retry \in Seq(Entries) /\ Len(mem.retry) \in Nat
      /\ tail \in Nat /\ mem.cursor \in Nat /\ mem.cursor <= tail /\ tail <= N /\ N \in Nat
  BY Parts, LenProperties
<1>2. n = (IF Count <= Len(mem.retry) THEN Count ELSE Len(mem.retry))
  BY <1>1, SmallerOfTwo
<1>3. n \in 0 .. Len(mem.retry) /\ n <= Count
  <2> HIDE DEF n
  <2> QED BY <1>1, <1>2
<1>4. Again = SubSeq(mem.retry, 1, n)
  BY DEF Again
<1> HIDE DEF n
<1>5. /\ Again \in Seq(Entries) /\ Len(Again) = n
      /\ SubSeq(mem.retry, n + 1, Len(mem.retry)) \in Seq(Entries)
      /\ Again \o SubSeq(mem.retry, n + 1, Len(mem.retry)) = mem.retry
  BY <1>1, <1>3, <1>4, Splitting
<1>6. k = IF Count - n <= tail - mem.cursor THEN Count - n ELSE tail - mem.cursor
  <2>1. k = Min({Count - n, tail - mem.cursor})
    BY <1>5 DEF MemNew
  <2>2. Count - n \in Int /\ tail - mem.cursor \in Int
    BY <1>1, <1>3
  <2> HIDE DEF k
  <2> QED
    BY <2>1, <2>2, SmallerOfTwo
<1>7. k \in Nat /\ mem.cursor + k \in mem.cursor .. tail
  <2> HIDE DEF k
  <2> QED BY <1>1, <1>3, <1>6
<1>8. new \in Seq(Int) /\ Ascending(new) /\ ToSet(new) = mem.cursor + 1 .. mem.cursor + k
      /\ Len(new) = k
  <2> HIDE DEF k
  <2> QED BY <1>1, <1>7, CountingUp
<1>9. new \in Seq(Entries)
  <2>1. mem.cursor + 1 .. mem.cursor + k \subseteq Entries
    <3> HIDE DEF k
    <3> QED BY <1>1, <1>7 DEF Entries
  <2> HIDE DEF new, k
  <2> QED
    BY <1>8, <2>1, Retyping
<1>10. MemClaims = Again \o new
  BY DEF MemClaims
<1> HIDE DEF new
<1>11. MemClaims \in Seq(Entries) /\ ToSet(MemClaims) = ToSet(Again) \cup ToSet(new)
  BY <1>5, <1>9, <1>10, Joining, ConcatProperties
<1> QED
  BY <1>2, <1>5, <1>6, <1>7, <1>8, <1>9, <1>11 DEF new

\* InMemoryBus.subscribe is a claim.
LEMMA MemSubscribing ==
  ASSUME Shape, Places
  PROVE  MemStep(MemSubscribed, MemAnswer) /\ EntriesOf(MemAnswer) = MemClaims
<1> DEFINE a == Again
           k == MemNew
           new == [i \in 1 .. k |-> mem.cursor + i]
           rest == SubSeq(mem.retry, Len(Again) + 1, Len(mem.retry))
           p == mem.pending
           m == MemSubscribed
           counts == [e \in Entries |->
               IF e \in ToSet(MemClaims) THEN MemCount(e) ELSE mem.count[e]]
<1>1. /\ a \in Seq(Entries) /\ rest \in Seq(Entries) /\ a \o rest = mem.retry
      /\ k \in Nat /\ mem.cursor + k \in mem.cursor .. tail
      /\ new \in Seq(Entries) /\ Ascending(new)
      /\ ToSet(new) = mem.cursor + 1 .. mem.cursor + k
      /\ MemClaims \in Seq(Entries) /\ MemClaims = a \o new
      /\ ToSet(MemClaims) = ToSet(a) \cup (mem.cursor + 1 .. mem.cursor + k)
  BY MemClaiming DEF MemClaims
<1>2. /\ m.cursor = mem.cursor + k /\ m.pending = p \o MemClaims /\ m.retry = rest
      /\ m.count = counts
      /\ m = [cursor |-> mem.cursor + k, pending |-> p \o MemClaims,
              retry |-> rest, count |-> counts]
  BY DEF MemSubscribed
<1>3. /\ p \in Seq(Entries) /\ mem.cursor \in 0 .. tail /\ tail \in 0 .. N /\ N \in Nat
      /\ mem.count \in [Entries -> Nat]
  BY Parts
<1>4. \A e \in Entries : MemCount(e) = mem.count[e] + 1
  BY DEF MemCount
<1>5. counts \in [Entries -> Nat]
  BY <1>3, <1>4
<1>6. /\ MemAnswer \in [DOMAIN MemClaims -> Deliveries]
      /\ \A i \in DOMAIN MemClaims :
           /\ MemAnswer[i].entry = MemClaims[i]
           /\ MemAnswer[i].count = mem.count[MemAnswer[i].entry] + 1
  <2>1. \A i \in DOMAIN MemClaims : MemClaims[i] \in Entries
    BY <1>1, LenProperties, ElementOfSeq
  <2>2. \A i \in DOMAIN MemClaims : mem.count[MemClaims[i]] + 1 \in Nat
    BY <2>1, <1>3
  <2> QED
    BY <2>1, <2>2, <1>4 DEF MemAnswer, Deliveries
<1>7. MemAnswer \in Seq(Deliveries) /\ DOMAIN MemAnswer = DOMAIN MemClaims
      /\ EntriesOf(MemAnswer) = MemClaims
  <2>1. \A i \in DOMAIN MemClaims : MemAnswer[i].entry = MemClaims[i]
    BY <1>6
  <2> QED BY <1>1, <1>6, <2>1, Answering
<1> HIDE DEF a, k, new, rest, p, m, counts
<1>8. m \in MemStates
  <2>1. mem.cursor + k \in 0 .. N /\ p \o MemClaims \in Seq(Entries)
    BY <1>1, <1>3, ConcatProperties
  <2> QED
    BY <2>1, <1>1, <1>2, <1>5 DEF MemStates
<1>9. /\ IsInjective(p) /\ IsInjective(a) /\ IsInjective(rest)
      /\ ToSet(p) \cap ToSet(a) = {} /\ ToSet(p) \cap ToSet(rest) = {}
      /\ ToSet(a) \cap ToSet(rest) = {}
      /\ ToSet(p \o mem.retry) = ToSet(p) \cup ToSet(a) \cup ToSet(rest)
  <2>1. IsInjective(p \o mem.retry) /\ mem.retry \in Seq(Entries)
    BY Parts DEF Places, p
  <2>2. /\ IsInjective(p) /\ IsInjective(mem.retry) /\ ToSet(p) \cap ToSet(mem.retry) = {}
        /\ ToSet(p \o mem.retry) = ToSet(p) \cup ToSet(mem.retry)
    BY <2>1, <1>3, Joining
  <2>3. /\ IsInjective(a) /\ IsInjective(rest) /\ ToSet(a) \cap ToSet(rest) = {}
        /\ ToSet(mem.retry) = ToSet(a) \cup ToSet(rest)
    <3>1. IsInjective(a \o rest)
      BY <2>2, <1>1
    <3>2. /\ ToSet(a \o rest) = ToSet(a) \cup ToSet(rest)
          /\ IsInjective(a) /\ IsInjective(rest) /\ ToSet(a) \cap ToSet(rest) = {}
      BY <3>1, <1>1, Joining
    <3> QED
      BY <3>2, <1>1
  <2> QED
    BY <2>2, <2>3
<1>10. ToSet(p) \cup ToSet(a) \cup ToSet(rest) \subseteq 1 .. mem.cursor
  <2>1. ToSet(p \o mem.retry) \subseteq 1 .. mem.cursor
    BY DEF Places, p
  <2> QED
    BY <2>1, <1>9
<1>11. IsInjective(new) /\ (ToSet(p) \cup ToSet(a) \cup ToSet(rest)) \cap ToSet(new) = {}
  <2>1. new \in Seq(Int)
    <3>1. Entries \subseteq Int
      BY DEF Entries
    <3> QED
      BY <1>1, <3>1, SeqMonotonic
  <2>2. \A e \in 1 .. mem.cursor : e \notin mem.cursor + 1 .. mem.cursor + k
    BY <1>1, <1>3
  <2> QED
    BY <2>1, <2>2, <1>1, <1>10, AscendingIsInjective
<1>12. /\ ToSet(m.pending \o m.retry) = ToSet(p) \cup ToSet(a) \cup ToSet(rest) \cup ToSet(new)
       /\ IsInjective(m.pending \o m.retry)
  <2>1. MemClaims = a \o new /\ IsInjective(MemClaims)
        /\ ToSet(MemClaims) = ToSet(a) \cup ToSet(new)
    <3>1. ToSet(a) \cap ToSet(new) = {}
      BY <1>11
    <3>2. IsInjective(a \o new) /\ ToSet(a \o new) = ToSet(a) \cup ToSet(new)
      BY <3>1, <1>1, <1>9, <1>11, Joining
    <3> QED
      BY <3>2, <1>1
  <2>2. /\ p \o MemClaims \in Seq(Entries) /\ IsInjective(p \o MemClaims)
        /\ ToSet(p \o MemClaims) = ToSet(p) \cup ToSet(MemClaims)
    <3>1. ToSet(p) \cap ToSet(MemClaims) = {}
      BY <2>1, <1>9, <1>11
    <3>2. MemClaims \in Seq(Entries) /\ IsInjective(p) /\ IsInjective(MemClaims)
      BY <2>1, <1>1, <1>9
    <3>3. p \o MemClaims \in Seq(Entries)
      BY <3>2, <1>3, ConcatProperties
    <3> QED
      BY <3>1, <3>2, <3>3, <1>3, Joining
  <2>3. ToSet(p \o MemClaims) \cap ToSet(rest) = {}
    BY <2>1, <2>2, <1>9, <1>11
  <2>4. /\ IsInjective((p \o MemClaims) \o rest)
        /\ ToSet((p \o MemClaims) \o rest) = ToSet(p \o MemClaims) \cup ToSet(rest)
    BY <2>2, <2>3, <1>1, <1>9, Joining
  <2> QED
    BY <2>1, <2>2, <2>4, <1>2
<1>13. ToSet(m.pending \o m.retry)
         = ToSet(mem.pending \o mem.retry) \cup (mem.cursor + 1 .. m.cursor)
  BY <1>1, <1>2, <1>9, <1>12 DEF p
<1>14. ToSet(MemClaims) \subseteq 1 .. m.cursor
  <2>1. \A e \in 1 .. mem.cursor : e \in 1 .. mem.cursor + k
    BY <1>1, <1>3
  <2>2. \A e \in mem.cursor + 1 .. mem.cursor + k : e \in 1 .. mem.cursor + k
    BY <1>1, <1>3
  <2> QED
    BY <2>1, <2>2, <1>1, <1>2, <1>10
<1>15. \A e \in Entries :
         m.count[e] = IF e \in ToSet(MemClaims) THEN mem.count[e] + 1 ELSE mem.count[e]
  BY <1>2, <1>4 DEF counts
<1> QED
  BY <1>1, <1>2, <1>6, <1>7, <1>8, <1>12, <1>13, <1>14, <1>15 DEF MemStep, m

\* InMemoryBus.reclaim is a claim that passes over nothing.
LEMMA MemReclaiming ==
  ASSUME Shape, Places
  PROVE  MemStep(MemReclaimed, MemReclaimAnswer)
<1> DEFINE x == MemReclaims
           y == Among(mem.pending, Entries \ idle.memory)
           m == MemReclaimed
           p == mem.pending
           counts == [e \in Entries |-> IF e \in ToSet(x) THEN MemCount(e) ELSE mem.count[e]]
<1>1. /\ p \in Seq(Entries) /\ mem.retry \in Seq(Entries) /\ mem.cursor \in 0 .. tail
      /\ tail \in 0 .. N
      /\ N \in Nat /\ mem.count \in [Entries -> Nat] /\ mem \in MemStates
  BY Parts DEF Shape
<1>2. m = [mem EXCEPT !.pending = y \o x, !.count = counts]
  BY DEF MemReclaimed
<1>3. \A e \in Entries : MemCount(e) = mem.count[e] + 1
  BY DEF MemCount
<1>4. /\ m.cursor = mem.cursor /\ m.retry = mem.retry /\ m.pending = y \o x /\ m.count = counts
      /\ m = [cursor |-> mem.cursor, pending |-> y \o x, retry |-> mem.retry, count |-> counts]
  BY <1>1, <1>2 DEF MemStates
<1>5. counts \in [Entries -> Nat]
  BY <1>1, <1>3
<1>6. /\ x \in Seq(Entries) /\ ToSet(x) = ToSet(p) \cap idle.memory
      /\ (IsInjective(p) => IsInjective(x))
      /\ y \in Seq(Entries) /\ ToSet(y) = ToSet(p) \cap (Entries \ idle.memory)
      /\ (IsInjective(p) => IsInjective(y))
  BY <1>1, AmongKeeps DEF MemReclaims
<1>7. /\ MemReclaimAnswer \in [DOMAIN x -> Deliveries]
      /\ \A i \in DOMAIN x : /\ MemReclaimAnswer[i].entry = x[i]
                             /\ MemReclaimAnswer[i].count = mem.count[MemReclaimAnswer[i].entry] + 1
  <2>1. \A i \in DOMAIN x : x[i] \in Entries
    <3> HIDE DEF x
    <3> QED BY <1>6, LenProperties, ElementOfSeq
  <2>2. MemReclaimAnswer = [i \in DOMAIN x |-> [entry |-> x[i], count |-> MemCount(x[i])]]
    BY DEF MemReclaimAnswer
  <2> HIDE DEF x
  <2>3. \A i \in DOMAIN x : mem.count[x[i]] + 1 \in Nat
    BY <2>1, <1>1
  <2> QED
    BY <2>1, <2>2, <2>3, <1>3 DEF Deliveries
<1> HIDE DEF x, y, m, counts, p
<1>8. /\ MemReclaimAnswer \in Seq(Deliveries) /\ DOMAIN MemReclaimAnswer = DOMAIN x
      /\ EntriesOf(MemReclaimAnswer) = x
  <2>1. \A i \in DOMAIN x : MemReclaimAnswer[i].entry = x[i]
    BY <1>7
  <2> QED BY <1>6, <1>7, <2>1, Answering
<1>9. ToSet(p) \subseteq Entries
  BY <1>1, HoldsOf
<1>10. /\ y \o x \in Seq(Entries) /\ ToSet(y \o x) = ToSet(p)
       /\ (IsInjective(p) => IsInjective(y \o x))
  <2>1. ToSet(y) \cup ToSet(x) = ToSet(p) /\ ToSet(y) \cap ToSet(x) = {}
    BY <1>6, <1>9
  <2> QED
    BY <2>1, <1>6, Joining, ConcatProperties
<1>11. /\ ToSet(m.pending \o m.retry) = ToSet(mem.pending \o mem.retry)
       /\ IsInjective(m.pending \o m.retry)
  <2>1. IsInjective(p \o mem.retry)
    BY DEF Places, p
  <2>2. /\ IsInjective(p) /\ IsInjective(mem.retry) /\ ToSet(p) \cap ToSet(mem.retry) = {}
        /\ ToSet(p \o mem.retry) = ToSet(p) \cup ToSet(mem.retry)
    BY <2>1, <1>1, Joining
  <2>3. /\ IsInjective((y \o x) \o mem.retry)
        /\ ToSet((y \o x) \o mem.retry) = ToSet(y \o x) \cup ToSet(mem.retry)
    BY <2>2, <1>1, <1>10, Joining
  <2> QED
    BY <2>2, <2>3, <1>4, <1>10 DEF p
<1>12. m \in MemStates
  <2>1. mem.cursor \in 0 .. N
    BY <1>1
  <2> QED
    BY <2>1, <1>1, <1>4, <1>5, <1>10 DEF MemStates
<1>13. mem.cursor + 1 .. m.cursor = {} /\ m.cursor \in mem.cursor .. tail
  BY <1>1, <1>4
<1>14. ToSet(x) \subseteq 1 .. m.cursor
  <2>1. ToSet(p \o mem.retry) \subseteq 1 .. mem.cursor
    BY DEF Places, p
  <2>2. ToSet(p) \subseteq ToSet(p \o mem.retry)
    BY <1>1, Joining
  <2> QED
    BY <2>1, <2>2, <1>4, <1>6
<1>15. \A e \in Entries : m.count[e] = IF e \in ToSet(x) THEN mem.count[e] + 1 ELSE mem.count[e]
  BY <1>3, <1>4 DEF counts
<1> QED
  BY <1>7, <1>8, <1>11, <1>12, <1>13, <1>14, <1>15 DEF MemStep, m

\* The entries are a finite set of numbers, and so is any part of them.
LEMMA SomeEntries ==
  ASSUME NEW S \in SUBSET Entries
  PROVE  IsFiniteSet(S) /\ S \in SUBSET Int /\ Cardinality(S) \in Nat
<1>1. IsFiniteSet(Entries) /\ Entries \subseteq Int
  BY BusConstants, FS_Interval DEF Entries
<1> QED
  BY <1>1, FS_Subset, FS_CardinalityType

\* What a claim of a consumer's own pending entries takes: some of them, in order, no
\* more than were asked for.
LEMMA OwnIs ==
  ASSUME Shape, Places, NEW c \in deployed
  PROVE  /\ Own(c) \in SUBSET RedPending /\ Own(c) \in SUBSET Entries
         /\ \A e \in Own(c) : red.owner[e] = c
         /\ Cardinality(Kept(Own(c))) \in 0 .. Count
<1> DEFINE S == {e \in RedPending : red.owner[e] = c}
<1>1. S \in SUBSET Entries /\ S \in SUBSET RedPending
  BY DEF RedPending, PendingIn
<1>2. Own(c) = FirstOf(S, Count) /\ Count \in Nat
  BY Parts DEF Own
<1>3. \A e \in S : red.owner[e] = c
  OBVIOUS
<1> HIDE DEF S
<1>4. Own(c) \in SUBSET S /\ IsFiniteSet(Own(c)) /\ Cardinality(Own(c)) \in 0 .. Count
  BY <1>1, <1>2, SomeEntries, FirstOfTakes
<1>5. Kept(Own(c)) \in SUBSET Own(c)
  BY DEF Kept
<1>6. Cardinality(Kept(Own(c))) <= Cardinality(Own(c)) /\ IsFiniteSet(Kept(Own(c)))
  BY <1>4, <1>5, FS_Subset
<1>7. Cardinality(Kept(Own(c))) \in Nat
  BY <1>6, FS_CardinalityType
<1> QED
  BY <1>1, <1>2, <1>3, <1>4, <1>6, <1>7

\* XCLAIM: what was claimed and not trimmed is pending, what was trimmed is not.
LEMMA Claiming ==
  ASSUME Shape, Places, NEW c \in deployed, NEW S \in SUBSET Entries
  PROVE  /\ Claimed(c, S) \in RedStates /\ Claimed(c, S).cursor = red.cursor
         /\ PendingIn(Claimed(c, S)) = (RedPending \ S) \cup Kept(S)
         /\ \A e \in Entries : Claimed(c, S).count[e]
              = IF e \in Kept(S) THEN red.count[e] + 1 ELSE red.count[e]
<1> DEFINE owner == [e \in Entries |-> IF e \notin S THEN red.owner[e]
                                       ELSE IF kept <= e THEN c ELSE NoOne]
           counts == [e \in Entries |-> IF e \in Kept(S) THEN red.count[e] + 1 ELSE red.count[e]]
           r == Claimed(c, S)
<1>1. /\ red \in RedStates /\ red.owner \in [Entries -> deployed \cup {NoOne}]
      /\ red.count \in [Entries -> Nat] /\ NoOne \notin deployed
  BY Parts DEF Shape
<1>2. r = [red EXCEPT !.owner = owner, !.count = counts]
  BY DEF Claimed
<1>3. owner \in [Entries -> deployed \cup {NoOne}] /\ counts \in [Entries -> Nat]
  BY <1>1
<1>4. \A e \in Entries : owner[e] # NoOne <=> (e \in RedPending \ S) \/ e \in Kept(S)
  BY <1>1 DEF RedPending, PendingIn, Kept
<1>5. \A e \in Entries : counts[e] = IF e \in Kept(S) THEN red.count[e] + 1 ELSE red.count[e]
  OBVIOUS
<1> HIDE DEF owner, counts, r
<1>6. /\ r \in RedStates /\ r.cursor = red.cursor /\ r.owner = owner /\ r.count = counts
  BY <1>1, <1>2, <1>3 DEF RedStates
<1>7. PendingIn(r) = (RedPending \ S) \cup Kept(S)
  <2>1. RedPending \subseteq Entries /\ Kept(S) \subseteq Entries
    BY DEF RedPending, PendingIn, Kept
  <2> QED
    BY <2>1, <1>4, <1>6 DEF PendingIn
<1> QED
  BY <1>5, <1>6, <1>7 DEF r

\* The counts RedisBus answers with are those of the pending list, or 1.
LEMMA Reporting ==
  ASSUME NEW ids, NEW P, NEW counts \in [Entries -> Nat], NEW e \in Entries
  PROVE  Reported(ids, P, counts, e) \in {counts[e], 1}
BY DEF Reported

\* What a claim of pending entries answers.
LEMMA AnswerIs ==
  ASSUME Shape, Places, NEW S \in SUBSET Entries, NEW asked,
         NEW r, r.count \in [Entries -> Nat],
         \A e \in Kept(S) : r.count[e] = red.count[e] + 1
  PROVE  /\ Answer(r, S, asked) \in Seq(Deliveries)
         /\ EntriesOf(Answer(r, S, asked)) = InOrder(Kept(S))
         /\ DOMAIN Answer(r, S, asked) = DOMAIN InOrder(Kept(S))
         /\ ToSet(EntriesOf(Answer(r, S, asked))) = Kept(S)
         /\ \A i \in DOMAIN Answer(r, S, asked) :
              /\ Answer(r, S, asked)[i].entry \in Kept(S)
              /\ Answer(r, S, asked)[i].count
                   = Reported(asked, PendingIn(r), r.count, Answer(r, S, asked)[i].entry)
              /\ Answer(r, S, asked)[i].count <= red.count[Answer(r, S, asked)[i].entry] + 1
<1> DEFINE s == InOrder(Kept(S))
           A == Answer(r, S, asked)
           R(e) == Reported(asked, PendingIn(r), r.count, e)
<1>1. Kept(S) \in SUBSET Entries /\ IsFiniteSet(Kept(S)) /\ Kept(S) \in SUBSET Int
  <2>1. Kept(S) \in SUBSET Entries
    BY DEF Kept
  <2> QED
    BY <2>1, SomeEntries
<1>2. s \in Seq(Kept(S)) /\ ToSet(s) = Kept(S)
  BY <1>1, InOrderLists
<1> HIDE DEF s
<1>3. s \in Seq(Entries) /\ \A i \in DOMAIN s : s[i] \in Kept(S) /\ s[i] \in Entries
  BY <1>1, <1>2, SeqMonotonic, LenProperties, ElementOfSeq
<1>4. A = [i \in DOMAIN s |-> [entry |-> s[i], count |-> R(s[i])]]
  BY DEF Answer, s
<1>5. \A e \in Kept(S) : R(e) \in Nat /\ R(e) <= red.count[e] + 1
  <2>1. ASSUME NEW e \in Kept(S) PROVE R(e) \in Nat /\ R(e) <= red.count[e] + 1
    <3>1. R(e) \in {r.count[e], 1} /\ r.count[e] = red.count[e] + 1 /\ r.count[e] \in Nat
      BY <1>1, Reporting
    <3>2. red.count[e] \in Nat
      BY <1>1, Parts
    <3> HIDE DEF R
    <3> QED
      BY <3>1, <3>2
  <2> HIDE DEF R
  <2> QED
    BY <2>1
<1> HIDE DEF R, A
<1>6. A \in [DOMAIN s -> Deliveries]
      /\ \A i \in DOMAIN s : A[i].entry = s[i] /\ A[i].count = R(s[i])
  BY <1>3, <1>4, <1>5 DEF Deliveries
<1>7. A \in Seq(Deliveries) /\ DOMAIN A = DOMAIN s /\ EntriesOf(A) = s
  <2>1. \A i \in DOMAIN s : A[i].entry = s[i]
    BY <1>6
  <2> QED BY <1>3, <1>6, <2>1, Answering
<1>8. \A i \in DOMAIN A : /\ A[i].entry \in Kept(S) /\ A[i].count = R(A[i].entry)
                          /\ A[i].count <= red.count[A[i].entry] + 1
  BY <1>3, <1>5, <1>6, <1>7
<1> QED
  BY <1>2, <1>7, <1>8 DEF s, A, R

\* The entries of two answers, one after the other.
LEMMA AnswersJoined ==
  ASSUME NEW A \in Seq(Deliveries), NEW B \in Seq(Deliveries)
  PROVE  /\ A \o B \in Seq(Deliveries)
         /\ EntriesOf(A) \in Seq(Entries) /\ EntriesOf(B) \in Seq(Entries)
         /\ EntriesOf(A \o B) = EntriesOf(A) \o EntriesOf(B)
         /\ \A i \in DOMAIN (A \o B) : \/ \E j \in DOMAIN A : (A \o B)[i] = A[j]
                                       \/ \E j \in DOMAIN B : (A \o B)[i] = B[j]
<1>1. ASSUME NEW D \in Seq(Deliveries)
      PROVE  /\ Len(D) \in Nat /\ DOMAIN D = 1 .. Len(D)
             /\ EntriesOf(D) \in Seq(Entries) /\ Len(EntriesOf(D)) = Len(D)
             /\ \A i \in 1 .. Len(D) : EntriesOf(D)[i] = D[i].entry
  <2>1. Len(D) \in Nat /\ DOMAIN D = 1 .. Len(D) /\ \A i \in 1 .. Len(D) : D[i] \in Deliveries
    BY LenProperties, ElementOfSeq
  <2>2. EntriesOf(D) \in [1 .. Len(D) -> Entries]
    BY <2>1 DEF EntriesOf, Deliveries
  <2>3. EntriesOf(D) \in Seq(Entries) /\ Len(EntriesOf(D)) = Len(D)
    BY <2>1, <2>2, SeqDef, LenProperties
  <2> QED
    BY <2>1, <2>3 DEF EntriesOf
<1>2. /\ A \o B \in Seq(Deliveries) /\ Len(A \o B) = Len(A) + Len(B)
      /\ \A i \in 1 .. Len(A) + Len(B) : (A \o B)[i] = IF i <= Len(A) THEN A[i] ELSE B[i - Len(A)]
  BY ConcatProperties
<1> DEFINE s == EntriesOf(A)
           t == EntriesOf(B)
           u == EntriesOf(A \o B)
<1>3. /\ s \in Seq(Entries) /\ t \in Seq(Entries) /\ u \in Seq(Entries)
      /\ Len(s) = Len(A) /\ Len(t) = Len(B) /\ Len(u) = Len(A) + Len(B)
      /\ Len(A) \in Nat /\ Len(B) \in Nat
      /\ \A i \in 1 .. Len(A) : s[i] = A[i].entry
      /\ \A i \in 1 .. Len(B) : t[i] = B[i].entry
      /\ \A i \in 1 .. Len(A) + Len(B) : u[i] = (A \o B)[i].entry
      /\ DOMAIN (A \o B) = 1 .. Len(A) + Len(B) /\ DOMAIN A = 1 .. Len(A) /\ DOMAIN B = 1 .. Len(B)
  <2>1. /\ Len(A) \in Nat /\ DOMAIN A = 1 .. Len(A) /\ s \in Seq(Entries) /\ Len(s) = Len(A)
        /\ \A i \in 1 .. Len(A) : s[i] = A[i].entry
    BY <1>1
  <2>2. /\ Len(B) \in Nat /\ DOMAIN B = 1 .. Len(B) /\ t \in Seq(Entries) /\ Len(t) = Len(B)
        /\ \A i \in 1 .. Len(B) : t[i] = B[i].entry
    BY <1>1
  <2>3. /\ DOMAIN (A \o B) = 1 .. Len(A \o B) /\ u \in Seq(Entries) /\ Len(u) = Len(A \o B)
        /\ \A i \in 1 .. Len(A \o B) : u[i] = (A \o B)[i].entry
    BY <1>1, <1>2
  <2> HIDE DEF s, t, u
  <2> QED
    BY <2>1, <2>2, <2>3, <1>2
<1> HIDE DEF s, t, u
<1>4. \A i \in 1 .. Len(A) + Len(B) :
        \/ i <= Len(A) /\ i \in 1 .. Len(A)
        \/ ~(i <= Len(A)) /\ i - Len(A) \in 1 .. Len(B)
  BY <1>3
<1>5. s \o t \in Seq(Entries) /\ Len(s \o t) = Len(A) + Len(B)
      /\ \A i \in 1 .. Len(A) + Len(B) : (s \o t)[i] = IF i <= Len(A) THEN s[i] ELSE t[i - Len(A)]
  <2>1. /\ s \o t \in Seq(Entries) /\ Len(s \o t) = Len(s) + Len(t)
        /\ \A i \in 1 .. Len(s) + Len(t) : (s \o t)[i] = IF i <= Len(s) THEN s[i] ELSE t[i - Len(s)]
    <3>1. s \in Seq(Entries) /\ t \in Seq(Entries)
      BY <1>3
    <3> QED
      BY ONLY <3>1, ConcatProperties
  <2>2. Len(s) = Len(A) /\ Len(t) = Len(B)
    BY <1>3
  <2> QED
    BY <2>1, <2>2
<1>6. \A i \in 1 .. Len(A) + Len(B) : u[i] = (s \o t)[i]
  <2>1. ASSUME NEW i \in 1 .. Len(A) + Len(B) PROVE u[i] = (s \o t)[i]
    <3>1. CASE i <= Len(A) /\ i \in 1 .. Len(A)
      BY <3>1, <1>2, <1>3, <1>5
    <3>2. CASE ~(i <= Len(A)) /\ i - Len(A) \in 1 .. Len(B)
      BY <3>2, <1>2, <1>3, <1>5
    <3> QED
      BY <3>1, <3>2, <1>4
  <2> QED
    BY <2>1
<1>7. u = s \o t
  BY <1>3, <1>5, <1>6, SeqEqual
<1>8. \A i \in DOMAIN (A \o B) : \/ \E j \in DOMAIN A : (A \o B)[i] = A[j]
                                 \/ \E j \in DOMAIN B : (A \o B)[i] = B[j]
  BY <1>2, <1>3, <1>4
<1> QED
  BY <1>2, <1>3, <1>7, <1>8 DEF s, t, u

\* How many new entries RedisBus.subscribe reads.
NewRead(c) ==
  IF Count - Cardinality(Kept(Own(c))) <= tail - Through(red.cursor)
  THEN Count - Cardinality(Kept(Own(c))) ELSE tail - Through(red.cursor)

\* XREADGROUP reads on from where the group is through, over what is still there.
LEMMA RedReading ==
  ASSUME Shape, Places, NEW c \in deployed
  PROVE  /\ Through(red.cursor) \in 0 .. tail /\ red.cursor <= Through(red.cursor)
         /\ kept <= Through(red.cursor) + 1
         /\ Through(red.cursor) = IF red.cursor <= kept - 1 THEN kept - 1 ELSE red.cursor
         /\ NewRead(c) \in Nat /\ Through(red.cursor) + NewRead(c) <= tail
         /\ RedNew(c) = Through(red.cursor) + 1 .. Through(red.cursor) + NewRead(c)
         /\ RedNew(c) \in SUBSET Entries
         /\ Max({red.cursor} \cup RedNew(c))
              = IF NewRead(c) = 0 THEN red.cursor ELSE Through(red.cursor) + NewRead(c)
         /\ Through(Max({red.cursor} \cup RedNew(c))) = Through(red.cursor) + NewRead(c)
<1> DEFINE lo == Through(red.cursor)
           q == Cardinality(Kept(Own(c)))
           k == NewRead(c)
           new == RedNew(c)
           cur == Max({red.cursor} \cup RedNew(c))
<1>1. /\ tail \in 0 .. N /\ kept \in 1 .. N /\ N \in Nat /\ red.cursor \in 0 .. tail
      /\ Count \in Nat /\ kept <= tail + 1
  BY Parts
<1>2. q \in 0 .. Count
  BY OwnIs
<1>3. lo = IF red.cursor <= kept - 1 THEN kept - 1 ELSE red.cursor
  BY <1>1, LargerOfTwo DEF Through
<1>4. k = IF Count - q <= tail - lo THEN Count - q ELSE tail - lo
  BY DEF NewRead
<1>5. new = FirstOf({e \in kept .. tail : red.cursor < e}, Count - q)
  BY DEF RedNew
<1>6. cur = Max({red.cursor} \cup new)
  OBVIOUS
<1> HIDE DEF lo, q, k, new, cur
<1>7. lo \in 0 .. tail /\ red.cursor <= lo /\ kept <= lo + 1
  BY <1>1, <1>3
<1>8. {e \in kept .. tail : red.cursor < e} = lo + 1 .. tail
  <2>1. \A e \in Int : e \in kept .. tail /\ red.cursor < e <=> e \in lo + 1 .. tail
    BY <1>1, <1>3
  <2>2. (\A e \in kept .. tail : e \in Int) /\ (\A e \in lo + 1 .. tail : e \in Int)
    BY <1>1, <1>7
  <2> QED
    BY <2>1, <2>2, Zenon
<1>9. k \in Nat /\ lo + k <= tail
  BY <1>1, <1>2, <1>4, <1>7
<1>10. new = lo + 1 .. lo + k
  <2>1. lo + 1 \in Int /\ tail \in Int /\ Count - q \in Nat /\ lo + 1 <= tail + 1
    BY <1>1, <1>2, <1>7
  <2> DEFINE x == (IF Count - q <= tail + 1 - (lo + 1) THEN Count - q ELSE tail + 1 - (lo + 1))
             y == lo + 1
  <2>2. new = y .. (y + x - 1)
    <3>1. y \in Int /\ y <= tail + 1
          /\ x = IF Count - q <= tail + 1 - y THEN Count - q ELSE tail + 1 - y
      BY <2>1
    <3> HIDE DEF y, x
    <3>2. FirstOf(y .. tail, Count - q)
            = y .. (y + (IF Count - q <= tail + 1 - y THEN Count - q ELSE tail + 1 - y) - 1)
      BY <2>1, <3>1, FirstOfInterval
    <3> QED
      BY <3>1, <3>2, <1>5, <1>8 DEF y
  <2>3. x = k
    BY <1>1, <1>2, <1>4, <1>7
  <2> HIDE DEF x
  <2>4. y + x - 1 = lo + k
    BY <2>3, <1>1, <1>7, <1>9
  <2> QED
    BY <2>2, <2>4
<1>11. new \in SUBSET Entries
  <2>1. \A e \in lo + 1 .. lo + k : e \in 1 .. N
    BY <1>1, <1>7, <1>9
  <2> QED
    BY <2>1, <1>10 DEF Entries
<1>12. cur = IF k = 0 THEN red.cursor ELSE lo + k
  <2>1. CASE k = 0
    <3>1. new = {}
      BY <2>1, <1>1, <1>7, <1>10
    <3>2. {red.cursor} \cup new = {red.cursor, red.cursor}
      BY <3>1
    <3>3. Max({red.cursor, red.cursor}) = red.cursor
      BY <1>1, LargerOfTwo
    <3> QED
      BY <2>1, <3>2, <3>3, <1>6
  <2>2. CASE k # 0
    <3>1. red.cursor \in Int /\ lo + 1 \in Int /\ lo + k \in Int /\ red.cursor < lo + 1
          /\ lo + 1 <= lo + k
      BY <2>2, <1>1, <1>7, <1>9
    <3>2. Max({red.cursor} \cup (lo + 1 .. lo + k)) = lo + k
      BY <3>1, LargestOf
    <3> QED
      BY <2>2, <3>2, <1>6, <1>10
  <2> QED
    BY <2>1, <2>2
<1>13. Through(cur) = lo + k
  <2>1. cur \in Int /\ kept - 1 \in Int
    BY <1>1, <1>7, <1>9, <1>12
  <2>2. Through(cur) = IF cur <= kept - 1 THEN kept - 1 ELSE cur
    BY <2>1, LargerOfTwo DEF Through
  <2> QED
    BY <2>2, <1>1, <1>3, <1>7, <1>9, <1>12
<1> QED
  BY <1>3, <1>7, <1>9, <1>10, <1>11, <1>12, <1>13 DEF lo, k, new, cur

\* What the two parts of RedisBus.subscribe answer: the consumer's own pending
\* entries, then the new ones with a count of 1.
NewAnswer(c) ==
  [i \in 1 .. Cardinality(RedNew(c)) |-> [entry |-> InOrder(RedNew(c))[i], count |-> 1]]
OwnAnswer(c) == Answer(Claimed(c, Own(c)), Own(c), Own(c))

\* redis.py, subscribe: what _drain_own_pending claimed comes before what _read_new
\* read, each entry once.
LEMMA RedAnswering ==
  ASSUME Shape, Places, NEW c \in deployed
  PROVE  /\ OwnAnswer(c) \in Seq(Deliveries) /\ NewAnswer(c) \in Seq(Deliveries)
         /\ RedAnswer(c) = OwnAnswer(c) \o NewAnswer(c)
         /\ EntriesOf(OwnAnswer(c)) = InOrder(Kept(Own(c)))
         /\ EntriesOf(NewAnswer(c)) = InOrder(RedNew(c))
         /\ ToSet(EntriesOf(OwnAnswer(c))) = Kept(Own(c))
         /\ ToSet(EntriesOf(NewAnswer(c))) = RedNew(c)
         /\ \A i \in DOMAIN OwnAnswer(c) :
              /\ OwnAnswer(c)[i].entry \in Kept(Own(c))
              /\ OwnAnswer(c)[i].count = Reported(Own(c), PendingIn(Claimed(c, Own(c))),
                                                  Claimed(c, Own(c)).count, OwnAnswer(c)[i].entry)
              /\ OwnAnswer(c)[i].count <= red.count[OwnAnswer(c)[i].entry] + 1
         /\ \A i \in DOMAIN NewAnswer(c) :
              NewAnswer(c)[i].entry \in RedNew(c) /\ NewAnswer(c)[i].count = 1
<1> DEFINE s == InOrder(RedNew(c))
           B == NewAnswer(c)
<1>1. Own(c) \in SUBSET Entries /\ Claimed(c, Own(c)).count \in [Entries -> Nat]
      /\ \A e \in Kept(Own(c)) : Claimed(c, Own(c)).count[e] = red.count[e] + 1
  <2>1. Own(c) \in SUBSET Entries
    BY OwnIs
  <2>2. Claimed(c, Own(c)) \in RedStates
    BY <2>1, Claiming
  <2>3. Kept(Own(c)) \subseteq Entries
    BY <2>1 DEF Kept
  <2>4. \A e \in Kept(Own(c)) : Claimed(c, Own(c)).count[e] = red.count[e] + 1
    BY <2>1, <2>3, Claiming
  <2> QED
    BY <2>1, <2>2, <2>4 DEF RedStates
<1>2. /\ OwnAnswer(c) \in Seq(Deliveries)
      /\ EntriesOf(OwnAnswer(c)) = InOrder(Kept(Own(c)))
      /\ ToSet(EntriesOf(OwnAnswer(c))) = Kept(Own(c))
      /\ \A i \in DOMAIN OwnAnswer(c) :
           /\ OwnAnswer(c)[i].entry \in Kept(Own(c))
           /\ OwnAnswer(c)[i].count = Reported(Own(c), PendingIn(Claimed(c, Own(c))),
                                               Claimed(c, Own(c)).count, OwnAnswer(c)[i].entry)
           /\ OwnAnswer(c)[i].count <= red.count[OwnAnswer(c)[i].entry] + 1
  BY <1>1, AnswerIs DEF OwnAnswer
<1>3. RedNew(c) \in SUBSET Entries /\ IsFiniteSet(RedNew(c)) /\ RedNew(c) \in SUBSET Int
      /\ Cardinality(RedNew(c)) \in Nat
  BY RedReading, SomeEntries
<1>4. s \in Seq(RedNew(c)) /\ ToSet(s) = RedNew(c) /\ Len(s) = Cardinality(RedNew(c))
  BY <1>3, InOrderLists
<1>5. B = [i \in 1 .. Cardinality(RedNew(c)) |-> [entry |-> s[i], count |-> 1]]
  BY DEF NewAnswer
<1> HIDE DEF s, B
<1>6. /\ s \in Seq(Entries) /\ DOMAIN s = 1 .. Cardinality(RedNew(c))
      /\ \A i \in DOMAIN s : s[i] \in RedNew(c) /\ s[i] \in Entries
  BY <1>3, <1>4, SeqMonotonic, LenProperties, ElementOfSeq
<1>7. B \in [DOMAIN s -> Deliveries] /\ \A i \in DOMAIN s : B[i].entry = s[i] /\ B[i].count = 1
  BY <1>5, <1>6 DEF Deliveries
<1>8. B \in Seq(Deliveries) /\ DOMAIN B = DOMAIN s /\ EntriesOf(B) = s
  <2>1. \A i \in DOMAIN s : B[i].entry = s[i]
    BY <1>7
  <2> QED BY <1>6, <1>7, <2>1, Answering
<1>9. RedAnswer(c) = OwnAnswer(c) \o NewAnswer(c)
  BY DEF RedAnswer, OwnAnswer, NewAnswer
<1> QED
  BY <1>2, <1>4, <1>6, <1>7, <1>8, <1>9 DEF s, B

\* RedisBus.subscribe is a claim: of what is left of the consumer's own pending
\* entries, and of the new ones.
LEMMA RedSubscribing ==
  ASSUME Shape, Places, Counted, NEW c \in deployed
  PROVE  /\ RedStep(RedSubscribed(c), RedAnswer(c))
         /\ ToSet(EntriesOf(RedAnswer(c))) = Kept(Own(c)) \cup RedNew(c)
         /\ PendingIn(RedSubscribed(c))
              = (RedPending \ Own(c)) \cup Kept(Own(c)) \cup RedNew(c)
<1> DEFINE r == RedSubscribed(c)
           x == Claimed(c, Own(c))
           new == RedNew(c)
           cur == Max({red.cursor} \cup RedNew(c))
           owner == [e \in Entries |-> IF e \in RedNew(c) THEN c ELSE x.owner[e]]
           counts == [e \in Entries |-> IF e \in RedNew(c) THEN 1 ELSE x.count[e]]
           lo == Through(red.cursor)
           k == NewRead(c)
           S == Own(c)
           A == RedAnswer(c)
<1>1. r = [cursor |-> cur, owner |-> owner, count |-> counts]
  BY DEF RedSubscribed
<1>2. /\ x \in RedStates /\ x.cursor = red.cursor
      /\ PendingIn(x) = (RedPending \ S) \cup Kept(S)
      /\ \A e \in Entries : x.count[e] = IF e \in Kept(S) THEN red.count[e] + 1 ELSE red.count[e]
  BY OwnIs, Claiming
<1>3. /\ lo \in 0 .. tail /\ red.cursor <= lo /\ kept <= lo + 1
      /\ k \in Nat /\ lo + k <= tail /\ new = lo + 1 .. lo + k /\ new \in SUBSET Entries
      /\ cur = (IF k = 0 THEN red.cursor ELSE lo + k) /\ Through(cur) = lo + k
  BY RedReading
<1>4. /\ tail \in 0 .. N /\ N \in Nat /\ kept \in 1 .. N /\ red.cursor \in 0 .. tail
      /\ red.count \in [Entries -> Nat] /\ c # NoOne /\ c \in deployed
  BY Parts
<1>5. S \in SUBSET RedPending /\ S \in SUBSET Entries /\ RedPending \subseteq 1 .. red.cursor
      /\ Kept(S) \subseteq S
  BY OwnIs DEF Places, Kept
<1>6. /\ A \in Seq(Deliveries)
      /\ ToSet(EntriesOf(A)) = Kept(S) \cup new
      /\ \A i \in DOMAIN A : \/ /\ A[i].entry \in Kept(S)
                                /\ A[i].count <= red.count[A[i].entry] + 1
                             \/ A[i].entry \in new /\ A[i].count = 1
  <2>1. /\ OwnAnswer(c) \in Seq(Deliveries) /\ NewAnswer(c) \in Seq(Deliveries)
        /\ A = OwnAnswer(c) \o NewAnswer(c)
        /\ ToSet(EntriesOf(OwnAnswer(c))) = Kept(S) /\ ToSet(EntriesOf(NewAnswer(c))) = new
        /\ \A i \in DOMAIN OwnAnswer(c) :
             /\ OwnAnswer(c)[i].entry \in Kept(S)
             /\ OwnAnswer(c)[i].count <= red.count[OwnAnswer(c)[i].entry] + 1
        /\ \A i \in DOMAIN NewAnswer(c) :
             NewAnswer(c)[i].entry \in new /\ NewAnswer(c)[i].count = 1
    BY RedAnswering
  <2> HIDE DEF A, new, S
  <2>2. /\ A \in Seq(Deliveries)
        /\ EntriesOf(OwnAnswer(c)) \in Seq(Entries) /\ EntriesOf(NewAnswer(c)) \in Seq(Entries)
        /\ EntriesOf(A) = EntriesOf(OwnAnswer(c)) \o EntriesOf(NewAnswer(c))
        /\ \A i \in DOMAIN A : \/ \E j \in DOMAIN OwnAnswer(c) : A[i] = OwnAnswer(c)[j]
                               \/ \E j \in DOMAIN NewAnswer(c) : A[i] = NewAnswer(c)[j]
    BY <2>1, AnswersJoined
  <2>3. ToSet(EntriesOf(A)) = Kept(S) \cup new
    BY <2>1, <2>2, Joining
  <2> QED
    BY <2>1, <2>2, <2>3
<1> HIDE DEF r, x, new, cur, owner, counts, lo, k, S, A
<1>7. /\ owner \in [Entries -> deployed \cup {NoOne}] /\ counts \in [Entries -> Nat]
  BY <1>2, <1>4 DEF owner, counts, RedStates, new
<1>8. cur \in red.cursor .. tail /\ cur \in 0 .. N
  BY <1>3, <1>4
<1>9. r \in RedStates /\ r.cursor = cur /\ r.owner = owner /\ r.count = counts
  BY <1>1, <1>7, <1>8 DEF RedStates
<1>10. PendingIn(r) = PendingIn(x) \cup new
  <2>1. \A e \in Entries : owner[e] # NoOne <=> e \in new \/ x.owner[e] # NoOne
    BY <1>4 DEF owner, new
  <2> QED
    BY <2>1, <1>3, <1>9 DEF PendingIn
<1>11. \A e \in 1 .. red.cursor : e \in 1 .. cur /\ e \notin new
  BY <1>3, <1>4
<1>12. \A e \in new : e \in 1 .. cur /\ kept <= e /\ red.cursor < e
  BY <1>3, <1>4
<1>13. PendingIn(r) \subseteq 1 .. cur
  BY <1>2, <1>5, <1>10, <1>11, <1>12
<1>14. Kept(PendingIn(r)) = Kept(RedPending) \cup (lo + 1 .. Through(cur))
  <2>1. Kept(PendingIn(r)) = Kept(RedPending) \cup new
    <3>1. \A e \in PendingIn(r) : kept <= e => e \in RedPending \/ e \in new
      BY <1>2, <1>5, <1>10
    <3>2. \A e \in RedPending : kept <= e => e \in PendingIn(r)
      BY <1>2, <1>10 DEF Kept
    <3> QED
      BY <3>1, <3>2, <1>10, <1>12 DEF Kept
  <2> QED
    BY <2>1, <1>3
<1>15. Kept(S) \cup new \subseteq 1 .. cur
  BY <1>5, <1>11, <1>12
<1>16. \A e \in new : red.count[e] = 0 /\ e \notin Kept(S)
  BY <1>3, <1>5, <1>11, <1>12 DEF Counted
<1>17. \A e \in Entries :
         r.count[e] = IF e \in Kept(S) \cup new THEN red.count[e] + 1 ELSE red.count[e]
  BY <1>2, <1>9, <1>16 DEF counts, new
<1>18. \A i \in DOMAIN A : A[i].count <= red.count[A[i].entry] + 1
  BY <1>6, <1>16
<1>19. RedStep(r, A)
  BY <1>6, <1>8, <1>9, <1>13, <1>14, <1>15, <1>17, <1>18 DEF RedStep, lo
<1> QED
  BY <1>2, <1>6, <1>10, <1>19 DEF r, A, S, new

\* RedisBus.reclaim is a claim of whatever was pending for too long.
LEMMA RedReclaiming ==
  ASSUME Shape, Places, NEW c \in deployed
  PROVE  RedStep(Claimed(c, idle.redis), RedReclaimAnswer(c))
<1> DEFINE S == idle.redis
           r == Claimed(c, idle.redis)
           A == RedReclaimAnswer(c)
<1>1. S \in SUBSET Entries
  BY DEF Shape, Transports
<1>2. /\ r \in RedStates /\ r.cursor = red.cursor
      /\ PendingIn(r) = (RedPending \ S) \cup Kept(S)
      /\ \A e \in Entries : r.count[e] = IF e \in Kept(S) THEN red.count[e] + 1 ELSE red.count[e]
  BY <1>1, Claiming
<1>3. Kept(S) \subseteq Entries
  BY <1>1 DEF Kept
<1>4. /\ A \in Seq(Deliveries) /\ ToSet(EntriesOf(A)) = Kept(S)
      /\ \A i \in DOMAIN A : A[i].count <= red.count[A[i].entry] + 1
  <2>1. A = Answer(r, S, Kept(S))
    BY DEF RedReclaimAnswer
  <2>2. r.count \in [Entries -> Nat] /\ \A e \in Kept(S) : r.count[e] = red.count[e] + 1
    <3> HIDE DEF r
    <3> QED BY <1>2, <1>3 DEF RedStates
  <2> HIDE DEF A, r, S
  <2> QED
    BY <2>1, <2>2, <1>1, AnswerIs
<1>5. red.cursor \in 0 .. tail /\ Kept(S) \subseteq RedPending
      /\ RedPending \subseteq 1 .. red.cursor
  BY Parts DEF Places
<1>6. kept - 1 \in Int
  BY Parts
<1> HIDE DEF S, r, A
<1>7. Through(red.cursor) + 1 .. Through(r.cursor) = {} /\ r.cursor \in red.cursor .. tail
  <2>1. Through(red.cursor) \in Int
    BY <1>5, <1>6, LargerOfTwo DEF Through
  <2>2. Through(r.cursor) = Through(red.cursor)
    BY <1>2
  <2> QED
    BY <2>1, <2>2, <1>2, <1>5
<1>8. Kept(PendingIn(r)) = Kept(RedPending) /\ PendingIn(r) \subseteq RedPending
  BY <1>2, <1>5 DEF Kept
<1> QED
  BY <1>2, <1>4, <1>5, <1>7, <1>8 DEF RedStep, r, A

\* A call that a transport does not get leaves it as a claim of nothing does.
LEMMA NothingClaimed ==
  ASSUME Shape, Places
  PROVE  MemStep(mem, <<>>) /\ RedStep(red, <<>>)
<1>1. /\ mem \in MemStates /\ red \in RedStates /\ mem.cursor \in 0 .. tail
      /\ red.cursor \in 0 .. tail
      /\ tail \in Nat /\ kept - 1 \in Int
  BY Parts DEF Shape
<1>2. <<>> \in Seq(Deliveries) /\ EntriesOf(<<>>) = <<>> /\ DOMAIN <<>> = {} /\ ToSet(<<>>) = {}
  BY EmptySeq DEF EntriesOf, ToSet
<1>3. mem.cursor + 1 .. mem.cursor = {} /\ mem.cursor \in mem.cursor .. tail
  BY <1>1
<1>4. Through(red.cursor) + 1 .. Through(red.cursor) = {} /\ red.cursor \in red.cursor .. tail
  <2>1. Through(red.cursor) \in Int
    BY <1>1, LargerOfTwo DEF Through
  <2> QED
    BY <2>1, <1>1
<1>5. MemStep(mem, <<>>)
  BY <1>1, <1>2, <1>3 DEF MemStep, Places
<1>6. RedStep(red, <<>>)
  BY <1>1, <1>2, <1>4 DEF RedStep, Places, RedPending
<1> QED
  BY <1>5, <1>6

\* In the case redis.py:276-294 is exact for: a consumer that has the group to itself
\* asks for the counts of the first entries of the pending list, and ids that compare
\* in their order bound just these.
LEMMA ExactCounts ==
  ASSUME Shape, Places, NEW c \in deployed, Sole(deployed), rank = [e \in Entries |-> e],
         NEW e \in Kept(Own(c))
  PROVE  Reported(Own(c), PendingIn(Claimed(c, Own(c))), Claimed(c, Own(c)).count, e)
           = red.count[e] + 1
<1> DEFINE S == Own(c)
           P == PendingIn(Claimed(c, Own(c)))
           counts == Claimed(c, Own(c)).count
<1>1. /\ S \in SUBSET RedPending /\ S \in SUBSET Entries /\ Kept(S) \subseteq S
  BY OwnIs DEF Kept
<1>2. /\ P = (RedPending \ S) \cup Kept(S)
      /\ \A d \in Entries : counts[d] = IF d \in Kept(S) THEN red.count[d] + 1 ELSE red.count[d]
  BY <1>1, Claiming
<1>3. \A d \in S, f \in RedPending : f < d => f \in S
  <2>1. deployed = {c}
    BY DEF Sole
  <2>2. \A f \in RedPending : red.owner[f] = c
    BY <2>1, Parts DEF RedPending, PendingIn
  <2>3. {f \in RedPending : red.owner[f] = c} = RedPending
    BY <2>2
  <2>4. S = FirstOf(RedPending, Count) /\ Count \in Nat /\ RedPending \in SUBSET Entries
    BY <2>3, Parts DEF Own, RedPending, PendingIn
  <2>5. IsFiniteSet(RedPending) /\ RedPending \in SUBSET Int
    BY <2>4, SomeEntries
  <2> HIDE DEF S
  <2> QED
    BY <2>4, <2>5, FirstOfTakes
<1>4. \A d \in Entries : rank[d] = d /\ d \in Int
  BY DEF Entries
<1> HIDE DEF S, P, counts
<1>5. IsFiniteSet(S) /\ S \in SUBSET Int /\ e \in S /\ S # {} /\ e \in Int
  BY <1>1, SomeEntries DEF S
<1>6. Least(S) \in S /\ \A f \in S : Least(S) <= f
  <2>1. S \in SUBSET Nat
    BY <1>1 DEF Entries
  <2>2. \E d \in S : \A f \in S : d <= f
    BY <2>1, <1>5, LeastNatural
  <2>3. \A d, f \in S : rank[d] <= rank[f] <=> d <= f
    BY <1>1, <1>4
  <2>4. \E d \in S : \A f \in S : rank[d] <= rank[f]
    BY <2>2, <2>3
  <2>5. Least(S) \in S /\ \A f \in S : rank[Least(S)] <= rank[f]
    BY <2>4 DEF Least
  <2> QED
    BY <2>3, <2>5
<1>7. Greatest(S) \in S /\ \A f \in S : f <= Greatest(S)
  <2>1. \E d \in S : \A f \in S : f <= d
    <3>1. Cardinality(S) \in 1 .. Cardinality(S)
      <4>1. Cardinality(S) \in Nat /\ Cardinality(S) # 0
        BY <1>5, FS_CardinalityType, FS_EmptySet
      <4> QED
        BY <4>1
    <3>2. PICK d \in S : Cardinality({f \in S : f <= d}) = Cardinality(S)
      BY <3>1, <1>5, EveryRank
    <3>3. {f \in S : f <= d} = S
      BY <3>2, <1>5, FS_Subset
    <3> QED
      BY <3>3
  <2>2. \A d, f \in S : rank[d] <= rank[f] <=> d <= f
    BY <1>1, <1>4
  <2>3. \E d \in S : \A f \in S : rank[f] <= rank[d]
    BY <2>1, <2>2
  <2>4. Greatest(S) \in S /\ \A f \in S : rank[f] <= rank[Greatest(S)]
    BY <2>3 DEF Greatest
  <2> QED
    BY <2>2, <2>4
<1> DEFINE T == {f \in P : Least(S) <= f /\ f <= Greatest(S)}
<1>8. T \in SUBSET S /\ e \in T
  <2>1. \A f \in P : f <= Greatest(S) => f \in S
    <3>1. ASSUME NEW f \in P, f <= Greatest(S) PROVE f \in S
      <4>1. f \in Kept(S) \/ f \in RedPending
        BY <1>2
      <4>2. CASE f \in Kept(S)
        BY <4>2, <1>1
      <4>3. CASE f \in RedPending
        <5>1. f \in Int /\ Greatest(S) \in Int
          BY <4>3, <1>4, <1>5, <1>7 DEF RedPending, PendingIn
        <5>2. f = Greatest(S) \/ f < Greatest(S)
          BY <5>1, <3>1
        <5> QED
          BY <5>2, <4>3, <1>3, <1>7
      <4> QED
        BY <4>1, <4>2, <4>3
    <3> QED
      BY <3>1
  <2>2. e \in P
    BY <1>2 DEF S
  <2> QED
    BY <2>1, <2>2, <1>5, <1>6, <1>7
<1> HIDE DEF T
<1>9. e \in FirstOf(T, Cardinality(S))
  <2> DEFINE U == {f \in T : f < e}
  <2>1. U \in SUBSET (S \ {e})
    <3>1. ~(e < e)
      BY <1>5
    <3> QED
      BY <3>1, <1>8
  <2> HIDE DEF U
  <2>2. IsFiniteSet(S \ {e}) /\ Cardinality(S \ {e}) = Cardinality(S) - 1
    BY <1>5, FS_RemoveElement
  <2>3. Cardinality(U) <= Cardinality(S \ {e}) /\ IsFiniteSet(U)
    BY <2>1, <2>2, FS_Subset
  <2>4. Cardinality(U) \in Nat /\ Cardinality(S) \in Nat
    BY <2>3, <1>5, FS_CardinalityType
  <2>5. Cardinality(U) < Cardinality(S)
    BY <2>2, <2>3, <2>4
  <2> QED
    BY <2>5, <1>8 DEF FirstOf, U
<1>10. Reported(S, P, counts, e) = counts[e]
  BY <1>9 DEF Reported, T
<1>11. e \in Entries /\ e \in Kept(S)
  BY <1>1, <1>5 DEF S
<1> QED
  BY <1>2, <1>10, <1>11 DEF S, P, counts

-----------------------------------------------------------------------------
(* The invariant is inductive.                                             *)

\* What the transports are after a call that claims, and what it adds.
LEMMA ReceivedIs ==
  ASSUME Shape, Places, NEW c, NEW m, NEW mA, NEW r, NEW rA,
         Receive(c, m, mA, r, rA), MemStep(m, mA), RedStep(r, rA)
  PROVE  /\ MemStep(mem', last'["memory"]) /\ RedStep(red', last'["redis"])
         /\ ~OnMemory => mem' = mem
         /\ ~OnRedis => red' = red
         /\ last' = [memory |-> last'["memory"], redis |-> last'["redis"]]
         /\ OnMemory => last'["memory"] = mA
         /\ OnRedis => last'["redis"] = rA
         /\ ~OnMemory => last'["memory"] = <<>>
         /\ ~OnRedis => last'["redis"] = <<>>
<1>1. /\ mem' = IF OnMemory THEN m ELSE mem
      /\ red' = IF OnRedis THEN r ELSE red
      /\ last' = [memory |-> IF OnMemory THEN mA ELSE <<>>, redis |-> IF OnRedis THEN rA ELSE <<>>]
  BY DEF Receive
<1>2. /\ last'["memory"] = (IF OnMemory THEN mA ELSE <<>>)
      /\ last'["redis"] = (IF OnRedis THEN rA ELSE <<>>)
      /\ last' = [memory |-> last'["memory"], redis |-> last'["redis"]]
  BY <1>1
<1>3. MemStep(mem', last'["memory"])
  <2>1. CASE OnMemory
    <3>1. mem' = m /\ last'["memory"] = mA
      BY <2>1, <1>1, <1>2
    <3> QED
      BY <3>1 DEF MemStep
  <2>2. CASE ~OnMemory
    <3>1. mem' = mem /\ last'["memory"] = <<>> /\ MemStep(mem, <<>>)
      BY <2>2, <1>1, <1>2, NothingClaimed
    <3> QED
      BY <3>1 DEF MemStep
  <2> QED
    BY <2>1, <2>2
<1>4. RedStep(red', last'["redis"])
  <2>1. CASE OnRedis
    <3>1. red' = r /\ last'["redis"] = rA
      BY <2>1, <1>1, <1>2
    <3> QED
      BY <3>1 DEF RedStep
  <2>2. CASE ~OnRedis
    <3>1. red' = red /\ last'["redis"] = <<>> /\ RedStep(red, <<>>)
      BY <2>2, <1>1, <1>2, NothingClaimed
    <3> QED
      BY <3>1 DEF RedStep
  <2> QED
    BY <2>1, <2>2
<1> QED
  BY <1>1, <1>2, <1>3, <1>4

\* The deliveries one answer adds.
LEMMA GivenIs ==
  ASSUME Shape, NEW c, NEW m, NEW mA, NEW r, NEW rA, Receive(c, m, mA, r, rA)
  PROVE  /\ given' \in [Transports -> [Entries -> Nat]]
         /\ \A b \in Transports : \A e \in Entries :
              given'[b][e]
                = IF e \in ToSet(EntriesOf(last'[b])) THEN given[b][e] + 1 ELSE given[b][e]
         /\ \A b \in Transports : idle'[b] = idle[b] \ ToSet(EntriesOf(last'[b]))
         /\ idle' \in [Transports -> SUBSET Entries]
         /\ batch' = [batch EXCEPT ![c] = EntriesOf(IF OnRedis THEN last'.redis ELSE last'.memory)]
<1>1. given \in [Transports -> [Entries -> Nat]] /\ idle \in [Transports -> SUBSET Entries]
  BY DEF Shape
<1>2. given' = [b \in Transports |-> Given(b, last'[b])]
  BY DEF Receive
<1>3. idle' = [b \in Transports |-> idle[b] \ ToSet(EntriesOf(last'[b]))]
  BY DEF Receive
<1>4. ASSUME NEW b \in Transports, NEW a
      PROVE  /\ Given(b, a) \in [Entries -> Nat]
             /\ \A e \in Entries :
                  Given(b, a)[e]
                    = IF e \in ToSet(EntriesOf(a)) THEN given[b][e] + 1 ELSE given[b][e]
  BY <1>1 DEF Given
<1>5. \A b \in Transports :
        /\ given'[b] \in [Entries -> Nat]
        /\ \A e \in Entries :
             given'[b][e]
               = IF e \in ToSet(EntriesOf(last'[b])) THEN given[b][e] + 1 ELSE given[b][e]
  <2>1. ASSUME NEW b \in Transports
        PROVE  /\ given'[b] \in [Entries -> Nat]
               /\ \A e \in Entries :
                    given'[b][e]
                      = IF e \in ToSet(EntriesOf(last'[b])) THEN given[b][e] + 1 ELSE given[b][e]
    <3>1. PICK a : a = last'[b]
      OBVIOUS
    <3>2. given'[b] = Given(b, a)
      BY <1>2, <3>1
    <3> QED
      BY <3>1, <3>2, <1>4
  <2> QED
    BY <2>1
<1>6. given' \in [Transports -> [Entries -> Nat]]
  BY <1>2, <1>5
<1>7. \A b \in Transports : idle'[b] = idle[b] \ ToSet(EntriesOf(last'[b]))
  BY <1>3
<1>8. idle' \in [Transports -> SUBSET Entries]
  BY <1>1, <1>3
<1>9. batch' = [batch EXCEPT ![c] = EntriesOf(IF OnRedis THEN last'.redis ELSE last'.memory)]
  BY DEF Receive
<1> QED
  BY <1>5, <1>6, <1>7, <1>8, <1>9

\* The entries of an answer are a sequence of entries.
LEMMA AnswerHolds ==
  ASSUME NEW A \in Seq(Deliveries)
  PROVE  /\ EntriesOf(A) \in Seq(Entries) /\ ToSet(EntriesOf(A)) \subseteq Entries
         /\ \A i \in DOMAIN A : A[i].entry \in ToSet(EntriesOf(A))
<1>1. Len(A) \in Nat /\ DOMAIN A = 1 .. Len(A) /\ \A i \in 1 .. Len(A) : A[i] \in Deliveries
  BY LenProperties, ElementOfSeq
<1>2. EntriesOf(A) \in [1 .. Len(A) -> Entries]
  BY <1>1 DEF EntriesOf, Deliveries
<1>3. EntriesOf(A) \in Seq(Entries)
  BY <1>1, <1>2, SeqDef
<1>4. \A i \in DOMAIN A : EntriesOf(A)[i] = A[i].entry /\ i \in DOMAIN EntriesOf(A)
  BY DEF EntriesOf
<1>5. \A i \in DOMAIN A : A[i].entry \in ToSet(EntriesOf(A))
  BY <1>4 DEF ToSet
<1> QED
  BY <1>3, <1>5, HoldsOf

\* A call that claims keeps the invariant.
LEMMA Received ==
  ASSUME BusInv, NEW c \in deployed, NEW m, NEW mA, NEW r, NEW rA,
         Receive(c, m, mA, r, rA), MemStep(m, mA), RedStep(r, rA), joined,
         UNCHANGED <<world, joined, tail, kept, nacks>>, lost' \in 0 .. MaxLost
  PROVE  BusInv'
<1>1. Shape /\ Places /\ Counted /\ Held
  BY DEF BusInv
<1>2. PICK x, y : x = last'["memory"] /\ y = last'["redis"]
  OBVIOUS
<1>3. PICK p, q : p = mem' /\ q = red'
  OBVIOUS
<1>4. /\ MemStep(p, x) /\ RedStep(q, y)
      /\ (~OnMemory => p = mem) /\ (~OnRedis => q = red)
      /\ last' = [memory |-> x, redis |-> y]
      /\ (~OnMemory => x = <<>>) /\ (~OnRedis => y = <<>>)
  <2>1. /\ MemStep(mem', last'["memory"]) /\ RedStep(red', last'["redis"])
        /\ (~OnMemory => mem' = mem) /\ (~OnRedis => red' = red)
        /\ last' = [memory |-> last'["memory"], redis |-> last'["redis"]]
        /\ (~OnMemory => last'["memory"] = <<>>) /\ (~OnRedis => last'["redis"] = <<>>)
    BY <1>1, ReceivedIs
  <2>2. MemStep(p, x)
    BY <2>1, <1>2, <1>3 DEF MemStep
  <2>3. RedStep(q, y)
    BY <2>1, <1>2, <1>3 DEF RedStep
  <2> QED
    BY <2>1, <2>2, <2>3, <1>2, <1>3
<1>5. /\ p \in MemStates /\ x \in Seq(Deliveries) /\ p.cursor \in mem.cursor .. tail
      /\ IsInjective(p.pending \o p.retry)
      /\ ToSet(p.pending \o p.retry)
           = ToSet(mem.pending \o mem.retry) \cup (mem.cursor + 1 .. p.cursor)
      /\ ToSet(EntriesOf(x)) \subseteq 1 .. p.cursor
      /\ \A e \in Entries :
           p.count[e] = IF e \in ToSet(EntriesOf(x)) THEN mem.count[e] + 1 ELSE mem.count[e]
  BY <1>4 DEF MemStep
<1>6. /\ q \in RedStates /\ y \in Seq(Deliveries) /\ q.cursor \in red.cursor .. tail
      /\ PendingIn(q) \subseteq 1 .. q.cursor
      /\ Kept(RedPending) \subseteq Kept(PendingIn(q))
      /\ ToSet(EntriesOf(y)) \subseteq 1 .. q.cursor
      /\ \A e \in Entries :
           q.count[e] = IF e \in ToSet(EntriesOf(y)) THEN red.count[e] + 1 ELSE red.count[e]
  BY <1>4 DEF RedStep
<1>7. /\ given' \in [Transports -> [Entries -> Nat]] /\ idle' \in [Transports -> SUBSET Entries]
      /\ \A e \in Entries :
           /\ given'["memory"][e]
                = IF e \in ToSet(EntriesOf(x)) THEN given["memory"][e] + 1 ELSE given["memory"][e]
           /\ given'["redis"][e]
                = IF e \in ToSet(EntriesOf(y)) THEN given["redis"][e] + 1 ELSE given["redis"][e]
      /\ idle'["redis"] = idle["redis"] \ ToSet(EntriesOf(y))
      /\ batch' = [batch EXCEPT ![c] = EntriesOf(IF OnRedis THEN y ELSE x)]
  BY <1>1, <1>2, GivenIs DEF Transports
<1>8. /\ EntriesOf(x) \in Seq(Entries) /\ ToSet(EntriesOf(x)) \subseteq Entries
      /\ EntriesOf(y) \in Seq(Entries) /\ ToSet(EntriesOf(y)) \subseteq Entries
  BY <1>5, <1>6, AnswerHolds
<1>9. c \in Consumers /\ batch \in [Consumers -> Seq(Entries)]
      /\ given \in [Transports -> [Entries -> Nat]]
  BY <1>1, Parts DEF Shape
<1>10. Shape'
  <2>1. last' \in [Transports -> Seq(Deliveries)]
    BY <1>4, <1>5, <1>6 DEF Transports
  <2>2. batch' \in [Consumers -> Seq(Entries)]
    BY <1>7, <1>8, <1>9
  <2> QED
    BY <2>1, <2>2, <1>1, <1>3, <1>5, <1>6, <1>7 DEF Shape, MemStates, RedStates, world
<1>11. Places'
  <2>1. RedPending' = PendingIn(q) /\ Kept(idle.redis)' = Kept(idle'["redis"])
    BY <1>3 DEF RedPending, PendingIn, Kept
  <2>2. Kept(idle'["redis"]) \subseteq PendingIn(q)
    BY <1>1, <1>6, <1>7 DEF Kept, Places
  <2>3. ToSet(p.pending \o p.retry) \subseteq 1 .. p.cursor
    <3>1. \A e \in 1 .. mem.cursor : e \in 1 .. p.cursor
      BY <1>1, <1>5, Parts
    <3>2. \A e \in mem.cursor + 1 .. p.cursor : e \in 1 .. p.cursor
      BY <1>1, <1>5, Parts
    <3> QED
      BY <3>1, <3>2, <1>1, <1>5 DEF Places
  <2>4. p.cursor <= tail /\ q.cursor <= tail
    BY <1>1, <1>5, <1>6, Parts
  <2>5. (~OnMemory => p.cursor = 0) /\ (~OnRedis => q.cursor = 0)
    BY <1>1, <1>4 DEF Places
  <2>6. IsInjective(p.pending \o p.retry) /\ PendingIn(q) \subseteq 1 .. q.cursor
    BY <1>5, <1>6
  <2>7. /\ mem' = p /\ red' = q /\ tail' = tail /\ joined'
        /\ OnMemory' = OnMemory /\ OnRedis' = OnRedis
    BY <1>3 DEF world, OnMemory, OnRedis
  <2>8. Kept(idle.redis)' \subseteq RedPending' /\ RedPending' \subseteq 1 .. red'.cursor
    BY <2>1, <2>2, <2>6, <2>7
  <2>9. mem'.cursor <= tail' /\ red'.cursor <= tail'
    BY <2>4, <2>7
  <2>10. /\ IsInjective(mem'.pending \o mem'.retry)
         /\ ToSet(mem'.pending \o mem'.retry) \subseteq 1 .. mem'.cursor
    BY <2>3, <2>6, <2>7
  <2>11. /\ ~joined' \/ ~OnMemory' => mem'.cursor = 0
         /\ ~joined' \/ ~OnRedis' => red'.cursor = 0
    BY <2>5, <2>7
  <2> QED
    BY <2>8, <2>9, <2>10, <2>11 DEF Places
<1>12. Counted'
  <2>1. \A e \in Entries : p.count[e] = given'["memory"][e] /\ q.count[e] = given'["redis"][e]
    <3>1. \A e \in Entries :
            mem.count[e] = given["memory"][e] /\ red.count[e] = given["redis"][e]
      BY <1>1 DEF Counted
    <3>2. \A e \in Entries : p.count[e] = given'["memory"][e]
      BY ONLY <3>1, <1>5, <1>7
    <3>3. \A e \in Entries : q.count[e] = given'["redis"][e]
      BY ONLY <3>1, <1>6, <1>7
    <3> QED
      BY <3>2, <3>3
  <2>2. \A e \in Entries : e \in Int
    BY DEF Entries
  <2>3. ASSUME NEW e \in Entries, p.cursor < e PROVE given'["memory"][e] = 0
    <3>1. mem.cursor < e /\ e \notin 1 .. p.cursor
      BY <2>2, <2>3, <1>1, <1>5, Parts
    <3> QED
      BY <3>1, <1>1, <1>5, <1>7 DEF Counted
  <2>4. ASSUME NEW e \in Entries, q.cursor < e PROVE given'["redis"][e] = 0
    <3>1. red.cursor < e /\ e \notin 1 .. q.cursor
      BY <2>2, <2>4, <1>1, <1>6, Parts
    <3> QED
      BY <3>1, <1>1, <1>6, <1>7 DEF Counted
  <2> QED
    BY <2>1, <2>3, <2>4, <1>3 DEF Counted
<1>13. Held'
  <2>1. \A b \in Transports, e \in Entries : given[b][e] > 0 => given'[b][e] > 0
    <3>1. \A b \in Transports, e \in Entries : given[b][e] \in Nat
      BY <1>9
    <3>2. /\ \A e \in Entries : given["memory"][e] > 0 => given'["memory"][e] > 0
          /\ \A e \in Entries : given["redis"][e] > 0 => given'["redis"][e] > 0
      BY <3>1, <1>7 DEF Transports
    <3> QED
      BY <3>2 DEF Transports
  <2>2. \A e \in ToSet(EntriesOf(x)) : e \in Entries /\ given'["memory"][e] > 0
    BY <1>7, <1>8, <1>9 DEF Transports
  <2>3. \A e \in ToSet(EntriesOf(y)) : e \in Entries /\ given'["redis"][e] > 0
    BY <1>7, <1>8, <1>9 DEF Transports
  <2>4. "memory" \in used \/ "redis" \in used
    BY <1>1 DEF Shape, Transports
  <2>5. used \subseteq Transports /\ used' = used
    BY <1>1 DEF Shape, Transports, world
  <2>6. ASSUME NEW d \in Consumers, NEW e \in ToSet(batch'[d])
        PROVE  e \in Entries /\ \E b \in used : given'[b][e] > 0
    <3>1. CASE d # c
      <4>1. batch'[d] = batch[d]
        BY <3>1, <1>7, <1>9
      <4>2. e \in Entries /\ \E b \in used : given[b][e] > 0
        BY <4>1, <2>6, <1>1 DEF Held
      <4> QED
        BY <4>2, <2>1, <2>5
    <3>2. CASE d = c /\ OnRedis
      <4>1. batch'[d] = EntriesOf(y)
        BY <3>2, <1>7, <1>9
      <4> QED
        BY <4>1, <3>2, <2>3, <2>6 DEF OnRedis
    <3>3. CASE d = c /\ ~OnRedis
      <4>1. batch'[d] = EntriesOf(x)
        BY <3>3, <1>7, <1>9
      <4> QED
        BY <4>1, <3>3, <2>2, <2>4, <2>6 DEF OnRedis
    <3> QED
      BY <3>1, <3>2, <3>3
  <2> QED
    BY <2>5, <2>6 DEF Held
<1> QED
  BY <1>10, <1>11, <1>12, <1>13 DEF BusInv

\* A sequence that is not empty is its head and its tail.
LEMMA HeadAndTail ==
  ASSUME NEW E, NEW s \in Seq(E), s # <<>>
  PROVE  /\ Head(s) \in E /\ Head(s) \in ToSet(s) /\ Tail(s) \in Seq(E)
         /\ ToSet(s) = {Head(s)} \cup ToSet(Tail(s))
         /\ s = <<Head(s)>> \o Tail(s)
         /\ <<Head(s)>> \in Seq(E)
<1>1. /\ Head(s) \in E /\ Tail(s) \in Seq(E) /\ Len(Tail(s)) = Len(s) - 1
      /\ \A i \in 1 .. Len(Tail(s)) : Tail(s)[i] = s[i + 1]
  BY HeadTailProperties
<1>2. Len(s) \in Nat /\ Len(s) # 0 /\ s[1] = Head(s)
  BY LenProperties, EmptySeq
<1>3. <<Head(s)>> \in Seq(E) /\ Len(<<Head(s)>>) = 1 /\ <<Head(s)>>[1] = Head(s)
      /\ ToSet(<<Head(s)>>) = {Head(s)}
  BY <1>1 DEF ToSet
<1> DEFINE h == <<Head(s)>>
           t == Tail(s)
<1>4. /\ h \o t \in Seq(E) /\ Len(h \o t) = Len(h) + Len(t)
      /\ \A i \in 1 .. Len(h) + Len(t) : (h \o t)[i] = IF i <= Len(h) THEN h[i] ELSE t[i - Len(h)]
  BY <1>1, <1>3, ConcatProperties
<1> HIDE DEF h, t
<1>5. Len(h \o t) = Len(s) /\ \A i \in 1 .. Len(s) : (h \o t)[i] = s[i]
  <2>1. Len(h) = 1 /\ Len(t) = Len(s) - 1 /\ h[1] = s[1]
    BY <1>1, <1>2, <1>3 DEF h, t
  <2>2. \A i \in 1 .. Len(s) - 1 : t[i] = s[i + 1]
    BY <1>1 DEF t
  <2>3. \A i \in 1 .. Len(s) : i <= 1 => i = 1
    OBVIOUS
  <2>4. \A i \in 1 .. Len(s) : ~(i <= 1) => i - 1 \in 1 .. Len(s) - 1 /\ (i - 1) + 1 = i
    BY <1>2
  <2>5. 1 + (Len(s) - 1) = Len(s)
    BY <1>2
  <2> QED
    BY <2>1, <2>2, <2>3, <2>4, <2>5, <1>4
<1>6. s = h \o t
  BY <1>4, <1>5, SeqEqual
<1>7. ToSet(h \o t) = ToSet(h) \cup ToSet(t)
  BY <1>1, <1>3, Joining DEF h, t
<1>8. Head(s) \in ToSet(s)
  BY <1>3, <1>6, <1>7 DEF h
<1> QED
  BY <1>1, <1>3, <1>6, <1>7, <1>8 DEF h, t

\* The next entry of a batch, and what is left of the batch after it.
LEMMA NextOfBatch ==
  ASSUME Shape, NEW c \in Consumers, batch[c] # <<>>
  PROVE  /\ Head(batch[c]) \in Entries /\ Head(batch[c]) \in ToSet(batch[c])
         /\ After(c) \in [Consumers -> Seq(Entries)]
         /\ \A d \in Consumers : ToSet(After(c)[d]) \subseteq ToSet(batch[d])
<1>1. batch \in [Consumers -> Seq(Entries)] /\ batch[c] \in Seq(Entries)
  BY DEF Shape
<1>2. /\ Head(batch[c]) \in Entries /\ Head(batch[c]) \in ToSet(batch[c])
      /\ Tail(batch[c]) \in Seq(Entries) /\ ToSet(Tail(batch[c])) \subseteq ToSet(batch[c])
  <2>1. /\ Head(batch[c]) \in Entries /\ Head(batch[c]) \in ToSet(batch[c])
        /\ Tail(batch[c]) \in Seq(Entries)
        /\ ToSet(batch[c]) = {Head(batch[c])} \cup ToSet(Tail(batch[c]))
    BY <1>1, HeadAndTail
  <2> QED
    BY <2>1
<1>3. <<>> \in Seq(Entries) /\ ToSet(<<>>) = {}
  BY EmptySeq DEF ToSet
<1>4. PICK rest \in Seq(Entries) :
        After(c) = [batch EXCEPT ![c] = rest] /\ ToSet(rest) \subseteq ToSet(batch[c])
  BY <1>1, <1>2, <1>3 DEF After
<1>5. \A d \in Consumers : After(c)[d] = IF d = c THEN rest ELSE batch[d]
  BY <1>1, <1>4
<1>6. After(c) \in [Consumers -> Seq(Entries)]
  BY <1>1, <1>4
<1>7. \A d \in Consumers : ToSet(After(c)[d]) \subseteq ToSet(batch[d])
  BY <1>4, <1>5
<1> QED
  BY <1>2, <1>6, <1>7

\* The initial state has the invariant.
LEMMA InitBusInv == Init => BusInv
<1> SUFFICES ASSUME Init PROVE BusInv
  OBVIOUS
<1>1. /\ N \in Nat \ {0} /\ Limits \subseteq 1 .. N /\ MaxNacks \in Nat /\ MaxLost \in Nat
  BY BusConstants DEF Entries
<1>2. <<>> \in Seq(Entries) /\ <<>> \in Seq(Deliveries) /\ DOMAIN <<>> = {} /\ ToSet(<<>>) = {}
  BY EmptySeq DEF ToSet
<1>3. <<>> \o <<>> = <<>>
  BY <1>2, ConcatEmptySeq
<1>4. /\ mem.cursor = 0 /\ mem.pending = <<>> /\ mem.retry = <<>>
      /\ mem.count = [e \in Entries |-> 0]
      /\ red.cursor = 0 /\ red.owner = [e \in Entries |-> NoOne]
      /\ red.count = [e \in Entries |-> 0]
      /\ mem = [cursor |-> mem.cursor, pending |-> mem.pending,
                retry |-> mem.retry, count |-> mem.count]
      /\ red = [cursor |-> red.cursor, owner |-> red.owner, count |-> red.count]
  BY DEF Init
<1>5. Shape
  <2>1. mem \in MemStates /\ red \in RedStates
    <3>1. /\ 0 \in 0 .. N /\ [e \in Entries |-> 0] \in [Entries -> Nat]
          /\ [e \in Entries |-> NoOne] \in [Entries -> deployed \cup {NoOne}]
      BY <1>1
    <3>2. mem = [cursor |-> 0, pending |-> <<>>, retry |-> <<>>, count |-> [e \in Entries |-> 0]]
      BY DEF Init
    <3>3. red = [cursor |-> 0, owner |-> [e \in Entries |-> NoOne], count |-> [e \in Entries |-> 0]]
      BY DEF Init
    <3>4. mem \in MemStates
      BY <3>1, <3>2, <1>2 DEF MemStates
    <3>5. red \in RedStates
      BY <3>1, <3>3 DEF RedStates
    <3> QED
      BY <3>4, <3>5
  <2>2. used \in {{"memory"}, {"redis"}, Transports} /\ (used = Transports => Sole(deployed))
    <3>1. used \in {{"memory"}, {"redis"}} \cup {U \in {Transports} : Sole(deployed)}
      BY DEF Init
    <3>2. {"memory"} # Transports /\ {"redis"} # Transports
      BY DEF Transports
    <3> QED
      BY <3>1, <3>2
  <2>3. /\ last \in [Transports -> Seq(Deliveries)] /\ given \in [Transports -> [Entries -> Nat]]
        /\ batch \in [Consumers -> Seq(Entries)] /\ idle \in [Transports -> SUBSET Entries]
    BY <1>2 DEF Init
  <2>4. /\ deployed \in Deployments /\ limit \in Limits /\ rank \in Ranks /\ joined \in BOOLEAN
        /\ tail \in 0 .. N /\ kept \in 1 .. N /\ kept <= tail + 1
        /\ nacks \in 0 .. MaxNacks /\ lost \in 0 .. MaxLost
    <3>1. /\ deployed \in Deployments /\ limit \in Limits /\ rank \in Ranks /\ joined = FALSE
          /\ tail = 0 /\ kept = 1 /\ nacks = 0 /\ lost = 0
      BY DEF Init
    <3>2. /\ tail \in 0 .. N /\ kept \in 1 .. N /\ kept <= tail + 1
          /\ nacks \in 0 .. MaxNacks /\ lost \in 0 .. MaxLost
      BY <3>1, <1>1
    <3>3. joined \in BOOLEAN
      BY <3>1
    <3> QED
      BY <3>1, <3>2, <3>3
  <2> QED
    BY <2>1, <2>2, <2>3, <2>4 DEF Shape
<1>6. RedPending = {}
  BY <1>4 DEF RedPending, PendingIn
<1>7. /\ idle["redis"] = {} /\ given["memory"] = [e \in Entries |-> 0]
      /\ given["redis"] = [e \in Entries |-> 0] /\ tail = 0
      /\ \A c \in Consumers : batch[c] = <<>>
  BY DEF Init, Transports
<1>8. Places
  BY <1>2, <1>3, <1>4, <1>6, <1>7 DEF Places, IsInjective, Kept
<1>9. Counted
  BY <1>4, <1>7 DEF Counted
<1>10. Held
  BY <1>2, <1>7 DEF Held
<1> QED
  BY <1>5, <1>8, <1>9, <1>10 DEF BusInv

\* Every step keeps it.
LEMMA NextBusInv ==
  ASSUME BusInv, [Next]_vars
  PROVE  BusInv'
<1>1. Shape /\ Places /\ Counted /\ Held
  BY DEF BusInv
<1>2. /\ N \in Nat \ {0} /\ Count \in Nat \ {0} /\ tail \in 0 .. N /\ kept \in 1 .. N
      /\ kept <= tail + 1
      /\ mem.cursor \in 0 .. tail /\ mem.pending \in Seq(Entries) /\ mem.retry \in Seq(Entries)
      /\ mem.count \in [Entries -> Nat]
      /\ red.cursor \in 0 .. tail /\ red.owner \in [Entries -> deployed \cup {NoOne}]
      /\ red.count \in [Entries -> Nat]
      /\ deployed \subseteq Consumers /\ NoOne \notin deployed
  BY <1>1, Parts
<1>3. /\ batch \in [Consumers -> Seq(Entries)] /\ lost \in 0 .. MaxLost /\ nacks \in 0 .. MaxNacks
      /\ MaxLost \in Nat /\ MaxNacks \in Nat /\ mem \in MemStates /\ red \in RedStates
      /\ idle \in [Transports -> SUBSET Entries]
  BY <1>1, BusConstants DEF Shape
<1>4. CASE Publish
  <2>1. /\ tail' = tail + 1 /\ tail < N
        /\ UNCHANGED <<world, joined, mem, red, last, given, batch, idle, nacks, lost>>
    BY <1>4 DEF Publish
  <2>2. limit \in 1 .. N
    BY <1>1, BusConstants DEF Shape, Entries
  <2>3. kept' \in kept .. tail + 1
    <3>1. PICK k \in kept .. Max({kept, tail + 2 - limit}) : kept' = IF OnRedis THEN k ELSE kept
      BY <1>4 DEF Publish
    <3>2. Max({kept, tail + 2 - limit})
            = IF kept <= tail + 2 - limit THEN tail + 2 - limit ELSE kept
      <4>1. kept \in Int /\ tail + 2 - limit \in Int
        BY <1>2, <2>2
      <4> QED
        BY <4>1, LargerOfTwo
    <3> QED
      BY <3>1, <3>2, <1>2, <2>2
  <2>4. kept' \in 1 .. N /\ kept' <= tail' + 1 /\ tail' \in 0 .. N
    BY <2>1, <2>3, <1>2
  <2>5. Shape'
    BY <2>1, <2>4, <1>1 DEF Shape, MemStates, RedStates, world
  <2>6. Kept(idle.redis)' \subseteq RedPending'
    <3>1. \A e \in idle["redis"] : e \in Int
      BY <1>3 DEF Transports, Entries
    <3>2. \A e \in idle["redis"] : kept' <= e => kept <= e
      BY <3>1, <2>3, <1>2
    <3>3. RedPending' = RedPending /\ idle' = idle
      BY <2>1 DEF RedPending, PendingIn
    <3> QED
      BY <3>2, <3>3, <1>1 DEF Places, Kept
  <2>7. mem.cursor <= tail' /\ red.cursor <= tail'
    BY <2>1, <1>2
  <2>8. Places'
    BY <2>1, <2>6, <2>7, <1>1 DEF Places, RedPending, PendingIn, world, OnMemory, OnRedis
  <2>9. Counted' /\ Held'
    BY <2>1, <1>1 DEF Counted, Held, world
  <2> QED
    BY <2>5, <2>8, <2>9 DEF BusInv
<1>5. CASE CreateGroup
  <2>1. /\ ~joined /\ joined' = TRUE
        /\ mem' = (IF OnMemory THEN [mem EXCEPT !.cursor = tail] ELSE mem)
        /\ red' = (IF OnRedis THEN [red EXCEPT !.cursor = tail] ELSE red)
        /\ UNCHANGED <<world, tail, kept, last, given, batch, idle, nacks, lost>>
    BY <1>5 DEF CreateGroup
  <2>2. mem.cursor = 0 /\ red.cursor = 0
    BY <2>1, <1>1 DEF Places
  <2>3. /\ mem' \in MemStates /\ mem'.cursor = (IF OnMemory THEN tail ELSE 0)
        /\ mem'.pending = mem.pending /\ mem'.retry = mem.retry /\ mem'.count = mem.count
    BY <2>1, <2>2, <1>2, <1>3 DEF MemStates
  <2>4. /\ red' \in RedStates /\ red'.cursor = (IF OnRedis THEN tail ELSE 0)
        /\ red'.owner = red.owner /\ red'.count = red.count
    BY <2>1, <2>2, <1>2, <1>3 DEF RedStates
  <2>5. Shape'
    BY <2>1, <2>3, <2>4, <1>1 DEF Shape, MemStates, RedStates, world
  <2>6. RedPending' = RedPending /\ RedPending = {} /\ Kept(idle.redis)' = Kept(idle.redis)
    <3>1. 1 .. red.cursor = {}
      BY <2>2
    <3> QED
      BY <3>1, <2>1, <2>4, <1>1 DEF RedPending, PendingIn, Places, Kept
  <2>7. ToSet(mem.pending \o mem.retry) = {}
    <3>1. 1 .. mem.cursor = {}
      BY <2>2
    <3> QED
      BY <3>1, <1>1 DEF Places
  <2>8. mem'.cursor <= tail /\ red'.cursor <= tail
    BY <2>3, <2>4, <1>2
  <2>9. Places'
    BY <2>1, <2>3, <2>4, <2>6, <2>7, <2>8, <1>1 DEF Places, world, OnMemory, OnRedis
  <2>10. Counted'
    <3>1. \A e \in Entries : e > 0
      BY DEF Entries
    <3> QED
      BY <3>1, <2>1, <2>2, <2>3, <2>4, <1>1 DEF Counted
  <2>11. Held'
    BY <2>1, <1>1 DEF Held, world
  <2> QED
    BY <2>5, <2>9, <2>10, <2>11 DEF BusInv
<1>6. CASE Wait
  <2>1. /\ idle' = [memory |-> ToSet(mem.pending), redis |-> RedPending]
        /\ UNCHANGED <<world, joined, tail, kept, mem, red, last, given, batch, nacks, lost>>
    BY <1>6 DEF Wait
  <2>2. ToSet(mem.pending) \subseteq Entries /\ RedPending \subseteq Entries
    BY <1>2, HoldsOf DEF RedPending, PendingIn
  <2>3. idle' \in [Transports -> SUBSET Entries] /\ idle'["redis"] = RedPending
    BY <2>1, <2>2 DEF Transports
  <2>4. Shape'
    BY <2>1, <2>3, <1>1 DEF Shape, MemStates, RedStates, world
  <2>5. RedPending' = RedPending /\ Kept(idle.redis)' \subseteq RedPending
    BY <2>1, <2>3 DEF RedPending, PendingIn, Kept
  <2>6. Places'
    BY <2>1, <2>5, <1>1 DEF Places, world, OnMemory, OnRedis
  <2>7. Counted' /\ Held'
    BY <2>1, <1>1 DEF Counted, Held, world
  <2> QED
    BY <2>4, <2>6, <2>7 DEF BusInv
<1>7. ASSUME NEW c \in deployed, Subscribe(c) PROVE BusInv'
  <2>1. /\ joined /\ Receive(c, MemSubscribed, MemAnswer, RedSubscribed(c), RedAnswer(c))
        /\ UNCHANGED <<world, joined, tail, kept, nacks, lost>>
    BY <1>7 DEF Subscribe
  <2>2. MemStep(MemSubscribed, MemAnswer) /\ RedStep(RedSubscribed(c), RedAnswer(c))
    BY <1>1, MemSubscribing, RedSubscribing
  <2>3. lost' \in 0 .. MaxLost /\ UNCHANGED <<world, joined, tail, kept, nacks>>
    BY <2>1, <1>3
  <2> QED
    BY <2>1, <2>2, <2>3, Received
<1>8. ASSUME NEW c \in deployed, Reclaim(c) PROVE BusInv'
  <2>1. /\ joined /\ lost < MaxLost /\ lost' = lost + 1
        /\ Receive(c, MemReclaimed, MemReclaimAnswer, Claimed(c, idle.redis), RedReclaimAnswer(c))
        /\ UNCHANGED <<world, joined, tail, kept, nacks>>
    BY <1>8 DEF Reclaim
  <2>2. MemStep(MemReclaimed, MemReclaimAnswer)
        /\ RedStep(Claimed(c, idle.redis), RedReclaimAnswer(c))
    BY <1>1, MemReclaiming, RedReclaiming
  <2>3. lost' \in 0 .. MaxLost
    BY <2>1, <1>3
  <2> QED
    BY <2>1, <2>2, <2>3, Received
<1>9. ASSUME NEW c \in deployed, Ack(c) PROVE BusInv'
  <2> DEFINE e == Head(batch[c])
             p == Among(mem.pending, Entries \ {e})
  <2>1. /\ batch[c] # <<>> /\ batch' = After(c)
        /\ mem' = [mem EXCEPT !.pending = p]
        /\ red' = [red EXCEPT !.owner[e] = NoOne]
        /\ idle' = [b \in Transports |-> idle[b] \ {e}]
        /\ UNCHANGED <<world, joined, tail, kept, last, given, nacks, lost>>
    BY <1>9 DEF Ack
  <2>2. /\ e \in Entries /\ batch' \in [Consumers -> Seq(Entries)]
        /\ \A d \in Consumers : ToSet(batch'[d]) \subseteq ToSet(batch[d])
    BY <2>1, <1>1, <1>2, NextOfBatch
  <2>3. /\ p \in Seq(Entries) /\ ToSet(p) \subseteq ToSet(mem.pending)
        /\ IsInjective(mem.pending) => IsInjective(p)
    <3>1. /\ p \in Seq(Entries) /\ ToSet(p) = ToSet(mem.pending) \cap (Entries \ {e})
          /\ IsInjective(mem.pending) => IsInjective(p)
      BY <1>2, AmongKeeps
    <3> HIDE DEF p, e
    <3> QED
      BY <3>1
  <2> HIDE DEF e, p
  <2>4. /\ mem' \in MemStates /\ mem'.cursor = mem.cursor /\ mem'.pending = p
        /\ mem'.retry = mem.retry /\ mem'.count = mem.count
    BY <2>1, <2>3, <1>3 DEF MemStates
  <2>5. /\ red' \in RedStates /\ red'.cursor = red.cursor /\ red'.count = red.count
        /\ red'.owner = [red.owner EXCEPT ![e] = NoOne]
    <3>1. [red.owner EXCEPT ![e] = NoOne] \in [Entries -> deployed \cup {NoOne}]
      BY <1>2
    <3>2. red' = [red EXCEPT !.owner = [red.owner EXCEPT ![e] = NoOne]]
      BY <2>1, <1>3 DEF RedStates
    <3> QED
      BY <3>1, <3>2, <1>3 DEF RedStates
  <2>6. RedPending' = RedPending \ {e}
    BY <2>2, <2>5, <1>2 DEF RedPending, PendingIn
  <2>7. idle' \in [Transports -> SUBSET Entries] /\ idle'["redis"] = idle["redis"] \ {e}
    BY <2>1, <1>3 DEF Transports
  <2>8. Shape'
    BY <2>1, <2>2, <2>4, <2>5, <2>7, <1>1 DEF Shape, MemStates, RedStates, world
  <2>9. IsInjective(p \o mem.retry)
        /\ ToSet(p \o mem.retry) \subseteq ToSet(mem.pending \o mem.retry)
    <3>1. IsInjective(mem.pending \o mem.retry)
      BY <1>1 DEF Places
    <3>2. /\ IsInjective(mem.pending) /\ IsInjective(mem.retry)
          /\ ToSet(mem.pending) \cap ToSet(mem.retry) = {}
          /\ ToSet(mem.pending \o mem.retry) = ToSet(mem.pending) \cup ToSet(mem.retry)
      BY <3>1, <1>2, Joining
    <3>3. ToSet(p) \cap ToSet(mem.retry) = {} /\ IsInjective(p)
      BY <3>2, <2>3
    <3>4. IsInjective(p \o mem.retry) /\ ToSet(p \o mem.retry) = ToSet(p) \cup ToSet(mem.retry)
      BY <3>2, <3>3, <2>3, <1>2, Joining
    <3> QED
      BY <3>2, <3>4, <2>3
  <2>10. Kept(idle.redis)' \subseteq RedPending'
    BY <2>1, <2>6, <2>7, <1>1 DEF Places, Kept
  <2>11. Places'
    BY <2>1, <2>4, <2>5, <2>6, <2>9, <2>10, <1>1 DEF Places, world, OnMemory, OnRedis
  <2>12. Counted' /\ Held'
    BY <2>1, <2>2, <2>4, <2>5, <1>1 DEF Counted, Held, world
  <2> QED
    BY <2>8, <2>11, <2>12 DEF BusInv
<1>10. ASSUME NEW c \in deployed, Nack(c) PROVE BusInv'
  <2> DEFINE e == Head(batch[c])
             p == Among(mem.pending, Entries \ {e})
             q == Append(mem.retry, e)
  <2>1. /\ batch[c] # <<>> /\ batch' = After(c) /\ nacks < MaxNacks /\ nacks' = nacks + 1
        /\ mem' = (IF e \in ToSet(mem.pending)
                   THEN [mem EXCEPT !.pending = p, !.retry = q] ELSE mem)
        /\ idle' = [idle EXCEPT !.memory = @ \ {e}]
        /\ UNCHANGED <<world, joined, tail, kept, red, last, given, lost>>
    BY <1>10 DEF Nack
  <2>2. /\ e \in Entries /\ batch' \in [Consumers -> Seq(Entries)]
        /\ \A d \in Consumers : ToSet(batch'[d]) \subseteq ToSet(batch[d])
    BY <2>1, <1>1, <1>2, NextOfBatch
  <2>3. /\ p \in Seq(Entries) /\ ToSet(p) = ToSet(mem.pending) \cap (Entries \ {e})
        /\ IsInjective(mem.pending) => IsInjective(p)
        /\ ToSet(mem.pending) \subseteq Entries
    BY <1>2, AmongKeeps, HoldsOf
  <2>4. /\ q \in Seq(Entries) /\ q = mem.retry \o <<e>> /\ <<e>> \in Seq(Entries)
        /\ ToSet(<<e>>) = {e} /\ IsInjective(<<e>>)
    <3> HIDE DEF e, p
    <3>1. <<e>> \in Seq(Entries) /\ ToSet(<<e>>) = {e} /\ IsInjective(<<e>>)
      BY <2>2 DEF ToSet, IsInjective
    <3> QED
      BY <3>1, <2>2, <1>2, AppendIsConcat, AppendProperties
  <2> HIDE DEF e, p, q
  <2>5. /\ mem' \in MemStates /\ mem'.cursor = mem.cursor /\ mem'.count = mem.count
        /\ mem'.pending = (IF e \in ToSet(mem.pending) THEN p ELSE mem.pending)
        /\ mem'.retry = (IF e \in ToSet(mem.pending) THEN q ELSE mem.retry)
    BY <2>1, <2>3, <2>4, <1>3 DEF MemStates
  <2>6. /\ IsInjective(mem'.pending \o mem'.retry)
        /\ ToSet(mem'.pending \o mem'.retry) = ToSet(mem.pending \o mem.retry)
    <3>0. IsInjective(mem.pending \o mem.retry)
      BY <1>1 DEF Places
    <3>1. CASE e \notin ToSet(mem.pending)
      BY <3>0, <3>1, <2>5
    <3>2. CASE e \in ToSet(mem.pending)
      <4>1. /\ IsInjective(mem.pending) /\ IsInjective(mem.retry)
            /\ ToSet(mem.pending) \cap ToSet(mem.retry) = {}
            /\ ToSet(mem.pending \o mem.retry) = ToSet(mem.pending) \cup ToSet(mem.retry)
        BY <3>0, <1>2, Joining
      <4>2. ToSet(mem.retry) \cap ToSet(<<e>>) = {}
        BY <3>2, <4>1, <2>4
      <4>3. IsInjective(mem.retry \o <<e>>)
            /\ ToSet(mem.retry \o <<e>>) = ToSet(mem.retry) \cup ToSet(<<e>>)
        BY <4>1, <4>2, <2>4, <1>2, Joining
      <4>4. IsInjective(q) /\ ToSet(q) = ToSet(mem.retry) \cup {e}
        BY <4>3, <2>4
      <4>5. ToSet(p) \cap ToSet(q) = {}
            /\ ToSet(p) \cup ToSet(q) = ToSet(mem.pending) \cup ToSet(mem.retry)
        BY <4>1, <4>4, <3>2, <2>3
      <4>6. IsInjective(p)
        BY <4>1, <2>3
      <4>7. IsInjective(p \o q) /\ ToSet(p \o q) = ToSet(p) \cup ToSet(q)
        <5>1. /\ p \in Seq(Entries) /\ q \in Seq(Entries) /\ IsInjective(p) /\ IsInjective(q)
              /\ ToSet(p) \cap ToSet(q) = {}
          BY <4>4, <4>5, <4>6, <2>3, <2>4
        <5> QED
          BY ONLY <5>1, Joining
      <4> QED
        BY <4>1, <4>5, <4>7, <3>2, <2>5
    <3> QED
      BY <3>1, <3>2
  <2>7. idle' \in [Transports -> SUBSET Entries] /\ idle'["redis"] = idle["redis"]
    BY <2>1, <1>3 DEF Transports
  <2>8. nacks' \in 0 .. MaxNacks
    BY <2>1, <1>3
  <2>9. Shape'
    BY <2>1, <2>2, <2>5, <2>7, <2>8, <1>1 DEF Shape, MemStates, RedStates, world
  <2>10. RedPending' = RedPending /\ Kept(idle.redis)' = Kept(idle.redis)
    BY <2>1, <2>7 DEF RedPending, PendingIn, Kept
  <2>11. Places'
    BY <2>1, <2>5, <2>6, <2>10, <1>1 DEF Places, world, OnMemory, OnRedis
  <2>12. Counted' /\ Held'
    BY <2>1, <2>2, <2>5, <1>1 DEF Counted, Held, world
  <2> QED
    BY <2>9, <2>11, <2>12 DEF BusInv
<1>11. ASSUME NEW c \in deployed, Drop(c) PROVE BusInv'
  <2>1. /\ lost < MaxLost /\ lost' = lost + 1 /\ batch' = [batch EXCEPT ![c] = <<>>]
        /\ UNCHANGED <<world, joined, tail, kept, mem, red, last, given, idle, nacks>>
    BY <1>11 DEF Drop
  <2>2. lost' \in 0 .. MaxLost
    BY <2>1, <1>3
  <2>3. /\ batch' \in [Consumers -> Seq(Entries)]
        /\ \A d \in Consumers : ToSet(batch'[d]) \subseteq ToSet(batch[d])
    <3>1. <<>> \in Seq(Entries) /\ ToSet(<<>>) = {}
      BY EmptySeq DEF ToSet
    <3>2. \A d \in Consumers : batch'[d] = IF d = c THEN <<>> ELSE batch[d]
      BY <2>1, <1>3
    <3> QED
      BY <2>1, <3>1, <3>2, <1>3
  <2>4. Shape'
    BY <2>1, <2>2, <2>3, <1>1 DEF Shape, MemStates, RedStates, world
  <2>5. Places'
    BY <2>1, <1>1 DEF Places, RedPending, PendingIn, Kept, world, OnMemory, OnRedis
  <2>6. Counted' /\ Held'
    BY <2>1, <2>3, <1>1 DEF Counted, Held, world
  <2> QED
    BY <2>4, <2>5, <2>6 DEF BusInv
<1>12. CASE UNCHANGED vars
  <2>1. Shape' /\ Places' /\ Counted' /\ Held'
    BY <1>1, <1>12 DEF vars, world, Shape, MemStates, RedStates, Places, RedPending, PendingIn,
       Kept, OnMemory, OnRedis, Counted, Held
  <2> QED
    BY <2>1 DEF BusInv
<1> QED
  BY <1>4, <1>5, <1>6, <1>7, <1>8, <1>9, <1>10, <1>11, <1>12 DEF Next

\* The invariant the other theorems rest on: both transports keep every entry in one
\* place, count every delivery, and give run_once nothing they did not deliver.
THEOREM BusInvariant == Spec => []BusInv
<1>1. BusInv /\ [Next]_vars => BusInv'
  BY NextBusInv
<1> QED
  BY InitBusInv, <1>1, PTL DEF Spec

\* memory.py:33-56, redis.py: what the state of the two buses holds, for every number
\* of consumers, entries and faults: in _Group nothing is pending or queued twice,
\* or before the group read it.
THEOREM BusTypes == Spec => []TypeOK
<1>1. BusInv => TypeOK
  <2> SUFFICES ASSUME BusInv PROVE TypeOK
    OBVIOUS
  <2>1. Shape /\ Places /\ Held
    BY DEF BusInv
  <2>2. used \subseteq Transports /\ \A b \in Transports : idle[b] \subseteq Entries
    BY <2>1 DEF Shape, Transports
  <2> QED
    BY <2>1, <2>2, Parts DEF TypeOK, Shape, Places, Held
<1> QED
  BY BusInvariant, <1>1, PTL

-----------------------------------------------------------------------------
(* The counts.                                                             *)

\* The case in which RedisBus counts exactly.
Exact == Sole(deployed) /\ lost = 0 /\ rank = [e \in Entries |-> e]

\* A call that claims answers with honest counts.
LEMMA ReceivedCounts ==
  ASSUME BusInv, NEW c, NEW m, NEW mA, NEW r, NEW rA,
         Receive(c, m, mA, r, rA), MemStep(m, mA), RedStep(r, rA), UNCHANGED world,
         Exact' => \A i \in DOMAIN rA : rA[i].count = red.count[rA[i].entry] + 1
  PROVE  CountsHonest'
<1>1. Shape /\ Places /\ Counted
  BY DEF BusInv
<1>2. /\ OnMemory => last'["memory"] = mA
      /\ OnRedis => last'["redis"] = rA
  BY <1>1, ReceivedIs
<1>3. \A b \in Transports : \A e \in Entries :
        given'[b][e] = IF e \in ToSet(EntriesOf(last'[b])) THEN given[b][e] + 1 ELSE given[b][e]
  BY <1>1, GivenIs
<1>4. used' = used /\ used \subseteq Transports
      /\ (Sole(deployed) /\ lost' = 0 /\ rank = [e \in Entries |-> e] => Exact')
  BY <1>1 DEF world, Shape, Transports, Exact, Sole
<1>5. ASSUME OnMemory, NEW i \in DOMAIN mA
      PROVE  mA[i].count = given'["memory"][mA[i].entry]
  <2>1. mA \in Seq(Deliveries) /\ mA[i].count = mem.count[mA[i].entry] + 1
    BY <1>5 DEF MemStep
  <2>2. mA[i].entry \in ToSet(EntriesOf(mA)) /\ mA[i].entry \in Entries
    BY <2>1, <1>5, AnswerHolds
  <2>3. given'["memory"][mA[i].entry] = given["memory"][mA[i].entry] + 1
    BY <2>2, <1>2, <1>3, <1>5 DEF Transports
  <2>4. mem.count[mA[i].entry] = given["memory"][mA[i].entry]
    BY <2>2, <1>1 DEF Counted
  <2> QED
    BY <2>1, <2>3, <2>4
<1>6. ASSUME OnRedis, NEW i \in DOMAIN rA
      PROVE  /\ rA[i].count = given'["redis"][rA[i].entry]
                  \/ rA[i].count < given'["redis"][rA[i].entry]
             /\ Exact' => rA[i].count = given'["redis"][rA[i].entry]
  <2>1. rA \in Seq(Deliveries) /\ rA[i].count <= red.count[rA[i].entry] + 1
    BY <1>6 DEF RedStep
  <2>2. rA[i].entry \in ToSet(EntriesOf(rA)) /\ rA[i].entry \in Entries
    BY <2>1, <1>6, AnswerHolds
  <2>3. given'["redis"][rA[i].entry] = given["redis"][rA[i].entry] + 1
    BY <2>2, <1>2, <1>3, <1>6 DEF Transports
  <2>4. red.count[rA[i].entry] = given["redis"][rA[i].entry] /\ red.count[rA[i].entry] \in Nat
    BY <2>2, <1>1, Parts DEF Counted
  <2>5. rA[i].count \in Nat
    <3>1. rA[i] \in Deliveries
      BY <2>1, <1>6, LenProperties, ElementOfSeq
    <3> QED
      BY <3>1 DEF Deliveries
  <2>6. given'["redis"][rA[i].entry] = red.count[rA[i].entry] + 1
    BY <2>3, <2>4
  <2>7. Exact' => rA[i].count = red.count[rA[i].entry] + 1
    BY <1>6
  <2> QED
    BY <2>1, <2>4, <2>5, <2>6, <2>7
<1>7. ASSUME NEW b \in used', NEW i \in DOMAIN last'[b]
      PROVE  \/ last'[b][i].count = given'[b][last'[b][i].entry]
             \/ /\ ~(b = "memory" \/ Exact')
                /\ last'[b][i].count < given'[b][last'[b][i].entry]
  <2>1. CASE b = "memory"
    <3>1. OnMemory /\ last'[b] = mA
      BY <2>1, <1>2, <1>4, <1>7 DEF OnMemory
    <3> QED
      BY <2>1, <3>1, <1>5, <1>7
  <2>2. CASE b = "redis"
    <3>1. OnRedis /\ last'[b] = rA
      BY <2>2, <1>2, <1>4, <1>7 DEF OnRedis
    <3>2. b # "memory"
      BY <2>2
    <3> QED
      BY <2>2, <3>1, <3>2, <1>6, <1>7
  <2> QED
    BY <2>1, <2>2, <1>4, <1>7 DEF Transports
<1> QED
  BY <1>7 DEF CountsHonest, Exact

\* A step that answers nothing leaves the answers as honest as they were.
LEMMA CountsStay ==
  ASSUME CountsHonest, UNCHANGED <<world, last, given>>, lost' = 0 => lost = 0
  PROVE  CountsHonest'
<1>1. Exact' => Exact
  BY DEF Exact, world, Sole
<1>2. ASSUME NEW b \in used, NEW i \in DOMAIN last[b]
      PROVE  \/ last[b][i].count = given[b][last[b][i].entry]
             \/ ~(b = "memory" \/ Exact) /\ last[b][i].count < given[b][last[b][i].entry]
  BY <1>2 DEF CountsHonest, Exact
<1>3. used' = used /\ last' = last /\ given' = given
  BY DEF world
<1>4. \A b \in used' : \A i \in DOMAIN last'[b] :
        \/ last'[b][i].count = given'[b][last'[b][i].entry]
        \/ ~(b = "memory" \/ Exact') /\ last'[b][i].count < given'[b][last'[b][i].entry]
  BY <1>1, <1>2, <1>3
<1> QED
  BY <1>4 DEF CountsHonest, Exact

\* redis.py:276-294, in that case: a claim of the consumer's own entries counts what
\* the pending list counted, and a new entry is delivered once.
LEMMA SubscribeCounts ==
  ASSUME Shape, Places, Counted, NEW c \in deployed, Exact
  PROVE  \A i \in DOMAIN RedAnswer(c) :
           RedAnswer(c)[i].count = red.count[RedAnswer(c)[i].entry] + 1
<1>1. /\ OwnAnswer(c) \in Seq(Deliveries) /\ NewAnswer(c) \in Seq(Deliveries)
      /\ RedAnswer(c) = OwnAnswer(c) \o NewAnswer(c)
      /\ \A i \in DOMAIN OwnAnswer(c) :
           /\ OwnAnswer(c)[i].entry \in Kept(Own(c))
           /\ OwnAnswer(c)[i].count = Reported(Own(c), PendingIn(Claimed(c, Own(c))),
                                               Claimed(c, Own(c)).count, OwnAnswer(c)[i].entry)
      /\ \A i \in DOMAIN NewAnswer(c) :
           NewAnswer(c)[i].entry \in RedNew(c) /\ NewAnswer(c)[i].count = 1
  BY RedAnswering
<1>2. \A i \in DOMAIN OwnAnswer(c) :
        OwnAnswer(c)[i].count = red.count[OwnAnswer(c)[i].entry] + 1
  BY <1>1, ExactCounts DEF Exact
<1>3. \A e \in RedNew(c) : red.count[e] = 0
  <2>1. /\ RedNew(c) = Through(red.cursor) + 1 .. Through(red.cursor) + NewRead(c)
        /\ RedNew(c) \in SUBSET Entries /\ red.cursor <= Through(red.cursor)
        /\ Through(red.cursor) \in 0 .. tail /\ NewRead(c) \in Nat
    BY RedReading
  <2>2. red.cursor \in 0 .. tail /\ tail \in Nat
    BY Parts
  <2>3. \A e \in RedNew(c) : red.cursor < e /\ e \in Entries
    BY <2>1, <2>2
  <2> QED
    BY <2>3 DEF Counted
<1>4. \A i \in DOMAIN NewAnswer(c) :
        NewAnswer(c)[i].count = red.count[NewAnswer(c)[i].entry] + 1
  BY <1>1, <1>3
<1>5. \A i \in DOMAIN (OwnAnswer(c) \o NewAnswer(c)) :
        \/ \E j \in DOMAIN OwnAnswer(c) : (OwnAnswer(c) \o NewAnswer(c))[i] = OwnAnswer(c)[j]
        \/ \E j \in DOMAIN NewAnswer(c) : (OwnAnswer(c) \o NewAnswer(c))[i] = NewAnswer(c)[j]
  BY <1>1, AnswersJoined
<1>6. \A i \in DOMAIN RedAnswer(c) :
        \/ \E j \in DOMAIN OwnAnswer(c) : RedAnswer(c)[i] = OwnAnswer(c)[j]
        \/ \E j \in DOMAIN NewAnswer(c) : RedAnswer(c)[i] = NewAnswer(c)[j]
  BY <1>1, <1>5
<1> QED
  BY <1>2, <1>4, <1>6

\* Only a claim answers, and only a step that loses or reclaims something leaves the
\* case of exact counts.
LEMMA NextCounts ==
  ASSUME BusInv, CountsHonest, [Next]_vars
  PROVE  CountsHonest'
<1>1. Shape /\ Places /\ Counted /\ lost \in Nat
  <2>1. MaxLost \in Nat
    BY BusConstants
  <2> QED
    BY <2>1 DEF BusInv, Shape
<1>2. CASE Publish
  BY <1>2, CountsStay DEF Publish
<1>3. CASE CreateGroup
  BY <1>3, CountsStay DEF CreateGroup
<1>4. CASE Wait
  BY <1>4, CountsStay DEF Wait
<1>5. ASSUME NEW c \in deployed, Subscribe(c) PROVE CountsHonest'
  <2>1. /\ Receive(c, MemSubscribed, MemAnswer, RedSubscribed(c), RedAnswer(c))
        /\ UNCHANGED <<world, lost>>
    BY <1>5 DEF Subscribe, world
  <2>2. MemStep(MemSubscribed, MemAnswer) /\ RedStep(RedSubscribed(c), RedAnswer(c))
    BY <1>1, MemSubscribing, RedSubscribing
  <2>3. Exact => \A i \in DOMAIN RedAnswer(c) :
                   RedAnswer(c)[i].count = red.count[RedAnswer(c)[i].entry] + 1
    BY <1>1, SubscribeCounts
  <2>4. Exact' => Exact
    BY <2>1 DEF Exact, world, Sole
  <2> QED
    BY <2>1, <2>2, <2>3, <2>4, ReceivedCounts DEF world
<1>6. ASSUME NEW c \in deployed, Reclaim(c) PROVE CountsHonest'
  <2>1. /\ Receive(c, MemReclaimed, MemReclaimAnswer, Claimed(c, idle.redis), RedReclaimAnswer(c))
        /\ UNCHANGED world /\ lost' = lost + 1
    BY <1>6 DEF Reclaim
  <2>2. MemStep(MemReclaimed, MemReclaimAnswer)
        /\ RedStep(Claimed(c, idle.redis), RedReclaimAnswer(c))
    BY <1>1, MemReclaiming, RedReclaiming
  <2>3. ~Exact'
    BY <2>1, <1>1 DEF Exact
  <2> QED
    BY <2>1, <2>2, <2>3, ReceivedCounts
<1>7. ASSUME NEW c \in deployed, Ack(c) PROVE CountsHonest'
  BY <1>7, CountsStay DEF Ack
<1>8. ASSUME NEW c \in deployed, Nack(c) PROVE CountsHonest'
  BY <1>8, CountsStay DEF Nack
<1>9. ASSUME NEW c \in deployed, Drop(c) PROVE CountsHonest'
  BY <1>1, <1>9, CountsStay DEF Drop
<1>10. CASE UNCHANGED vars
  BY <1>10, CountsStay DEF vars, world
<1> QED
  BY <1>2, <1>3, <1>4, <1>5, <1>6, <1>7, <1>8, <1>9, <1>10 DEF Next

\* base.py:13: the delivery count that decides over poison is never too large, and it
\* is exact in memory.py always, in redis.py:276-294 in the case it is written for.
THEOREM HonestCounts == Spec => []CountsHonest
<1>1. Init => CountsHonest
  <2> SUFFICES ASSUME Init PROVE CountsHonest
    OBVIOUS
  <2>1. used \subseteq Transports /\ last = [b \in Transports |-> <<>>]
    BY DEF Init, Transports
  <2>2. \A b \in used : DOMAIN last[b] = {}
    BY <2>1
  <2> QED
    BY <2>2 DEF CountsHonest
<1>2. BusInv /\ CountsHonest /\ [Next]_vars => CountsHonest'
  BY NextCounts
<1> QED
  BY BusInvariant, <1>1, <1>2, PTL DEF Spec

-----------------------------------------------------------------------------
(* The refinement.                                                         *)

\* The outstanding entries of a claim of InMemoryBus, and of RedisBus.
LEMMA MemDelivers ==
  ASSUME Shape, Places, NEW m, NEW a, MemStep(m, a)
  PROVE  \/ /\ m.cursor \in mem.cursor + 1 .. tail
            /\ ToSet(m.pending \o m.retry)
                 = ToSet(mem.pending \o mem.retry) \cup (mem.cursor + 1 .. m.cursor)
         \/ /\ m.cursor = mem.cursor
            /\ ToSet(m.pending \o m.retry) = ToSet(mem.pending \o mem.retry)
<1>1. /\ m.cursor \in mem.cursor .. tail /\ mem.cursor \in 0 .. tail /\ tail \in Nat
      /\ ToSet(m.pending \o m.retry)
           = ToSet(mem.pending \o mem.retry) \cup (mem.cursor + 1 .. m.cursor)
  BY Parts DEF MemStep
<1>2. CASE m.cursor = mem.cursor
  <2>1. mem.cursor + 1 .. m.cursor = {}
    BY <1>1, <1>2
  <2> QED
    BY <2>1, <1>1, <1>2
<1>3. CASE m.cursor # mem.cursor
  BY <1>1, <1>3
<1> QED
  BY <1>2, <1>3

\* The same of RedisBus, where the contract's cursor is where the group is through.
LEMMA RedDelivers ==
  ASSUME Shape, Places, NEW r, NEW a, RedStep(r, a)
  PROVE  \/ /\ Through(r.cursor) \in Through(red.cursor) + 1 .. tail
            /\ Kept(PendingIn(r))
                 = Kept(RedPending) \cup (Through(red.cursor) + 1 .. Through(r.cursor))
         \/ /\ Through(r.cursor) = Through(red.cursor)
            /\ Kept(PendingIn(r)) = Kept(RedPending)
<1>1. /\ r.cursor \in red.cursor .. tail /\ red.cursor \in 0 .. tail /\ tail \in Nat
      /\ kept \in Nat /\ kept <= tail + 1
      /\ Kept(PendingIn(r)) = Kept(RedPending) \cup (Through(red.cursor) + 1 .. Through(r.cursor))
  BY Parts DEF RedStep
<1>2. /\ Through(red.cursor) = (IF red.cursor <= kept - 1 THEN kept - 1 ELSE red.cursor)
      /\ Through(r.cursor) = (IF r.cursor <= kept - 1 THEN kept - 1 ELSE r.cursor)
  <2>1. red.cursor \in Int /\ r.cursor \in Int /\ kept - 1 \in Int
    BY <1>1
  <2> QED
    BY <2>1, LargerOfTwo DEF Through
<1>3. Through(red.cursor) \in Int /\ Through(r.cursor) \in Through(red.cursor) .. tail
  BY <1>1, <1>2
<1> HIDE DEF Through
<1>4. CASE Through(r.cursor) = Through(red.cursor)
  <2>1. Through(red.cursor) + 1 .. Through(r.cursor) = {}
    BY <1>3, <1>4
  <2> QED
    BY <2>1, <1>1, <1>4
<1>5. CASE Through(r.cursor) # Through(red.cursor)
  <2>1. Through(r.cursor) \in Through(red.cursor) + 1 .. tail
    BY <1>1, <1>3, <1>5
  <2> QED
    BY <2>1, <1>1
<1> QED
  BY <1>4, <1>5

\* Both mappings begin where the contract begins.
LEMMA ContractsBegin ==
  Init => InMemory!BoundedInit /\ OverRedis!BoundedInit
<1> SUFFICES ASSUME Init PROVE InMemory!BoundedInit /\ OverRedis!BoundedInit
  OBVIOUS
<1>1. joined = FALSE /\ tail = 0
  BY DEF Init
<1>2. N \in Nat /\ limit \in Nat
  <2>1. limit \in Limits
    BY DEF Init
  <2> QED
    BY <2>1, BusConstants DEF Entries
<1>3. mem.cursor = 0 /\ mem.pending = <<>> /\ mem.retry = <<>>
  BY DEF Init
<1>4. ToSet(mem.pending \o mem.retry) = {}
  <2>1. <<>> \o <<>> = <<>> /\ DOMAIN <<>> = {}
    BY EmptySeq, ConcatEmptySeq
  <2> QED
    BY <2>1, <1>3 DEF ToSet
<1>5. Kept(RedPending) = {}
  <2>1. red.owner = [e \in Entries |-> NoOne]
    BY DEF Init
  <2> QED
    BY <2>1 DEF RedPending, PendingIn, Kept
<1>6. InMemory!BoundedInit
  BY <1>1, <1>2, <1>3, <1>4 DEF InMemory!BoundedInit, InMemory!Init
<1>7. OverRedis!BoundedInit
  BY <1>1, <1>2, <1>5 DEF OverRedis!BoundedInit, OverRedis!Init
<1> QED
  BY <1>6, <1>7

\* Every step of InMemoryBus is one of the contract's, or none.
LEMMA MemoryKeepsContract ==
  ASSUME BusInv, [Next]_vars
  PROVE  InMemory!BoundedNext \/ UNCHANGED <<InMemory!vars, N>>
<1>1. Shape /\ Places
  BY DEF BusInv
<1>2. /\ mem.pending \in Seq(Entries) /\ mem.retry \in Seq(Entries) /\ mem.cursor \in 0 .. tail
      /\ mem \in MemStates /\ tail \in Nat
  BY <1>1, Parts DEF Shape
<1> DEFINE out == ToSet(mem.pending \o mem.retry)
<1>3. CASE Publish
  <2>1. tail' = tail + 1 /\ UNCHANGED <<used, joined, mem>>
    BY <1>3 DEF Publish, world
  <2>2. CASE OnMemory
    <3>1. InMemory!Publish
      BY <2>1, <2>2 DEF InMemory!Publish, OnMemory
    <3> QED
      BY <3>1 DEF InMemory!BoundedNext
  <2>3. CASE ~OnMemory
    BY <2>1, <2>3 DEF InMemory!vars, OnMemory
  <2> QED
    BY <2>2, <2>3
<1>4. CASE CreateGroup
  <2>1. /\ ~joined /\ joined' = TRUE /\ UNCHANGED <<used, tail>>
        /\ mem' = (IF OnMemory THEN [mem EXCEPT !.cursor = tail] ELSE mem)
    BY <1>4 DEF CreateGroup, world
  <2>2. CASE OnMemory
    <3>1. mem'.cursor = tail /\ mem'.pending = mem.pending /\ mem'.retry = mem.retry
      BY <2>1, <2>2, <1>2 DEF MemStates
    <3>2. InMemory!Join
      BY <2>1, <2>2, <3>1 DEF InMemory!Join, OnMemory
    <3> QED
      BY <3>2 DEF InMemory!BoundedNext
  <2>3. CASE ~OnMemory
    BY <2>1, <2>3 DEF InMemory!vars, OnMemory
  <2> QED
    BY <2>2, <2>3
<1>5. CASE Wait
  BY <1>5 DEF Wait, InMemory!vars, OnMemory, world
<1>6. ASSUME NEW c, NEW m, NEW mA, NEW r, NEW rA, joined,
             Receive(c, m, mA, r, rA), MemStep(m, mA), RedStep(r, rA),
             UNCHANGED <<used, joined, tail>>
      PROVE  InMemory!BoundedNext \/ UNCHANGED <<InMemory!vars, N>>
  <2>1. MemStep(mem', last'["memory"]) /\ (~OnMemory => mem' = mem)
    BY <1>1, <1>6, ReceivedIs
  <2>2. PICK p, a : p = mem' /\ a = last'["memory"]
    OBVIOUS
  <2>3. MemStep(p, a)
    BY <2>1, <2>2 DEF MemStep
  <2>4. CASE /\ p.cursor \in mem.cursor + 1 .. tail
             /\ ToSet(p.pending \o p.retry) = out \cup (mem.cursor + 1 .. p.cursor)
             /\ OnMemory
    <3>1. InMemory!Deliver
      BY <2>2, <2>4, <1>6 DEF InMemory!Deliver, OnMemory
    <3> QED
      BY <3>1 DEF InMemory!BoundedNext
  <2>5. CASE p.cursor = mem.cursor /\ ToSet(p.pending \o p.retry) = out
    BY <2>2, <2>5, <1>6 DEF InMemory!vars, OnMemory
  <2>6. CASE ~OnMemory
    BY <2>1, <2>6, <1>6 DEF InMemory!vars, OnMemory
  <2> QED
    BY <2>3, <2>4, <2>5, <2>6, <1>1, MemDelivers
<1>7. ASSUME NEW c \in deployed, Subscribe(c)
      PROVE  InMemory!BoundedNext \/ UNCHANGED <<InMemory!vars, N>>
  <2>1. /\ joined /\ Receive(c, MemSubscribed, MemAnswer, RedSubscribed(c), RedAnswer(c))
        /\ UNCHANGED <<used, joined, tail>>
    BY <1>7 DEF Subscribe, world
  <2>2. MemStep(MemSubscribed, MemAnswer) /\ RedStep(RedSubscribed(c), RedAnswer(c))
    BY <1>1, MemSubscribing, RedSubscribing DEF BusInv
  <2> QED
    BY <2>1, <2>2, <1>6
<1>8. ASSUME NEW c \in deployed, Reclaim(c)
      PROVE  InMemory!BoundedNext \/ UNCHANGED <<InMemory!vars, N>>
  <2>1. /\ joined /\ UNCHANGED <<used, joined, tail>>
        /\ Receive(c, MemReclaimed, MemReclaimAnswer, Claimed(c, idle.redis), RedReclaimAnswer(c))
    BY <1>8 DEF Reclaim, world
  <2>2. MemStep(MemReclaimed, MemReclaimAnswer)
        /\ RedStep(Claimed(c, idle.redis), RedReclaimAnswer(c))
    BY <1>1, MemReclaiming, RedReclaiming
  <2> QED
    BY <2>1, <2>2, <1>6
<1>9. ASSUME NEW c \in deployed, NEW e, NEW q, mem' \in MemStates,
             mem'.cursor = mem.cursor, mem'.pending = Among(mem.pending, Entries \ {e}),
             mem'.retry = q, q \in Seq(Entries), UNCHANGED <<used, joined, tail>>
      PROVE  ToSet(mem'.pending \o mem'.retry) = (ToSet(mem.pending) \ {e}) \cup ToSet(q)
  <2>1. /\ Among(mem.pending, Entries \ {e}) \in Seq(Entries)
        /\ ToSet(Among(mem.pending, Entries \ {e})) = ToSet(mem.pending) \cap (Entries \ {e})
        /\ ToSet(mem.pending) \subseteq Entries
    BY <1>2, AmongKeeps, HoldsOf
  <2>2. PICK a \in Seq(Entries) : a = mem'.pending /\ ToSet(a) = ToSet(mem.pending) \ {e}
    BY <2>1, <1>9
  <2>3. ToSet(a \o q) = ToSet(a) \cup ToSet(q)
    BY <1>9, Joining
  <2> QED
    BY <2>2, <2>3, <1>9
<1>10. out = ToSet(mem.pending) \cup ToSet(mem.retry)
       /\ ToSet(mem.pending) \cap ToSet(mem.retry) = {}
  <2>1. IsInjective(mem.pending \o mem.retry)
    BY <1>1 DEF Places
  <2> QED
    BY <2>1, <1>2, Joining
<1>11. ASSUME NEW c \in deployed, Ack(c)
       PROVE  InMemory!BoundedNext \/ UNCHANGED <<InMemory!vars, N>>
  <2> DEFINE e == Head(batch[c])
  <2>1. /\ batch[c] # <<>> /\ mem' = [mem EXCEPT !.pending = Among(mem.pending, Entries \ {e})]
        /\ UNCHANGED <<used, joined, tail>>
    BY <1>11 DEF Ack, world
  <2>2. PICK f : f = e
    OBVIOUS
  <2> HIDE DEF e
  <2>3. /\ mem' \in MemStates /\ mem'.cursor = mem.cursor /\ mem'.retry = mem.retry
        /\ mem'.pending = Among(mem.pending, Entries \ {f})
    <3>1. Among(mem.pending, Entries \ {f}) \in Seq(Entries)
      BY <1>2, AmongKeeps
    <3> QED
      BY <3>1, <2>1, <2>2, <1>2 DEF MemStates
  <2>4. ToSet(mem'.pending \o mem'.retry) = (ToSet(mem.pending) \ {f}) \cup ToSet(mem.retry)
    BY <2>1, <2>3, <1>2, <1>9
  <2>5. CASE f \in ToSet(mem.pending)
    <3>1. f \in out /\ ToSet(mem'.pending \o mem'.retry) = out \ {f}
      BY <2>4, <2>5, <1>10
    <3>2. InMemory!Settle(f)
      BY <3>1, <2>1, <2>3 DEF InMemory!Settle, OnMemory
    <3> QED
      BY <3>1, <3>2 DEF InMemory!BoundedNext
  <2>6. CASE f \notin ToSet(mem.pending)
    <3>1. ToSet(mem'.pending \o mem'.retry) = out
      BY <2>4, <2>6, <1>10
    <3> QED
      BY <3>1, <2>1, <2>3 DEF InMemory!vars, OnMemory
  <2> QED
    BY <2>5, <2>6
<1>12. ASSUME NEW c \in deployed, Nack(c)
       PROVE  UNCHANGED <<InMemory!vars, N>>
  <2> DEFINE e == Head(batch[c])
  <2>1. /\ batch[c] # <<>> /\ UNCHANGED <<used, joined, tail>>
        /\ mem' = (IF e \in ToSet(mem.pending)
                   THEN [mem EXCEPT !.pending = Among(mem.pending, Entries \ {e}),
                                    !.retry = Append(mem.retry, e)]
                   ELSE mem)
    BY <1>12 DEF Nack, world
  <2>2. PICK f : f = e /\ f \in Entries
    BY <2>1, <1>1, NextOfBatch, Parts
  <2> HIDE DEF e
  <2>3. CASE f \notin ToSet(mem.pending)
    BY <2>1, <2>2, <2>3 DEF InMemory!vars, OnMemory
  <2>4. CASE f \in ToSet(mem.pending)
    <3>1. Among(mem.pending, Entries \ {f}) \in Seq(Entries)
          /\ Append(mem.retry, f) \in Seq(Entries)
      BY <2>2, <1>2, AmongKeeps, AppendProperties
    <3>2. /\ mem' \in MemStates /\ mem'.cursor = mem.cursor /\ mem'.retry = Append(mem.retry, f)
          /\ mem'.pending = Among(mem.pending, Entries \ {f})
      BY <3>1, <2>1, <2>2, <2>4, <1>2 DEF MemStates
    <3>3. ToSet(Append(mem.retry, f)) = ToSet(mem.retry) \cup {f}
      <4>1. /\ Append(mem.retry, f) = mem.retry \o <<f>> /\ <<f>> \in Seq(Entries)
            /\ ToSet(<<f>>) = {f}
        BY <2>2, <1>2, AppendIsConcat DEF ToSet
      <4>2. ToSet(mem.retry \o <<f>>) = ToSet(mem.retry) \cup ToSet(<<f>>)
        BY <4>1, <1>2, Joining
      <4> QED
        BY <4>1, <4>2
    <3>4. ToSet(mem'.pending \o mem'.retry)
            = (ToSet(mem.pending) \ {f}) \cup ToSet(Append(mem.retry, f))
      BY <3>1, <3>2, <2>1, <1>9
    <3>5. ToSet(mem'.pending \o mem'.retry) = out
      BY <3>3, <3>4, <2>4, <1>10
    <3> QED
      BY <3>2, <3>5, <2>1 DEF InMemory!vars, OnMemory
  <2> QED
    BY <2>3, <2>4
<1>13. ASSUME NEW c \in deployed, Drop(c) PROVE UNCHANGED <<InMemory!vars, N>>
  BY <1>13 DEF Drop, InMemory!vars, OnMemory, world
<1>14. CASE UNCHANGED vars
  BY <1>14 DEF vars, world, InMemory!vars, OnMemory
<1> QED
  BY <1>3, <1>4, <1>5, <1>7, <1>8, <1>11, <1>12, <1>13, <1>14 DEF Next

\* Every step of RedisBus is one of the contract's over a trimmed stream, or none.
LEMMA RedisKeepsContract ==
  ASSUME BusInv, [Next]_vars
  PROVE  OverRedis!BoundedNext \/ UNCHANGED <<OverRedis!vars, limit>>
<1>1. Shape /\ Places
  BY DEF BusInv
<1>2. /\ red.cursor \in 0 .. tail /\ tail \in Nat /\ kept \in 1 .. N /\ kept <= tail + 1
      /\ red \in RedStates /\ red.owner \in [Entries -> deployed \cup {NoOne}] /\ N \in Nat
  BY <1>1, Parts DEF Shape
<1>3. limit \in 1 .. N
  BY <1>1, BusConstants DEF Shape, Entries
<1>4. ~OnRedis \/ ~joined => red.cursor = 0 /\ RedPending = {}
  <2>1. red.cursor = 0 => 1 .. red.cursor = {}
    OBVIOUS
  <2> QED
    BY <2>1, <1>1 DEF Places
<1>5. Through(red.cursor) = (IF red.cursor <= kept - 1 THEN kept - 1 ELSE red.cursor)
  <2>1. red.cursor \in Int /\ kept - 1 \in Int
    BY <1>2
  <2> QED
    BY <2>1, LargerOfTwo DEF Through
<1>6. CASE Publish
  <2>1. /\ tail' = tail + 1 /\ UNCHANGED <<used, limit, joined, red>>
    BY <1>6 DEF Publish, world
  <2>2. CASE ~OnRedis
    <3>1. Kept(RedPending) = {} /\ Kept(RedPending)' = {}
      BY <2>1, <2>2, <1>4 DEF Kept, RedPending, PendingIn
    <3> QED
      BY <3>1, <2>1, <2>2 DEF OverRedis!vars, OnRedis
  <2>3. CASE OnRedis
    <3>1. PICK k \in kept .. Max({kept, tail + 2 - limit}) : kept' = k
      BY <1>6, <2>3 DEF Publish
    <3>2. Max({kept, tail + 2 - limit})
            = IF kept <= tail + 2 - limit THEN tail + 2 - limit ELSE kept
      <4>1. kept \in Int /\ tail + 2 - limit \in Int
        BY <1>2, <1>3
      <4> QED
        BY <4>1, LargerOfTwo
    <3>3. k \in Int /\ kept <= k /\ (k = kept \/ k <= tail + 2 - limit)
      BY <3>1, <3>2, <1>2, <1>3
    <3>4. Max({red.cursor, k - 1}) = (IF red.cursor <= k - 1 THEN k - 1 ELSE red.cursor)
      <4>1. red.cursor \in Int /\ k - 1 \in Int
        BY <3>3, <1>2
      <4> QED
        BY <4>1, LargerOfTwo
    <3>5. RedPending' = RedPending /\ RedPending \subseteq Entries
      BY <2>1 DEF RedPending, PendingIn
    <3>6. CASE k = kept
      <4>1. Kept(RedPending)' = Kept(RedPending)
        BY <3>1, <3>5, <3>6 DEF Kept
      <4>2. OverRedis!Publish
        BY <4>1, <2>1, <2>3, <3>1, <3>6 DEF OverRedis!Publish, OnRedis
      <4> QED
        BY <4>2, <2>1 DEF OverRedis!BoundedNext
    <3>7. CASE k # kept
      <4> DEFINE n == k - 1
      <4>1. n \in 0 .. tail + 1 - limit
        BY <3>3, <3>7, <1>2, <1>3
      <4>2. Kept(RedPending)' = Kept(RedPending) \ (1 .. n)
        <5>1. \A e \in Entries : k <= e <=> kept <= e /\ e \notin 1 .. n
          BY <3>3, <1>2 DEF Entries
        <5> QED
          BY <5>1, <3>1, <3>5 DEF Kept
      <4>3. joined => Max({red.cursor, k - 1})
                        = IF joined /\ n > Through(red.cursor) THEN n ELSE Through(red.cursor)
        BY <3>3, <3>4, <1>2, <1>5
      <4>4. OverRedis!PublishAndTrim
        <5>1. /\ (IF joined' /\ OnRedis' THEN Max({red'.cursor, kept' - 1}) ELSE 0)
                   = IF joined /\ n > (IF joined /\ OnRedis THEN Max({red.cursor, kept - 1}) ELSE 0)
                     THEN n ELSE (IF joined /\ OnRedis THEN Max({red.cursor, kept - 1}) ELSE 0)
          BY <4>3, <2>1, <2>3, <3>1 DEF Through, OnRedis
        <5> HIDE DEF n
        <5> QED
          BY <5>1, <4>1, <4>2, <2>1, <2>3 DEF OverRedis!PublishAndTrim, OnRedis
      <4> QED
        BY <4>4, <2>1 DEF OverRedis!BoundedNext
    <3> QED
      BY <3>6, <3>7
  <2> QED
    BY <2>2, <2>3
<1>7. CASE CreateGroup
  <2>1. /\ ~joined /\ joined' = TRUE /\ UNCHANGED <<used, limit, tail, kept>>
        /\ red' = (IF OnRedis THEN [red EXCEPT !.cursor = tail] ELSE red)
    BY <1>7 DEF CreateGroup, world
  <2>2. red'.owner = red.owner /\ (OnRedis => red'.cursor = tail)
    BY <2>1, <1>2 DEF RedStates
  <2>3. Kept(RedPending)' = Kept(RedPending)
    BY <2>1, <2>2 DEF Kept, RedPending, PendingIn
  <2>4. CASE OnRedis
    <3>1. Max({tail, kept - 1}) = tail
      <4>1. tail \in Int /\ kept - 1 \in Int /\ kept - 1 <= tail
        BY <1>2
      <4>2. Max({tail, kept - 1}) = IF tail <= kept - 1 THEN kept - 1 ELSE tail
        BY <4>1, LargerOfTwo
      <4> QED
        BY <4>1, <4>2
    <3>2. OverRedis!Join
      BY <3>1, <2>1, <2>2, <2>3, <2>4 DEF OverRedis!Join, OnRedis
    <3> QED
      BY <3>2, <2>1 DEF OverRedis!BoundedNext
  <2>5. CASE ~OnRedis
    BY <2>1, <2>3, <2>5 DEF OverRedis!vars, OnRedis
  <2> QED
    BY <2>4, <2>5
<1>8. ASSUME UNCHANGED <<used, limit, joined, tail, kept, red>>
      PROVE  UNCHANGED <<OverRedis!vars, limit>>
  BY <1>8 DEF OverRedis!vars, OnRedis, Kept, RedPending, PendingIn
<1>9. CASE Wait
  BY <1>8, <1>9 DEF Wait, world
<1>10. ASSUME NEW c, NEW m, NEW mA, NEW r, NEW rA, joined,
              Receive(c, m, mA, r, rA), MemStep(m, mA), RedStep(r, rA),
              UNCHANGED <<used, limit, joined, tail, kept>>
       PROVE  OverRedis!BoundedNext \/ UNCHANGED <<OverRedis!vars, limit>>
  <2>1. RedStep(red', last'["redis"]) /\ (~OnRedis => red' = red)
    BY <1>1, <1>10, ReceivedIs
  <2>2. PICK p, a : p = red' /\ a = last'["redis"]
    OBVIOUS
  <2>3. RedStep(p, a)
    BY <2>1, <2>2 DEF RedStep
  <2>4. Kept(RedPending)' = Kept(PendingIn(p))
    BY <2>2, <1>10 DEF Kept, RedPending, PendingIn
  <2>5. CASE ~OnRedis
    BY <2>1, <2>5, <1>8, <1>10
  <2>6. CASE /\ Through(p.cursor) \in Through(red.cursor) + 1 .. tail
             /\ Kept(PendingIn(p))
                  = Kept(RedPending) \cup (Through(red.cursor) + 1 .. Through(p.cursor))
             /\ OnRedis
    <3>1. /\ Max({red.cursor, kept - 1}) = Through(red.cursor)
          /\ Max({red'.cursor, kept' - 1}) = Through(p.cursor)
      BY <2>2, <1>10 DEF Through
    <3>2. OverRedis!Deliver
      BY <3>1, <2>4, <2>6, <1>10 DEF OverRedis!Deliver, OnRedis
    <3> QED
      BY <3>2, <1>10 DEF OverRedis!BoundedNext
  <2>7. CASE /\ Through(p.cursor) = Through(red.cursor) /\ Kept(PendingIn(p)) = Kept(RedPending)
             /\ OnRedis
    <3>1. /\ Max({red.cursor, kept - 1}) = Through(red.cursor)
          /\ Max({red'.cursor, kept' - 1}) = Through(p.cursor)
      BY <2>2, <1>10 DEF Through
    <3> QED
      BY <3>1, <2>4, <2>7, <1>10 DEF OverRedis!vars, OnRedis
  <2> QED
    BY <2>3, <2>5, <2>6, <2>7, <1>1, RedDelivers
<1>11. ASSUME NEW c \in deployed, Subscribe(c)
       PROVE  OverRedis!BoundedNext \/ UNCHANGED <<OverRedis!vars, limit>>
  <2>1. /\ joined /\ Receive(c, MemSubscribed, MemAnswer, RedSubscribed(c), RedAnswer(c))
        /\ UNCHANGED <<used, limit, joined, tail, kept>>
    BY <1>11 DEF Subscribe, world
  <2>2. MemStep(MemSubscribed, MemAnswer) /\ RedStep(RedSubscribed(c), RedAnswer(c))
    BY <1>1, MemSubscribing, RedSubscribing DEF BusInv
  <2> QED
    BY <2>1, <2>2, <1>10
<1>12. ASSUME NEW c \in deployed, Reclaim(c)
       PROVE  OverRedis!BoundedNext \/ UNCHANGED <<OverRedis!vars, limit>>
  <2>1. /\ joined /\ UNCHANGED <<used, limit, joined, tail, kept>>
        /\ Receive(c, MemReclaimed, MemReclaimAnswer, Claimed(c, idle.redis), RedReclaimAnswer(c))
    BY <1>12 DEF Reclaim, world
  <2>2. MemStep(MemReclaimed, MemReclaimAnswer)
        /\ RedStep(Claimed(c, idle.redis), RedReclaimAnswer(c))
    BY <1>1, MemReclaiming, RedReclaiming
  <2> QED
    BY <2>1, <2>2, <1>10
<1>13. ASSUME NEW c \in deployed, Ack(c)
       PROVE  OverRedis!BoundedNext \/ UNCHANGED <<OverRedis!vars, limit>>
  <2> DEFINE e == Head(batch[c])
  <2>1. /\ batch[c] # <<>> /\ red' = [red EXCEPT !.owner[e] = NoOne]
        /\ UNCHANGED <<used, limit, joined, tail, kept>>
    BY <1>13 DEF Ack, world
  <2>2. PICK f \in Entries : f = e
    BY <2>1, <1>1, NextOfBatch, Parts
  <2> HIDE DEF e
  <2>3. red'.cursor = red.cursor /\ red'.owner = [red.owner EXCEPT ![f] = NoOne]
    BY <2>1, <2>2, <1>2 DEF RedStates
  <2>4. RedPending' = RedPending \ {f}
    BY <2>3, <1>2 DEF RedPending, PendingIn
  <2>5. Kept(RedPending)' = Kept(RedPending) \ {f}
    BY <2>1, <2>4 DEF Kept
  <2>6. CASE f \in Kept(RedPending)
    <3>1. OverRedis!Settle(f)
      BY <2>1, <2>3, <2>5, <2>6 DEF OverRedis!Settle, OnRedis
    <3> QED
      BY <3>1, <2>1, <2>6 DEF OverRedis!BoundedNext
  <2>7. CASE f \notin Kept(RedPending)
    <3>1. Kept(RedPending)' = Kept(RedPending)
      BY <2>5, <2>7
    <3> QED
      BY <3>1, <2>1, <2>3 DEF OverRedis!vars, OnRedis
  <2> QED
    BY <2>6, <2>7
<1>14. ASSUME NEW c \in deployed, Nack(c) PROVE UNCHANGED <<OverRedis!vars, limit>>
  BY <1>8, <1>14 DEF Nack, world
<1>15. ASSUME NEW c \in deployed, Drop(c) PROVE UNCHANGED <<OverRedis!vars, limit>>
  BY <1>8, <1>15 DEF Drop, world
<1>16. CASE UNCHANGED vars
  BY <1>8, <1>16 DEF vars, world
<1> QED
  BY <1>6, <1>7, <1>9, <1>11, <1>12, <1>13, <1>14, <1>15, <1>16 DEF Next

\* base.py:8-12: whatever InMemoryBus and RedisBus do, the contract allows, step by
\* step, over the stream each of them keeps.
THEOREM BusesKeepContract == Spec => KeepsContract
<1>1. BusInv /\ [Next]_vars => [InMemory!BoundedNext]_<<InMemory!vars, N>>
  BY MemoryKeepsContract
<1>2. BusInv /\ [Next]_vars => [OverRedis!BoundedNext]_<<OverRedis!vars, limit>>
  BY RedisKeepsContract
<1> QED
  BY BusInvariant, ContractsBegin, <1>1, <1>2, PTL
  DEF Spec, KeepsContract, InMemory!BoundedSpec, OverRedis!BoundedSpec

-----------------------------------------------------------------------------
(* The same answers.                                                       *)

\* A concatenation ascends exactly when its parts do and the first is below the second.
LEMMA AscendingParts ==
  ASSUME NEW s \in Seq(Entries), NEW t \in Seq(Entries)
  PROVE  Ascending(s \o t)
           <=> Ascending(s) /\ Ascending(t) /\ \A d \in ToSet(s), e \in ToSet(t) : d < e
<1> DEFINE m == Len(s)
           n == Len(t)
           u == s \o t
<1>1. /\ m \in Nat /\ n \in Nat /\ DOMAIN s = 1 .. m /\ DOMAIN t = 1 .. n
      /\ s \in [1 .. m -> Entries] /\ t \in [1 .. n -> Entries]
  BY LenProperties
<1>2. u \in Seq(Entries) /\ Len(u) = m + n
  BY ConcatProperties
<1>3. DOMAIN u = 1 .. m + n
  BY <1>2, LenProperties
<1>4. \A i \in 1 .. m + n : u[i] = IF i <= m THEN s[i] ELSE t[i - m]
  BY ConcatProperties
<1> HIDE DEF m, n, u
<1>5. \A i \in 1 .. m : i \in 1 .. m + n /\ u[i] = s[i]
  BY <1>1, <1>4
<1>6. \A i \in 1 .. n : m + i \in 1 .. m + n /\ u[m + i] = t[i]
  BY <1>1, <1>4
<1>7. \A i \in 1 .. m + n :
        (i \in 1 .. m /\ u[i] = s[i]) \/ (m < i /\ i - m \in 1 .. n /\ u[i] = t[i - m])
  BY <1>1, <1>4
<1>8. ASSUME Ascending(u)
      PROVE  Ascending(s) /\ Ascending(t) /\ \A d \in ToSet(s), e \in ToSet(t) : d < e
  <2>0. \A i, j \in 1 .. m + n : i < j => u[i] < u[j]
    BY <1>8, <1>3 DEF Ascending
  <2>1. Ascending(s)
    BY <2>0, <1>1, <1>5 DEF Ascending
  <2>2. ASSUME NEW i \in 1 .. n, NEW j \in 1 .. n, i < j PROVE t[i] < t[j]
    <3>1. m + i < m + j
      BY <2>2, <1>1
    <3> QED
      BY <3>1, <2>0, <2>2, <1>6
  <2>3. ASSUME NEW d \in ToSet(s), NEW e \in ToSet(t) PROVE d < e
    <3>1. PICK i \in 1 .. m : s[i] = d
      BY <1>1 DEF ToSet
    <3>2. PICK j \in 1 .. n : t[j] = e
      BY <1>1 DEF ToSet
    <3>3. i < m + j
      BY <1>1
    <3> QED
      BY <3>1, <3>2, <3>3, <2>0, <1>5, <1>6
  <2>4. Ascending(t)
    BY <2>2, <1>1 DEF Ascending
  <2> QED
    BY <2>1, <2>3, <2>4
<1>9. ASSUME Ascending(s), Ascending(t), \A d \in ToSet(s), e \in ToSet(t) : d < e
      PROVE  Ascending(u)
  <2>1. ASSUME NEW i \in 1 .. m + n, NEW j \in 1 .. m + n, i < j PROVE u[i] < u[j]
    <3>1. CASE j \in 1 .. m /\ u[j] = s[j]
      <4>1. i \in 1 .. m /\ u[i] = s[i]
        BY <3>1, <2>1, <1>1, <1>5
      <4>2. s[i] < s[j]
        BY <4>1, <3>1, <2>1, <1>1, <1>9 DEF Ascending
      <4> QED
        BY <4>1, <4>2, <3>1
    <3>2. CASE m < j /\ j - m \in 1 .. n /\ u[j] = t[j - m]
      <4>1. CASE i \in 1 .. m /\ u[i] = s[i]
        <5>1. s[i] \in ToSet(s) /\ t[j - m] \in ToSet(t)
          BY <4>1, <3>2, <1>1 DEF ToSet
        <5> QED
          BY <5>1, <4>1, <3>2, <1>9
      <4>2. CASE m < i /\ i - m \in 1 .. n /\ u[i] = t[i - m]
        <5>1. i - m < j - m
          BY <2>1, <1>1
        <5>2. t[i - m] < t[j - m]
          BY <5>1, <4>2, <3>2, <1>1, <1>9 DEF Ascending
        <5> QED
          BY <5>2, <4>2, <3>2
      <4> QED
        BY <4>1, <4>2, <1>7
    <3> QED
      BY <3>1, <3>2, <1>7
  <2> QED
    BY <2>1, <1>3 DEF Ascending
<1> QED
  BY <1>8, <1>9 DEF u

\* Two answers with the same entries and the same counts are the same.
LEMMA OneAnswer ==
  ASSUME NEW A \in Seq(Deliveries), NEW B \in Seq(Deliveries), EntriesOf(A) = EntriesOf(B),
         \A i \in DOMAIN A : A[i].entry = B[i].entry => A[i].count = B[i].count
  PROVE  A = B
<1>1. /\ Len(A) \in Nat /\ DOMAIN A = 1 .. Len(A) /\ A \in [1 .. Len(A) -> Deliveries]
      /\ Len(B) \in Nat /\ DOMAIN B = 1 .. Len(B) /\ B \in [1 .. Len(B) -> Deliveries]
  BY LenProperties
<1>2. DOMAIN A = DOMAIN B
  <2>1. DOMAIN EntriesOf(A) = DOMAIN A /\ DOMAIN EntriesOf(B) = DOMAIN B
    BY DEF EntriesOf
  <2> QED
    BY <2>1
<1>3. ASSUME NEW i \in DOMAIN A PROVE A[i] = B[i]
  <2>1. EntriesOf(A)[i] = A[i].entry /\ EntriesOf(B)[i] = B[i].entry
    BY <1>2 DEF EntriesOf
  <2>2. A[i].entry = B[i].entry /\ A[i].count = B[i].count
    BY <2>1
  <2>3. A[i] \in Deliveries /\ B[i] \in Deliveries
    BY <1>1, <1>2
  <2>4. \A d \in Deliveries : d = [entry |-> d.entry, count |-> d.count]
    BY DEF Deliveries
  <2> QED
    BY <2>2, <2>3, <2>4
<1> QED
  BY <1>1, <1>2, <1>3

\* The case in which RedisBus and InMemoryBus answer alike.
Undisturbed == used = Transports /\ lost = 0 /\ kept = 1 /\ rank = [e \in Entries |-> e]

\* There both have read as far, delivered as often and answered the same, and have the
\* same entries outstanding: first what InMemoryBus queued for redelivery, then what is
\* left of the batch, in stream order, and never more than one call may claim.
Alike(c) ==
  /\ last["memory"] = last["redis"]
  /\ mem.cursor = red.cursor
  /\ \A e \in Entries : given["memory"][e] = given["redis"][e]
  /\ RedPending = ToSet(mem.pending \o mem.retry)
  /\ ToSet(mem.pending) = ToSet(batch[c])
  /\ Len(mem.retry \o batch[c]) <= Count
  /\ Ascending(mem.retry \o batch[c])
Together == Undisturbed => \A c \in deployed : Alike(c)

\* A consumer that is through with its batch has nothing pending with InMemoryBus but
\* what it handed back, which is all that is pending with RedisBus, in that order.
LEMMA ThroughWithBatch ==
  ASSUME Shape, Places, Undisturbed, NEW c \in deployed, Alike(c), batch[c] = <<>>
  PROVE  /\ mem.pending = <<>> /\ Ascending(mem.retry)
         /\ RedPending = ToSet(mem.retry) /\ Len(mem.retry) = Cardinality(RedPending)
         /\ InOrder(RedPending) = mem.retry
         /\ Again = mem.retry /\ SubSeq(mem.retry, Len(Again) + 1, Len(mem.retry)) = <<>>
         /\ Own(c) = RedPending
<1> DEFINE q == mem.retry
           p == mem.pending
           rest == SubSeq(q, Len(Again) + 1, Len(q))
<1>1. /\ p \in Seq(Entries) /\ q \in Seq(Entries) /\ Len(q) \in Nat /\ Count \in Nat
      /\ red.owner \in [Entries -> deployed \cup {NoOne}] /\ NoOne \notin deployed
  BY Parts, LenProperties
<1>2. p = <<>>
  <2>1. ToSet(p) = {}
    <3>1. ToSet(<<>>) = {}
      <4>1. DOMAIN <<>> = {}
        BY EmptySeq
      <4> QED
        BY <4>1 DEF ToSet
    <3> QED
      BY <3>1 DEF Alike
  <2>2. 1 \notin 1 .. Len(p)
    BY <2>1, <1>1, HoldsOf
  <2> QED
    BY <2>2, <1>1, EmptySeq
<1>3. q \o batch[c] = q /\ p \o q = q
  BY <1>1, <1>2, ConcatEmptySeq
<1>4. Ascending(q) /\ Len(q) <= Count /\ RedPending = ToSet(q)
  BY <1>3 DEF Alike
<1>5. InOrder(RedPending) = q /\ Len(q) = Cardinality(RedPending)
  <2>1. RedPending \in SUBSET Entries
    BY DEF RedPending, PendingIn
  <2>2. IsFiniteSet(RedPending) /\ RedPending \in SUBSET Int
    BY <2>1, SomeEntries
  <2>3. /\ InOrder(RedPending) \in Seq(RedPending) /\ Ascending(InOrder(RedPending))
        /\ Len(InOrder(RedPending)) = Cardinality(RedPending)
        /\ ToSet(InOrder(RedPending)) = RedPending
    BY <2>2, InOrderLists
  <2>4. InOrder(RedPending) \in Seq(Int) /\ q \in Seq(Int)
    <3>1. Entries \subseteq Int
      BY DEF Entries
    <3>2. RedPending \subseteq Int
      BY <2>2
    <3> QED
      BY <3>1, <3>2, <2>3, <1>1, SeqMonotonic
  <2>5. InOrder(RedPending) = q
    BY <2>3, <2>4, <1>4, OneAscending
  <2> QED
    BY <2>3, <2>5
<1>6. Again = q /\ rest = <<>>
  <2>1. /\ Again \in Seq(Entries) /\ rest \in Seq(Entries) /\ Again \o rest = q
        /\ Len(Again) = (IF Count <= Len(q) THEN Count ELSE Len(q))
    BY MemClaiming
  <2>2. Len(Again \o rest) = Len(Again) + Len(rest) /\ Len(rest) \in Nat
    BY <2>1, ConcatProperties, LenProperties
  <2> HIDE DEF q, rest
  <2>3. Len(Again) = Len(q)
    BY <2>1, <1>1, <1>4
  <2>4. Len(rest) = 0
    BY <2>1, <2>2, <2>3, <1>1
  <2>5. rest = <<>>
    BY <2>1, <2>4, EmptySeq
  <2> QED
    BY <2>1, <2>5, ConcatEmptySeq
<1>7. Own(c) = RedPending
  <2>1. Sole(deployed)
    BY DEF Shape, Undisturbed
  <2>2. deployed = {c}
    BY <2>1 DEF Sole
  <2>3. {e \in RedPending : red.owner[e] = c} = RedPending
    BY <2>2, <1>1 DEF RedPending, PendingIn
  <2>4. RedPending \in SUBSET Entries
    BY DEF RedPending, PendingIn
  <2>5. IsFiniteSet(RedPending) /\ RedPending \in SUBSET Int
    BY <2>4, SomeEntries
  <2>6. Cardinality(RedPending) <= Count
    BY <1>4, <1>5
  <2>7. FirstOf(RedPending, Count) = RedPending
    BY <2>5, <2>6, <1>1, FirstOfTakes
  <2> QED
    BY <2>3, <2>7 DEF Own
<1> QED
  BY <1>2, <1>4, <1>5, <1>6, <1>7

\* The heart of it: on the same call both answer the same, and are alike again.
LEMMA SubscribedAlike ==
  ASSUME Shape, Places, Counted, Undisturbed, NEW c \in deployed, Alike(c), batch[c] = <<>>
  PROVE  /\ MemAnswer = RedAnswer(c)
         /\ MemSubscribed.cursor = RedSubscribed(c).cursor
         /\ PendingIn(RedSubscribed(c)) = ToSet(MemSubscribed.pending \o MemSubscribed.retry)
         /\ ToSet(MemSubscribed.pending) = ToSet(MemClaims)
         /\ Len(MemSubscribed.retry \o MemClaims) <= Count
         /\ Ascending(MemSubscribed.retry \o MemClaims)
<1> DEFINE q == mem.retry
           k == MemNew
           new == [i \in 1 .. k |-> mem.cursor + i]
<1>1. /\ mem.pending = <<>> /\ Ascending(q)
      /\ RedPending = ToSet(q) /\ Len(q) = Cardinality(RedPending)
      /\ InOrder(RedPending) = q
      /\ Again = q /\ SubSeq(q, Len(Again) + 1, Len(q)) = <<>>
      /\ Own(c) = RedPending
  BY ThroughWithBatch
<1>2. /\ mem.cursor \in 0 .. tail /\ tail \in 0 .. N /\ N \in Nat /\ Count \in Nat
      /\ q \in Seq(Entries) /\ Len(q) \in Nat /\ red.cursor = mem.cursor
      /\ mem.count \in [Entries -> Nat] /\ red.count \in [Entries -> Nat]
  BY Parts, LenProperties DEF Alike
<1>3. kept = 1 /\ \A S \in SUBSET Entries : Kept(S) = S
  <2>1. kept = 1
    BY DEF Undisturbed
  <2>2. ASSUME NEW S \in SUBSET Entries PROVE Kept(S) = S
    <3>1. \A e \in S : kept <= e
      BY <2>1 DEF Entries
    <3> QED
      BY <3>1 DEF Kept
  <2> QED
    BY <2>1, <2>2
<1>4. RedPending \in SUBSET Entries
  BY DEF RedPending, PendingIn
<1>5. Kept(Own(c)) = RedPending
  BY <1>1, <1>3, <1>4
<1>6. /\ k = (IF Count - Len(q) <= tail - mem.cursor THEN Count - Len(q) ELSE tail - mem.cursor)
      /\ k \in Nat /\ mem.cursor + k \in mem.cursor .. tail
      /\ new \in Seq(Entries) /\ Ascending(new) /\ Len(new) = k
      /\ ToSet(new) = mem.cursor + 1 .. mem.cursor + k
      /\ MemClaims \in Seq(Entries) /\ MemClaims = q \o new
  BY <1>1, MemClaiming DEF MemClaims
<1>7. Through(red.cursor) = mem.cursor
  <2>1. Through(red.cursor) = IF red.cursor <= kept - 1 THEN kept - 1 ELSE red.cursor
    BY RedReading
  <2> QED
    BY <2>1, <1>2, <1>3
<1>8. NewRead(c) = k
  <2>1. Cardinality(Kept(Own(c))) = Len(q)
    BY <1>1, <1>5
  <2>2. NewRead(c) = IF Count - Len(q) <= tail - mem.cursor
                     THEN Count - Len(q) ELSE tail - mem.cursor
    BY <2>1, <1>7 DEF NewRead
  <2> QED
    BY <2>2, <1>6
<1>9. /\ RedNew(c) = mem.cursor + 1 .. mem.cursor + k
      /\ RedNew(c) \in SUBSET Entries
      /\ Max({red.cursor} \cup RedNew(c)) = IF k = 0 THEN red.cursor ELSE mem.cursor + k
  BY <1>7, <1>8, RedReading
<1> HIDE DEF k
<1>10. InOrder(RedNew(c)) = new
  <2>1. IsFiniteSet(RedNew(c)) /\ RedNew(c) \in SUBSET Int
    BY <1>9, SomeEntries
  <2>2. /\ InOrder(RedNew(c)) \in Seq(RedNew(c)) /\ Ascending(InOrder(RedNew(c)))
        /\ ToSet(InOrder(RedNew(c))) = RedNew(c)
    BY <2>1, InOrderLists
  <2>3. InOrder(RedNew(c)) \in Seq(Int) /\ new \in Seq(Int)
    <3>1. Entries \subseteq Int
      BY DEF Entries
    <3>2. RedNew(c) \subseteq Int
      BY <2>1
    <3>3. new \in Seq(Entries)
      BY <1>6
    <3> QED
      BY <3>1, <3>2, <3>3, <2>2, SeqMonotonic
  <2>4. ToSet(new) = RedNew(c) /\ Ascending(new)
    BY <1>6, <1>9
  <2> HIDE DEF new
  <2> QED
    BY <2>2, <2>3, <2>4, OneAscending
<1>11. EntriesOf(RedAnswer(c)) = MemClaims
  <2>1. /\ OwnAnswer(c) \in Seq(Deliveries) /\ NewAnswer(c) \in Seq(Deliveries)
        /\ RedAnswer(c) = OwnAnswer(c) \o NewAnswer(c)
        /\ EntriesOf(OwnAnswer(c)) = InOrder(Kept(Own(c)))
        /\ EntriesOf(NewAnswer(c)) = InOrder(RedNew(c))
    BY RedAnswering
  <2>2. EntriesOf(OwnAnswer(c) \o NewAnswer(c)) = EntriesOf(OwnAnswer(c)) \o EntriesOf(NewAnswer(c))
    BY <2>1, AnswersJoined
  <2>3. InOrder(Kept(Own(c))) = q
    BY <1>1, <1>5
  <2> HIDE DEF q, new
  <2> QED
    BY <2>1, <2>2, <2>3, <1>6, <1>10
<1>12. MemAnswer = RedAnswer(c)
  <2>1. MemStep(MemSubscribed, MemAnswer) /\ EntriesOf(MemAnswer) = MemClaims
    BY MemSubscribing
  <2>2. MemAnswer \in Seq(Deliveries)
        /\ \A i \in DOMAIN MemAnswer : MemAnswer[i].count = mem.count[MemAnswer[i].entry] + 1
    BY <2>1 DEF MemStep
  <2>3. RedAnswer(c) \in Seq(Deliveries)
    <3>1. RedStep(RedSubscribed(c), RedAnswer(c))
      BY RedSubscribing
    <3> QED
      BY <3>1 DEF RedStep
  <2>4. \A i \in DOMAIN RedAnswer(c) :
          RedAnswer(c)[i].count = red.count[RedAnswer(c)[i].entry] + 1
    <3>1. Exact
      BY DEF Undisturbed, Shape, Exact
    <3> QED
      BY <3>1, SubscribeCounts
  <2>5. \A e \in Entries : mem.count[e] = red.count[e]
    BY DEF Counted, Alike
  <2>6. DOMAIN MemAnswer = DOMAIN RedAnswer(c)
    <3>1. DOMAIN EntriesOf(MemAnswer) = DOMAIN MemAnswer
          /\ DOMAIN EntriesOf(RedAnswer(c)) = DOMAIN RedAnswer(c)
      BY DEF EntriesOf
    <3> QED
      BY <3>1, <2>1, <1>11
  <2>7. ASSUME NEW i \in DOMAIN MemAnswer, MemAnswer[i].entry = RedAnswer(c)[i].entry
        PROVE  MemAnswer[i].count = RedAnswer(c)[i].count
    <3>1. MemAnswer[i].entry \in Entries
      BY <2>2, AnswerHolds
    <3>2. mem.count[MemAnswer[i].entry] = red.count[RedAnswer(c)[i].entry]
      BY <3>1, <2>5, <2>7
    <3> QED
      BY <3>2, <2>2, <2>4, <2>6, <2>7
  <2>8. EntriesOf(MemAnswer) = EntriesOf(RedAnswer(c))
    BY <2>1, <1>11
  <2> QED
    BY <2>2, <2>3, <2>7, <2>8, OneAnswer
<1>13. /\ MemSubscribed.cursor = mem.cursor + k
       /\ MemSubscribed.pending = mem.pending \o MemClaims
       /\ MemSubscribed.retry = <<>>
  BY <1>1 DEF MemSubscribed, k
<1>14. MemSubscribed.pending = MemClaims /\ MemSubscribed.retry \o MemClaims = MemClaims
       /\ MemSubscribed.pending \o MemSubscribed.retry = MemClaims
  BY <1>1, <1>6, <1>13, ConcatEmptySeq
<1>15. RedSubscribed(c).cursor = mem.cursor + k
  <2>1. RedSubscribed(c).cursor = Max({red.cursor} \cup RedNew(c))
    BY DEF RedSubscribed
  <2> QED
    BY <2>1, <1>2, <1>6, <1>9
<1>16. PendingIn(RedSubscribed(c)) = ToSet(MemClaims)
  <2>1. PendingIn(RedSubscribed(c)) = (RedPending \ Own(c)) \cup Kept(Own(c)) \cup RedNew(c)
    BY RedSubscribing
  <2>2. ToSet(MemClaims) = ToSet(q) \cup ToSet(new)
    BY <1>2, <1>6, Joining
  <2> QED
    BY <2>1, <2>2, <1>1, <1>5, <1>6, <1>9
<1>17. Len(MemClaims) <= Count
  <2>1. Len(MemClaims) = Len(q) + k
    BY <1>2, <1>6, ConcatProperties
  <2>2. Len(q) <= Count
    <3>1. q \o batch[c] = q
      BY <1>2, ConcatEmptySeq
    <3> QED
      BY <3>1 DEF Alike
  <2> QED
    BY <2>1, <2>2, <1>2, <1>6
<1>18. Ascending(MemClaims)
  <2>1. \A d \in ToSet(q) : d \in 1 .. mem.cursor
    <3>1. ToSet(mem.pending \o q) \subseteq 1 .. mem.cursor
      BY DEF Places
    <3>2. mem.pending \o q = q
      BY <1>1, <1>2, ConcatEmptySeq
    <3> QED
      BY <3>1, <3>2
  <2>2. \A e \in ToSet(new) : e \in mem.cursor + 1 .. mem.cursor + k
    BY <1>6
  <2>3. \A d \in ToSet(q), e \in ToSet(new) : d < e
    BY <2>1, <2>2, <1>2, <1>6
  <2> HIDE DEF q, new
  <2> QED
    BY <2>3, <1>1, <1>2, <1>6, AscendingParts
<1> QED
  BY <1>12, <1>13, <1>14, <1>15, <1>16, <1>17, <1>18

\* Nothing that disturbs the case is undone: what is trimmed or lost stays so.
LEMMA StillUndisturbed ==
  ASSUME Shape, [Next]_vars, Undisturbed'
  PROVE  Undisturbed /\ UNCHANGED <<world, kept, lost>>
<1>1. kept \in Nat /\ 1 <= kept /\ lost \in Nat /\ tail \in Nat /\ limit \in Nat
  BY BusConstants DEF Shape, Entries
<1>2. UNCHANGED world
  BY DEF Next, Publish, CreateGroup, Wait, Subscribe, Reclaim, Ack, Nack, Drop, world, vars
<1>3. lost' = lost \/ lost' = lost + 1
  BY DEF Next, Publish, CreateGroup, Wait, Subscribe, Reclaim, Ack, Nack, Drop, vars
<1>4. kept <= kept'
  <2>1. CASE Publish
    <3>1. PICK k \in kept .. Max({kept, tail + 2 - limit}) : kept' = IF OnRedis THEN k ELSE kept
      BY <2>1 DEF Publish
    <3>2. Max({kept, tail + 2 - limit})
            = IF kept <= tail + 2 - limit THEN tail + 2 - limit ELSE kept
      <4>1. kept \in Int /\ tail + 2 - limit \in Int
        BY <1>1
      <4> QED
        BY <4>1, LargerOfTwo
    <3> HIDE DEF OnRedis
    <3> QED
      BY <3>1, <3>2, <1>1
  <2>2. CASE ~Publish
    <3>1. kept' = kept
      BY <2>2 DEF Next, CreateGroup, Wait, Subscribe, Reclaim, Ack, Nack, Drop, vars
    <3> QED
      BY <3>1, <1>1
  <2> QED
    BY <2>1, <2>2
<1>5. kept' = 1 /\ lost' = 0 /\ used' = Transports /\ rank' = [e \in Entries |-> e]
  BY DEF Undisturbed
<1>6. kept' = kept /\ lost' = lost /\ used = Transports /\ rank = [e \in Entries |-> e]
  BY <1>1, <1>2, <1>3, <1>4, <1>5 DEF world
<1> QED
  BY <1>2, <1>5, <1>6 DEF Undisturbed

\* A step that no transport and no batch takes part in leaves them alike.
LEMMA AlikeStays ==
  ASSUME NEW c, Alike(c), UNCHANGED <<last, mem, red, given, batch>>
  PROVE  Alike(c)'
BY DEF Alike, RedPending, PendingIn

\* A call of subscribe leaves them alike.
LEMMA SubscribeAlike ==
  ASSUME BusInv, Undisturbed, NEW c \in deployed, Alike(c), Subscribe(c)
  PROVE  Alike(c)'
<1>1. Shape /\ Places /\ Counted
  BY DEF BusInv
<1>2. /\ Receive(c, MemSubscribed, MemAnswer, RedSubscribed(c), RedAnswer(c))
      /\ batch[c] = <<>>
  BY DEF Subscribe
<1>3. /\ MemAnswer = RedAnswer(c)
      /\ MemSubscribed.cursor = RedSubscribed(c).cursor
      /\ PendingIn(RedSubscribed(c)) = ToSet(MemSubscribed.pending \o MemSubscribed.retry)
      /\ ToSet(MemSubscribed.pending) = ToSet(MemClaims)
      /\ Len(MemSubscribed.retry \o MemClaims) <= Count
      /\ Ascending(MemSubscribed.retry \o MemClaims)
  BY <1>1, <1>2, SubscribedAlike
<1>4. OnMemory /\ OnRedis
  BY DEF Undisturbed, OnMemory, OnRedis, Transports
<1>5. MemStep(MemSubscribed, MemAnswer) /\ RedStep(RedSubscribed(c), RedAnswer(c))
      /\ EntriesOf(MemAnswer) = MemClaims
  BY <1>1, MemSubscribing, RedSubscribing
<1>6. last'["memory"] = MemAnswer /\ last'["redis"] = RedAnswer(c)
  BY <1>1, <1>2, <1>4, <1>5, ReceivedIs
<1>7. mem' = MemSubscribed /\ red' = RedSubscribed(c)
  BY <1>2, <1>4 DEF Receive
<1>8. /\ \A b \in Transports : \A e \in Entries :
           given'[b][e] = IF e \in ToSet(EntriesOf(last'[b])) THEN given[b][e] + 1 ELSE given[b][e]
      /\ batch' = [batch EXCEPT ![c] = EntriesOf(IF OnRedis THEN last'.redis ELSE last'.memory)]
  BY <1>1, <1>2, GivenIs
<1>9. \A e \in Entries : given'["memory"][e] = given'["redis"][e]
  <2>1. \A e \in Entries : given["memory"][e] = given["redis"][e]
    BY DEF Alike
  <2>2. last'["memory"] = last'["redis"]
    BY <1>3, <1>6
  <2> QED
    BY <2>1, <2>2, <1>8 DEF Transports
<1>10. batch'[c] = MemClaims
  <2>1. batch \in [Consumers -> Seq(Entries)] /\ c \in Consumers
    BY <1>1, Parts DEF Shape
  <2>2. batch'[c] = EntriesOf(last'["redis"])
    BY <2>1, <1>4, <1>8
  <2> QED
    BY <2>2, <1>3, <1>5, <1>6
<1>11. PICK m, r, l, g, b : m = mem' /\ r = red' /\ l = last' /\ g = given' /\ b = batch'
  OBVIOUS
<1>12. RedPending' = ToSet(m.pending \o m.retry)
  <2>1. RedPending' = PendingIn(r)
    BY <1>11 DEF RedPending, PendingIn
  <2> QED
    BY <2>1, <1>3, <1>7, <1>11
<1>13. /\ l["memory"] = l["redis"] /\ m.cursor = r.cursor
       /\ \A e \in Entries : g["memory"][e] = g["redis"][e]
       /\ ToSet(m.pending) = ToSet(b[c])
       /\ Len(m.retry \o b[c]) <= Count
       /\ Ascending(m.retry \o b[c])
  BY <1>3, <1>6, <1>7, <1>9, <1>10, <1>11
<1> QED
  BY <1>11, <1>12, <1>13 DEF Alike

\* Both have the next entry of the batch pending, so that ack and nack go on with the
\* rest of it, where the entry does not come again.
LEMMA NextAlike ==
  ASSUME Shape, Places, Undisturbed, NEW c \in deployed, Alike(c), batch[c] # <<>>
  PROVE  LET e == Head(batch[c])
             b == Tail(batch[c])
         IN  /\ After(c)[c] = b
             /\ e \in Entries /\ e \in ToSet(mem.pending) /\ e \notin ToSet(mem.retry)
             /\ ToSet(b) = ToSet(mem.pending) \ {e}
             /\ b \in Seq(Entries)
             /\ mem.retry \o batch[c] = Append(mem.retry, e) \o b
             /\ Len(mem.retry \o b) <= Count /\ Ascending(mem.retry \o b)
<1> DEFINE q == mem.retry
           s == batch[c]
           e == Head(s)
           b == Tail(s)
<1>1. /\ mem.pending \in Seq(Entries) /\ q \in Seq(Entries) /\ Len(q) \in Nat
      /\ c \in Consumers /\ Count \in Nat
  BY Parts, LenProperties
<1>2. batch \in [Consumers -> Seq(Entries)] /\ s \in Seq(Entries)
  BY <1>1 DEF Shape
<1>3. /\ e \in Entries /\ e \in ToSet(s) /\ b \in Seq(Entries)
      /\ ToSet(s) = {e} \cup ToSet(b)
      /\ s = <<e>> \o b /\ <<e>> \in Seq(Entries)
  BY <1>2, HeadAndTail
<1>4. /\ ToSet(mem.pending) = ToSet(s) /\ RedPending = ToSet(mem.pending \o q)
      /\ Len(q \o s) <= Count /\ Ascending(q \o s)
  BY DEF Alike
<1>5. /\ ToSet(mem.pending \o q) = ToSet(mem.pending) \cup ToSet(q)
      /\ ToSet(mem.pending) \cap ToSet(q) = {}
  <2>1. IsInjective(mem.pending \o q)
    BY DEF Places
  <2> QED
    BY <2>1, <1>1, Joining
<1>6. IsPending(e)
  <2>1. e \in ToSet(mem.pending)
    BY <1>3, <1>4
  <2>2. e \in RedPending
    BY <2>1, <1>4, <1>5
  <2>3. red.owner[e] # NoOne
    BY <2>2 DEF RedPending, PendingIn
  <2> HIDE DEF e
  <2> QED
    BY <2>1, <2>3 DEF IsPending
<1>7. After(c)[c] = b
  BY <1>1, <1>2, <1>6 DEF After
<1> HIDE DEF e, b, s, q
<1>8. Ascending(q) /\ Ascending(s) /\ \A d \in ToSet(q), f \in ToSet(s) : d < f
  BY <1>1, <1>2, <1>4, AscendingParts
<1>9. Ascending(b) /\ \A d \in ToSet(<<e>>), f \in ToSet(b) : d < f
  <2>1. Ascending(<<e>> \o b)
    BY <1>3, <1>8
  <2> QED
    BY <2>1, <1>3, AscendingParts
<1>10. e \notin ToSet(b)
  <2>1. e \in ToSet(<<e>>)
    BY DEF ToSet
  <2>2. e \in Int
    BY <1>3 DEF Entries
  <2> QED
    BY <2>1, <2>2, <1>9
<1>11. ToSet(b) = ToSet(mem.pending) \ {e}
  BY <1>3, <1>4, <1>10
<1>12. Ascending(q \o b)
  <2>1. \A d \in ToSet(q), f \in ToSet(b) : d < f
    BY <1>3, <1>8
  <2> QED
    BY <2>1, <1>1, <1>3, <1>8, <1>9, AscendingParts
<1>13. q \o s = Append(q, e) \o b
  <2>1. Append(q, e) = q \o <<e>>
    BY <1>1, <1>3, AppendIsConcat
  <2>2. (q \o <<e>>) \o b = q \o (<<e>> \o b)
    BY <1>1, <1>3, ConcatAssociative
  <2> QED
    BY <2>1, <2>2, <1>3
<1>14. Len(q \o b) <= Count
  <2>1. Len(q \o s) = Len(q) + Len(s) /\ Len(q \o b) = Len(q) + Len(b)
    BY <1>1, <1>2, <1>3, ConcatProperties
  <2>2. Len(s) = Len(<<e>>) + Len(b) /\ Len(<<e>>) = 1 /\ Len(b) \in Nat
    <3>1. Len(<<e>> \o b) = Len(<<e>>) + Len(b)
      BY <1>3, ConcatProperties
    <3>2. Len(<<e>>) = 1 /\ Len(b) \in Nat
      BY <1>3, LenProperties
    <3> QED
      BY <3>1, <3>2, <1>3
  <2> QED
    BY <2>1, <2>2, <1>1, <1>4
<1>15. e \in ToSet(mem.pending) /\ e \notin ToSet(q)
  BY <1>3, <1>4, <1>5
<1> QED
  BY <1>3, <1>7, <1>11, <1>12, <1>13, <1>14, <1>15 DEF e, b, s, q

\* An ack takes the entry from both, and from the batch.
LEMMA AckAlike ==
  ASSUME BusInv, Undisturbed, NEW c \in deployed, Alike(c), Ack(c)
  PROVE  Alike(c)'
<1> DEFINE e == Head(batch[c])
           b == Tail(batch[c])
           p == Among(mem.pending, Entries \ {e})
<1>1. Shape /\ Places /\ batch[c] # <<>>
  BY DEF BusInv, Ack
<1>2. /\ After(c)[c] = b
      /\ e \in Entries /\ e \in ToSet(mem.pending) /\ e \notin ToSet(mem.retry)
      /\ ToSet(b) = ToSet(mem.pending) \ {e}
      /\ Len(mem.retry \o b) <= Count /\ Ascending(mem.retry \o b)
  BY <1>1, NextAlike
<1>3. /\ mem.pending \in Seq(Entries) /\ mem.retry \in Seq(Entries)
      /\ red.owner \in [Entries -> deployed \cup {NoOne}]
      /\ mem \in MemStates /\ red \in RedStates
  BY <1>1, Parts DEF Shape
<1>4. p \in Seq(Entries) /\ ToSet(p) = ToSet(mem.pending) \ {e}
  <2>1. p \in Seq(Entries) /\ ToSet(p) = ToSet(mem.pending) \cap (Entries \ {e})
    BY <1>3, AmongKeeps
  <2>2. ToSet(mem.pending) \subseteq Entries
    BY <1>3, HoldsOf
  <2> QED
    BY <2>1, <2>2
<1>5. /\ batch' = After(c) /\ mem' = [mem EXCEPT !.pending = p]
      /\ red' = [red EXCEPT !.owner[e] = NoOne] /\ UNCHANGED <<last, given>>
  BY DEF Ack
<1> HIDE DEF e, b, p
<1>6. /\ mem'.pending = p /\ mem'.retry = mem.retry /\ mem'.cursor = mem.cursor
  BY <1>3, <1>5 DEF MemStates
<1>7. /\ red'.cursor = red.cursor
      /\ \A f \in Entries : red'.owner[f] = IF f = e THEN NoOne ELSE red.owner[f]
  BY <1>3, <1>5 DEF RedStates
<1>8. RedPending' = ToSet(p \o mem.retry)
  <2>1. RedPending' = RedPending \ {e}
    BY <1>7 DEF RedPending, PendingIn
  <2>2. RedPending = ToSet(mem.pending) \cup ToSet(mem.retry)
    BY <1>3, Joining DEF Alike
  <2>3. ToSet(p \o mem.retry) = ToSet(p) \cup ToSet(mem.retry)
    BY <1>3, <1>4, Joining
  <2> QED
    BY <2>1, <2>2, <2>3, <1>2, <1>4
<1>9. PICK m, r, l, g, s : m = mem' /\ r = red' /\ l = last' /\ g = given' /\ s = batch'
  OBVIOUS
<1>10. /\ l["memory"] = l["redis"] /\ m.cursor = r.cursor
       /\ \A f \in Entries : g["memory"][f] = g["redis"][f]
       /\ ToSet(m.pending) = ToSet(s[c])
       /\ Len(m.retry \o s[c]) <= Count
       /\ Ascending(m.retry \o s[c])
  BY <1>2, <1>4, <1>5, <1>6, <1>7, <1>9 DEF Alike
<1>11. RedPending' = ToSet(m.pending \o m.retry)
  BY <1>6, <1>8, <1>9
<1> QED
  BY <1>9, <1>10, <1>11 DEF Alike

\* A nack leaves the entry pending with RedisBus and moves it in InMemoryBus from what
\* is pending to the end of what is queued: from the batch to just before the batch.
LEMMA NackAlike ==
  ASSUME BusInv, Undisturbed, NEW c \in deployed, Alike(c), Nack(c)
  PROVE  Alike(c)'
<1> DEFINE e == Head(batch[c])
           b == Tail(batch[c])
           p == Among(mem.pending, Entries \ {e})
           q == Append(mem.retry, e)
<1>1. Shape /\ Places /\ batch[c] # <<>>
  BY DEF BusInv, Nack
<1>2. /\ After(c)[c] = b
      /\ e \in Entries /\ e \in ToSet(mem.pending)
      /\ ToSet(b) = ToSet(mem.pending) \ {e}
      /\ mem.retry \o batch[c] = q \o b
  BY <1>1, NextAlike
<1>3. /\ mem.pending \in Seq(Entries) /\ mem.retry \in Seq(Entries) /\ mem \in MemStates
  BY <1>1, Parts DEF Shape
<1>4. p \in Seq(Entries) /\ ToSet(p) = ToSet(mem.pending) \ {e}
  <2>1. p \in Seq(Entries) /\ ToSet(p) = ToSet(mem.pending) \cap (Entries \ {e})
    BY <1>3, AmongKeeps
  <2>2. ToSet(mem.pending) \subseteq Entries
    BY <1>3, HoldsOf
  <2> QED
    BY <2>1, <2>2
<1>5. q \in Seq(Entries) /\ ToSet(q) = ToSet(mem.retry) \cup {e}
  <2>1. q = mem.retry \o <<e>> /\ <<e>> \in Seq(Entries) /\ ToSet(<<e>>) = {e}
    <3>1. q = mem.retry \o <<e>>
      BY <1>2, <1>3, AppendIsConcat
    <3>2. <<e>> \in Seq(Entries) /\ ToSet(<<e>>) = {e}
      BY <1>2 DEF ToSet
    <3> QED
      BY <3>1, <3>2
  <2> HIDE DEF e, q
  <2> QED
    BY <2>1, <1>3, Joining, ConcatProperties
<1>6. /\ batch' = After(c) /\ UNCHANGED <<last, given, red>>
      /\ mem' = [mem EXCEPT !.pending = p, !.retry = q]
  <2>1. mem' = IF e \in ToSet(mem.pending)
               THEN [mem EXCEPT !.pending = p, !.retry = q] ELSE mem
    BY DEF Nack
  <2> HIDE DEF e, p, q
  <2>2. batch' = After(c) /\ UNCHANGED <<last, given, red>>
    BY DEF Nack
  <2> QED
    BY <2>1, <2>2, <1>2
<1> HIDE DEF e, b, p, q
<1>7. mem'.pending = p /\ mem'.retry = q /\ mem'.cursor = mem.cursor
  BY <1>3, <1>6 DEF MemStates
<1>8. RedPending' = ToSet(p \o q)
  <2>1. RedPending' = RedPending
    BY <1>6 DEF RedPending, PendingIn
  <2>2. RedPending = ToSet(mem.pending) \cup ToSet(mem.retry)
    BY <1>3, Joining DEF Alike
  <2>3. ToSet(p \o q) = ToSet(p) \cup ToSet(q)
    BY <1>4, <1>5, Joining
  <2> QED
    BY <2>1, <2>2, <2>3, <1>2, <1>4, <1>5
<1>9. PICK m, r, l, g, s : m = mem' /\ r = red' /\ l = last' /\ g = given' /\ s = batch'
  OBVIOUS
<1>10. /\ l["memory"] = l["redis"] /\ m.cursor = r.cursor
       /\ \A f \in Entries : g["memory"][f] = g["redis"][f]
       /\ ToSet(m.pending) = ToSet(s[c])
       /\ Len(m.retry \o s[c]) <= Count
       /\ Ascending(m.retry \o s[c])
  BY <1>2, <1>4, <1>6, <1>7, <1>9 DEF Alike
<1>11. RedPending' = ToSet(m.pending \o m.retry)
  BY <1>7, <1>8, <1>9
<1> QED
  BY <1>9, <1>10, <1>11 DEF Alike

\* Init has both alike.
LEMMA InitTogether == Init => Together
<1> SUFFICES ASSUME Init, NEW c \in deployed PROVE Alike(c)
  BY DEF Together
<1>1. /\ mem.cursor = 0 /\ mem.pending = <<>> /\ mem.retry = <<>> /\ red.cursor = 0
      /\ red.owner = [e \in Entries |-> NoOne]
      /\ last = [b \in Transports |-> <<>>]
      /\ given = [b \in Transports |-> [e \in Entries |-> 0]]
      /\ batch = [d \in Consumers |-> <<>>]
  BY DEF Init
<1>2. c \in Consumers /\ Count \in Nat
  BY BusConstants DEF Init
<1>3. batch[c] = <<>>
  BY <1>1, <1>2
<1>4. <<>> \o <<>> = <<>> /\ ToSet(<<>>) = {} /\ DOMAIN <<>> = {} /\ Len(<<>>) = 0
  <2>1. DOMAIN <<>> = {}
    BY EmptySeq
  <2>2. ToSet(<<>>) = {}
    BY <2>1 DEF ToSet
  <2> QED
    BY <2>1, <2>2, EmptySeq, ConcatEmptySeq
<1>5. Ascending(<<>>)
  BY <1>4 DEF Ascending
<1>6. RedPending = {}
  BY <1>1 DEF RedPending, PendingIn
<1>7. /\ last["memory"] = last["redis"]
      /\ \A e \in Entries : given["memory"][e] = given["redis"][e]
  BY <1>1 DEF Transports
<1> QED
  BY <1>1, <1>2, <1>3, <1>4, <1>5, <1>6, <1>7 DEF Alike

\* Every step leaves them alike, in the case it is about.
LEMMA NextTogether ==
  ASSUME BusInv, Together, [Next]_vars
  PROVE  Together'
<1> SUFFICES ASSUME Undisturbed' PROVE \A c \in deployed' : Alike(c)'
  BY DEF Together
<1>1. Shape /\ Undisturbed /\ UNCHANGED <<world, kept, lost>>
  BY StillUndisturbed DEF BusInv
<1>2. deployed' = deployed /\ \A c \in deployed : Alike(c)
  BY <1>1 DEF Together, world
<1>3. Sole(deployed)
  BY <1>1 DEF Shape, Undisturbed
<1> SUFFICES ASSUME NEW c \in deployed PROVE Alike(c)'
  BY <1>2
<1>4. deployed = {c} /\ Alike(c)
  BY <1>2, <1>3 DEF Sole
<1>5. CASE Publish
  BY <1>4, <1>5, AlikeStays DEF Publish
<1>6. CASE CreateGroup
  <2>1. /\ mem' = [mem EXCEPT !.cursor = tail] /\ red' = [red EXCEPT !.cursor = tail]
        /\ UNCHANGED <<last, given, batch>>
    BY <1>1, <1>6 DEF CreateGroup, Undisturbed, OnMemory, OnRedis, Transports
  <2>2. mem \in MemStates /\ red \in RedStates
    BY <1>1 DEF Shape
  <2>3. mem'.cursor = tail /\ mem'.pending = mem.pending /\ mem'.retry = mem.retry
    BY <2>1, <2>2 DEF MemStates
  <2>4. red'.cursor = tail /\ red'.owner = red.owner
    BY <2>1, <2>2 DEF RedStates
  <2> QED
    BY <2>1, <2>3, <2>4, <1>4 DEF Alike, RedPending, PendingIn
<1>7. CASE Wait
  BY <1>4, <1>7, AlikeStays DEF Wait
<1>8. CASE Subscribe(c)
  BY <1>1, <1>4, <1>8, SubscribeAlike
<1>9. CASE Reclaim(c)
  <2>1. lost' = lost + 1 /\ lost = 0
    BY <1>1, <1>9 DEF Reclaim, Undisturbed
  <2> QED
    BY <2>1, <1>1
<1>10. CASE Ack(c)
  BY <1>1, <1>4, <1>10, AckAlike
<1>11. CASE Nack(c)
  BY <1>1, <1>4, <1>11, NackAlike
<1>12. CASE Drop(c)
  <2>1. lost' = lost + 1 /\ lost = 0
    BY <1>1, <1>12 DEF Drop, Undisturbed
  <2> QED
    BY <2>1, <1>1
<1>13. CASE UNCHANGED vars
  BY <1>4, <1>13, AlikeStays DEF vars
<1> QED
  BY <1>4, <1>5, <1>6, <1>7, <1>8, <1>9, <1>10, <1>11, <1>12, <1>13 DEF Next

\* redis.py:12, tests/test_bus_redis.py:347: one consumer that acks or nacks what it is
\* given cannot tell the transports apart, however long it runs.
THEOREM AnswersAgree == Spec => []SameAnswers
<1>1. BusInv /\ Together => SameAnswers
  <2> SUFFICES ASSUME BusInv, Together, Undisturbed PROVE Agreed
    BY DEF SameAnswers, Undisturbed
  <2>1. PICK c \in deployed : TRUE
    BY Parts DEF BusInv
  <2>2. last["memory"] = last["redis"]
    BY <2>1 DEF Together, Alike
  <2> QED
    BY <2>2 DEF Agreed, Undisturbed, Transports
<1>2. BusInv /\ Together /\ [Next]_vars => Together'
  BY NextTogether
<1> QED
  BY BusInvariant, InitTogether, <1>1, <1>2, PTL DEF Spec
==============================================================================
