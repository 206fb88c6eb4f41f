----------------------------- MODULE Induction -----------------------------
(***************************************************************************)
(* Induction over the natural numbers in a form that takes a set, not an   *)
(* operator, and functions that are defined by recursion.                  *)
(***************************************************************************)
EXTENDS Integers, FiniteSets, FiniteSetTheorems, SequenceTheorems, WellFoundedInduction,
        TLAPS

\* A set of natural numbers that is not empty has a least element.
LEMMA LeastOfSet ==
  ASSUME NEW T \in SUBSET Nat, T # {}
  PROVE  \E m \in T : \A k \in T : m <= k
<1> DEFINE R == {ss \in Nat \X Nat : ss[1] < ss[2]}
<1>1. IsWellFoundedOn(R, Nat)
  BY NatLessThanWellFounded DEF OpToRel
<1> HIDE DEF R
<1>2. \E m \in T : \A k \in T : <<k, m>> \notin R
  BY <1>1, WFMin
<1>3. PICK m \in T : \A k \in T : <<k, m>> \notin R
  BY <1>2
<1>4. \A k \in T : ~(k < m)
  BY <1>3 DEF R
<1> QED
  BY <1>3, <1>4

\* A set of natural numbers with zero and the successors of its members is Nat.
LEMMA SetInduction ==
  ASSUME NEW T \in SUBSET Nat, 0 \in T, \A n \in T : n + 1 \in T
  PROVE  \A n \in Nat : n \in T
<1> SUFFICES ASSUME NEW n \in Nat, n \notin T
             PROVE  FALSE
  OBVIOUS
<1>1. PICK m \in Nat \ T : \A k \in Nat \ T : m <= k
  <2>1. Nat \ T \in SUBSET Nat /\ Nat \ T # {}
    OBVIOUS
  <2> QED
    BY <2>1, LeastOfSet
<1>2. m - 1 \in T
  BY <1>1
<1>3. m - 1 + 1 = m
  BY <1>1
<1> QED
  BY <1>1, <1>2, <1>3

\* Induction over the numbers up to N.
LEMMA SetInductionUpTo ==
  ASSUME NEW N \in Nat, NEW T \in SUBSET (0..N), 0 \in T,
         \A n \in T : n < N => n + 1 \in T
  PROVE  \A n \in 0..N : n \in T
<1> DEFINE U == {n \in Nat : n <= N => n \in T}
<1>1. U \in SUBSET Nat /\ 0 \in U
  OBVIOUS
<1>2. \A n \in U : n + 1 \in U
  OBVIOUS
<1> HIDE DEF U
<1>3. \A n \in Nat : n \in U
  BY <1>1, <1>2, SetInduction
<1> QED
  BY <1>3 DEF U

\* The function f over the numbers up to N starts with base and goes on with step.
RecursiveOnNumbers(f, N, V, base, step) ==
  /\ f \in [0..N -> V]
  /\ \A n \in 0..N : f[n] = IF n = 0 THEN base ELSE step[<<f[n - 1], n>>]

\* A function over the numbers up to N that is defined by recursion exists.
LEMMA RecursionOnNumbers ==
  ASSUME NEW N \in Nat, NEW V, NEW base \in V, NEW step \in [V \X (1..N) -> V]
  PROVE  \E f : RecursiveOnNumbers(f, N, V, base, step)
<1> DEFINE Solves(f, n) ==
             \A i \in 0..n : f[i] = IF i = 0 THEN base ELSE step[<<f[i - 1], i>>]
           T == {n \in 0..N : \E f \in [0..n -> V] : Solves(f, n)}
<1>1. 0 \in T
  <2> DEFINE f == [i \in 0..0 |-> base]
  <2>1. f \in [0..0 -> V]
    OBVIOUS
  <2>2. Solves(f, 0)
    OBVIOUS
  <2> HIDE DEF f, Solves
  <2>3. \E h \in [0..0 -> V] : Solves(h, 0)
    BY <2>1, <2>2
  <2> QED
    BY <2>3
<1>2. ASSUME NEW n \in T, n < N
      PROVE  n + 1 \in T
  <2>1. PICK f \in [0..n -> V] : Solves(f, n)
    OBVIOUS
  <2> DEFINE v == step[<<f[n], n + 1>>]
             g == [i \in 0..(n + 1) |-> IF i <= n THEN f[i] ELSE v]
  <2>2. n \in Nat /\ n + 1 \in 1..N
    BY <1>2
  <2>3. v \in V
    <3>1. f[n] \in V
      BY <2>1, <2>2
    <3> QED
      BY <2>2, <3>1
  <2>4. g \in [0..(n + 1) -> V]
    BY <2>1, <2>2, <2>3
  <2>5. Solves(g, n + 1)
    <3> SUFFICES ASSUME NEW i \in 0..(n + 1)
                 PROVE  g[i] = IF i = 0 THEN base ELSE step[<<g[i - 1], i>>]
      OBVIOUS
    <3>1. CASE i <= n
      <4>1. g[i] = f[i] /\ (i # 0 => g[i - 1] = f[i - 1])
        BY <2>2, <3>1
      <4>2. f[i] = IF i = 0 THEN base ELSE step[<<f[i - 1], i>>]
        BY <2>1, <2>2, <3>1
      <4> HIDE DEF g
      <4> QED
        BY <4>1, <4>2
    <3>2. CASE i = n + 1
      <4>1. i # 0 /\ g[i] = v /\ g[i - 1] = f[n]
        BY <2>2, <3>2
      <4> HIDE DEF g
      <4> QED
        BY <3>2, <4>1
    <3> QED
      BY <2>2, <3>1, <3>2
  <2> HIDE DEF g
  <2>6. \E h \in [0..(n + 1) -> V] : Solves(h, n + 1)
    BY <2>4, <2>5
  <2> QED
    BY <2>2, <2>6
<1> HIDE DEF Solves
<1>3. N \in T
  <2>1. T \in SUBSET (0..N)
    OBVIOUS
  <2> HIDE DEF T
  <2> QED
    BY <1>1, <1>2, <2>1, SetInductionUpTo
<1>4. PICK f \in [0..N -> V] : Solves(f, N)
  BY <1>3
<1>5. RecursiveOnNumbers(f, N, V, base, step)
  BY <1>4 DEF Solves, RecursiveOnNumbers
<1> QED
  BY <1>5

\* The function f over the subsets of S has value base at the empty set; at any
\* other it goes on, with step, from the value without the element picked.
RecursiveOnSubsets(f, S, V, base, pick, step) ==
  /\ f \in [SUBSET S -> V]
  /\ \A s \in SUBSET S : f[s] = IF s = {} THEN base
                               ELSE step[<<pick[s], f[s \ {pick[s]}]>>]

\* A function over the subsets of a finite set that is defined by removing one
\* element after the other exists.
LEMMA RecursionOnSubsets ==
  ASSUME NEW S, IsFiniteSet(S), NEW V, NEW base \in V,
         NEW pick, \A s \in SUBSET S : s # {} => pick[s] \in s,
         NEW step \in [S \X V -> V]
  PROVE  \E f : RecursiveOnSubsets(f, S, V, base, pick, step)
<1> DEFINE Small(n) == {s \in SUBSET S : Cardinality(s) <= n}
           Value(f, s) == IF s = {} THEN base ELSE step[<<pick[s], f[s \ {pick[s]}]>>]
           T == {n \in Nat : \E f \in [Small(n) -> V] : \A s \in Small(n) : f[s] = Value(f, s)}
<1>1. \A s \in SUBSET S : IsFiniteSet(s) /\ Cardinality(s) \in Nat
  BY FS_Subset, FS_CardinalityType
<1>2. ASSUME NEW s \in SUBSET S, s # {}
      PROVE  /\ pick[s] \in S
             /\ s \ {pick[s]} \in SUBSET S
             /\ Cardinality(s \ {pick[s]}) = Cardinality(s) - 1
  BY <1>1, <1>2, FS_RemoveElement
<1>3. 0 \in T
  <2> DEFINE f == [s \in Small(0) |-> base]
  <2>1. \A s \in Small(0) : s = {}
    BY <1>1, FS_EmptySet
  <2>2. f \in [Small(0) -> V] /\ \A s \in Small(0) : f[s] = Value(f, s)
    BY <2>1
  <2> HIDE DEF f, Small, Value
  <2> QED
    BY <2>2
<1>4. ASSUME NEW n \in T
      PROVE  n + 1 \in T
  <2>1. PICK f \in [Small(n) -> V] : \A s \in Small(n) : f[s] = Value(f, s)
    OBVIOUS
  <2> DEFINE g == [s \in Small(n + 1) |-> Value(f, s)]
  <2>2. n \in Nat
    OBVIOUS
  <2>3. ASSUME NEW s \in Small(n + 1), s # {}
        PROVE  s \ {pick[s]} \in Small(n)
    BY <1>1, <1>2, <2>2, <2>3
  <2>4. \A s \in Small(n + 1) : Value(f, s) \in V
    BY <1>2, <2>1, <2>3
  <2>5. g \in [Small(n + 1) -> V]
    BY <2>4
  <2>6. \A s \in Small(n) : s \in Small(n + 1) /\ g[s] = f[s]
    BY <1>1, <2>1, <2>2
  <2>7. \A s \in Small(n + 1) : g[s] = Value(g, s)
    <3> SUFFICES ASSUME NEW s \in Small(n + 1)
                 PROVE  Value(f, s) = Value(g, s)
      OBVIOUS
    <3> HIDE DEF g, Small
    <3> QED
      BY <2>3, <2>6
  <2> HIDE DEF g, Small, Value
  <2> QED
    BY <2>2, <2>5, <2>7
<1> HIDE DEF Value
<1>5. Cardinality(S) \in T
  <2>1. T \in SUBSET Nat
    OBVIOUS
  <2>2. Cardinality(S) \in Nat
    BY <1>1
  <2> HIDE DEF T
  <2> QED
    BY <1>3, <1>4, <2>1, <2>2, SetInduction
<1>6. Small(Cardinality(S)) = SUBSET S
  BY FS_Subset
<1>7. PICK f \in [SUBSET S -> V] : \A s \in SUBSET S : f[s] = Value(f, s)
  BY <1>5, <1>6
<1>8. RecursiveOnSubsets(f, S, V, base, pick, step)
  BY <1>7 DEF Value, RecursiveOnSubsets
<1> QED
  BY <1>8

\* A function that starts with base and goes on with step exists.
LEMMA IterationExists ==
  ASSUME NEW V, NEW base \in V, NEW step \in [V -> V]
  PROVE  \E f \in [Nat -> V] : \A n \in Nat : f[n] = IF n = 0 THEN base ELSE step[f[n - 1]]
<1> DEFINE Solves(f, N) ==
             \A n \in 0..N : f[n] = IF n = 0 THEN base ELSE step[f[n - 1]]
           up(N) == [x \in V \X (1..N) |-> step[x[1]]]
           F == [N \in Nat |-> CHOOSE f \in [0..N -> V] : Solves(f, N)]
           g == [N \in Nat |-> F[N][N]]
<1>1. ASSUME NEW N \in Nat
      PROVE  F[N] \in [0..N -> V] /\ Solves(F[N], N)
  <2>1. up(N) \in [V \X (1..N) -> V]
    OBVIOUS
  <2> HIDE DEF up
  <2>2. PICK f : RecursiveOnNumbers(f, N, V, base, up(N))
    BY <2>1, RecursionOnNumbers
  <2>3. f \in [0..N -> V]
    BY <2>2 DEF RecursiveOnNumbers
  <2>4. ASSUME NEW n \in 0..N
        PROVE  f[n] = IF n = 0 THEN base ELSE step[f[n - 1]]
    <3>1. f[n] = IF n = 0 THEN base ELSE up(N)[<<f[n - 1], n>>]
      BY <2>2 DEF RecursiveOnNumbers
    <3>2. CASE n = 0
      BY <3>1, <3>2
    <3>3. CASE n # 0
      <4>1. n \in 1..N /\ n - 1 \in 0..N
        BY <3>3
      <4>2. f[n - 1] \in V
        BY <2>3, <4>1
      <4>3. up(N)[<<f[n - 1], n>>] = step[f[n - 1]]
        BY <4>1, <4>2 DEF up
      <4> QED
        BY <3>1, <3>3, <4>3
    <3> QED
      BY <3>2, <3>3
  <2>5. Solves(f, N)
    BY <2>4
  <2> HIDE DEF Solves
  <2> QED
    BY <2>3, <2>5
<1>2. ASSUME NEW N \in Nat, NEW M \in Nat, N <= M
      PROVE  \A n \in 0..N : F[N][n] = F[M][n]
  <2> DEFINE T == {n \in 0..N : F[N][n] = F[M][n]}
  <2>1. Solves(F[N], N) /\ Solves(F[M], M)
    BY <1>1
  <2> HIDE DEF F
  <2>2. 0 \in T
    BY <1>2, <2>1
  <2>3. ASSUME NEW n \in T, n < N
        PROVE  n + 1 \in T
    <3>1. n + 1 \in 0..N /\ n + 1 \in 0..M /\ n + 1 # 0 /\ n + 1 - 1 = n
      BY <1>2, <2>3
    <3>2. F[N][n + 1] = step[F[N][n]] /\ F[M][n + 1] = step[F[M][n]]
      BY <2>1, <3>1
    <3> QED
      BY <3>1, <3>2
  <2>4. T \in SUBSET (0..N)
    OBVIOUS
  <2> HIDE DEF T
  <2>5. \A n \in 0..N : n \in T
    BY <2>2, <2>3, <2>4, SetInductionUpTo
  <2> QED
    BY <2>5 DEF T
<1>3. g \in [Nat -> V]
  BY <1>1
<1>4. ASSUME NEW n \in Nat
      PROVE  g[n] = IF n = 0 THEN base ELSE step[g[n - 1]]
  <2>1. g[n] = F[n][n] /\ Solves(F[n], n)
    BY <1>1
  <2>2. n # 0 => g[n - 1] = F[n - 1][n - 1] /\ F[n - 1][n - 1] = F[n][n - 1]
    <3> SUFFICES ASSUME n # 0
                 PROVE  g[n - 1] = F[n - 1][n - 1] /\ F[n - 1][n - 1] = F[n][n - 1]
      OBVIOUS
    <3>1. n - 1 \in Nat /\ n - 1 <= n /\ n - 1 \in 0..(n - 1)
      OBVIOUS
    <3>2. g[n - 1] = F[n - 1][n - 1]
      BY <3>1
    <3> HIDE DEF F, g
    <3> QED
      BY <1>2, <3>1, <3>2
  <2> HIDE DEF F, g
  <2> QED
    BY <2>1, <2>2
<1> HIDE DEF g
<1> QED
  BY <1>3, <1>4

-----------------------------------------------------------------------------
(* Sequences one after the other.                                          *)

\* f[i] is the first i of the sequences s, one after the other.
Joins(f, s, C) ==
  /\ f \in [0..Len(s) -> Seq(C)]
  /\ f[0] = <<>>
  /\ \A i \in 1..Len(s) : f[i] = f[i - 1] \o s[i]

\* What FlattenSeq of SequencesExt is.  That module is not extended here: with it
\* comes a local operator of Bags, Sum, which the prover takes for the Sum of others.
Flattened(s) ==
  IF Len(s) = 0 THEN s
  ELSE LET flatten[i \in 1..Len(s)] == IF i = 1 THEN s[i] ELSE flatten[i - 1] \o s[i]
       IN flatten[Len(s)]

\* What sequences are when they are joined.
LEMMA FlattenedIs ==
  ASSUME NEW C, NEW s \in Seq(Seq(C))
  PROVE  \E f : Joins(f, s, C) /\ Flattened(s) = f[Len(s)]
<1> DEFINE n == Len(s)
           step == [x \in Seq(C) \X (1..n) |-> x[1] \o s[x[2]]]
           Solves(g) == g = [i \in 1..n |-> IF i = 1 THEN s[i] ELSE g[i - 1] \o s[i]]
           flatten == CHOOSE g : Solves(g)
<1>1. n \in Nat /\ \A i \in 1..n : s[i] \in Seq(C)
  BY ElementOfSeq, LenProperties
<1>2. Flattened(s) = IF n = 0 THEN s ELSE flatten[n]
  BY DEF Flattened
<1>3. n = 0 => s = <<>>
  BY EmptySeq
<1> HIDE DEF n
<1>4. step \in [Seq(C) \X (1..n) -> Seq(C)]
  BY <1>1, ConcatProperties
<1>5. <<>> \in Seq(C)
  OBVIOUS
<1>6. PICK f : RecursiveOnNumbers(f, n, Seq(C), <<>>, step)
  <2> HIDE DEF step
  <2> QED
    BY <1>1, <1>4, <1>5, RecursionOnNumbers
<1>7. /\ f \in [0..n -> Seq(C)]
      /\ \A i \in 0..n : f[i] = IF i = 0 THEN <<>> ELSE step[<<f[i - 1], i>>]
  BY <1>6 DEF RecursiveOnNumbers
<1>8. \A i \in 1..n : f[i] = f[i - 1] \o s[i]
  <2> SUFFICES ASSUME NEW i \in 1..n
               PROVE  f[i] = f[i - 1] \o s[i]
    OBVIOUS
  <2>1. i - 1 \in 0..n /\ i # 0 /\ i \in 0..n
    BY <1>1
  <2>2. f[i] = step[<<f[i - 1], i>>] /\ f[i - 1] \in Seq(C)
    BY <1>7, <2>1
  <2> QED
    BY <2>2
<1>9. f[0] = <<>>
  <2>1. 0 \in 0..n
    BY <1>1
  <2> HIDE DEF step
  <2> QED
    BY <1>7, <2>1
<1> HIDE DEF step
<1>10. Joins(f, s, C)
  BY <1>7, <1>8, <1>9 DEF Joins, n
<1>11. CASE n = 0
  BY <1>2, <1>3, <1>9, <1>10, <1>11 DEF n
<1>12. CASE n # 0
  <2> DEFINE g == [i \in 1..n |-> f[i]]
  <2>1. Solves(g)
    <3> SUFFICES ASSUME NEW i \in 1..n
                 PROVE  f[i] = IF i = 1 THEN s[i] ELSE g[i - 1] \o s[i]
      OBVIOUS
    <3>1. CASE i = 1
      <4>1. f[i] = f[i - 1] \o s[i]
        BY <1>8
      <4>2. i - 1 = 0
        BY <3>1
      <4>3. s[i] \in Seq(C)
        BY <1>1
      <4>4. <<>> \o s[i] = s[i]
        BY <4>3, ConcatEmptySeq
      <4> QED
        BY <1>9, <3>1, <4>1, <4>2, <4>4
    <3>2. CASE i # 1
      <4>1. i - 1 \in 1..n
        BY <1>1, <3>2
      <4> QED
        BY <1>8, <3>2, <4>1
    <3> QED
      BY <3>1, <3>2
  <2>2. Solves(flatten)
    <3> HIDE DEF Solves, g
    <3> QED
      BY <2>1
  <2> HIDE DEF flatten
  <2>3. \A i \in 1..n : flatten[i] = IF i = 1 THEN s[i] ELSE flatten[i - 1] \o s[i]
    BY <2>2
  <2> HIDE DEF Solves
  <2> DEFINE T == {i \in 0..n : i > 0 => flatten[i] = f[i]}
  <2>4. 0 \in T
    BY <1>1
  <2>5. ASSUME NEW i \in T, i < n
        PROVE  i + 1 \in T
    <3> DEFINE j == i + 1
    <3>1. j \in 1..n /\ j - 1 = i /\ (i = 0 <=> j = 1) /\ (i > 0 => flatten[i] = f[i])
      BY <1>1, <2>5
    <3> HIDE DEF j
    <3>2. f[j] = f[i] \o s[j] /\ s[j] \in Seq(C)
      BY <1>1, <1>8, <3>1
    <3>5. j \in 0..n
      BY <1>1, <3>1
    <3>3. CASE i = 0
      <4>1. flatten[j] = s[j]
        BY <2>3, <3>1, <3>3
      <4>2. <<>> \o s[j] = s[j]
        BY <3>2, ConcatEmptySeq
      <4>3. flatten[j] = f[j]
        BY <1>9, <3>2, <3>3, <4>1, <4>2
      <4> QED
        BY <3>5, <4>3 DEF j
    <3>4. CASE i # 0
      <4>1. i > 0 /\ j # 1
        BY <3>1, <3>4
      <4>2. flatten[j] = flatten[i] \o s[j]
        BY <2>3, <3>1, <4>1
      <4>3. flatten[j] = f[j]
        BY <3>1, <3>2, <4>1, <4>2
      <4> QED
        BY <3>5, <4>3 DEF j
    <3> QED
      BY <3>3, <3>4
  <2>6. T \in SUBSET (0..n)
    OBVIOUS
  <2> HIDE DEF T
  <2>7. \A i \in 0..n : i \in T
    BY <1>1, <2>4, <2>5, <2>6, SetInductionUpTo
  <2>8. flatten[n] = f[n]
    BY <1>1, <1>12, <2>7 DEF T
  <2> QED
    BY <1>2, <1>10, <1>12, <2>8 DEF n
<1> QED
  BY <1>11, <1>12
=============================================================================
