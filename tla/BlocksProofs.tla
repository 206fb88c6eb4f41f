---------------------------- MODULE BlocksProofs ----------------------------
(***************************************************************************)
(* Theorems about the reader of the block files (modules BlkFormat and     *)
(* BlkFile) and about the Merkle root of a block (modules MerkleTree and   *)
(* Merkle): for files, and for lists of transactions, of any length.       *)
(***************************************************************************)
EXTENDS MCBlocks, Induction, SequenceTheorems, FiniteSetTheorems

IsSeq(s) == Len(s) \in Nat /\ s = [i \in 1..Len(s) |-> s[i]]

Leaves(l) == [i \in DOMAIN l |-> <<l[i]>>]

\* The first levels of the tree over a list, the leaves and d more: each is made
\* of more than one hash, and of it the next.
Climbs(g, d, l) ==
  /\ d \in Nat
  /\ g[0] = Leaves(l)
  /\ \A k \in 0..(d - 1) : Len(g[k]) > 1 /\ g[k + 1] = Tree!Level(g[k])

NoPair(g, d) == \A k \in 0..(d - 1) : ~Tree!EqualPair(g[k])

-----------------------------------------------------------------------------
(* One level.                                                              *)

\* A function over 1..n is a sequence of length n.
LEMMA FunctionIsSeq ==
  ASSUME NEW n \in Nat, NEW s, s = [i \in 1..n |-> s[i]]
  PROVE  IsSeq(s) /\ Len(s) = n /\ DOMAIN s = 1..n /\ s \in Seq(Range(s))
<1>1. DOMAIN s = 1..n
  OBVIOUS
<1>2. \A i \in 1..n : s[i] \in Range(s)
  BY <1>1 DEF Range
<1>3. [i \in 1..n |-> s[i]] \in Seq(Range(s))
  BY <1>2, IsASeq
<1>4. s \in Seq(Range(s))
  BY <1>3
<1>5. Len(s) \in Nat /\ DOMAIN s = 1..Len(s)
  BY <1>4, LenProperties
<1>6. ASSUME NEW k \in Nat, 1..k = 1..n
      PROVE  k = n
  BY <1>6
<1>7. Len(s) = n
  BY <1>1, <1>5, <1>6
<1> QED
  BY <1>1, <1>4, <1>7 DEF IsSeq

\* An odd level repeats its last hash, and the next level pairs the hashes.
LEMMA LevelShape ==
  ASSUME NEW h, IsSeq(h), Len(h) > 0
  PROVE  \E n \in Nat \ {0} :
           LET p == Tree!Padded(h)
           IN /\ 2 * n \in {Len(h), Len(h) + 1}
              /\ DOMAIN p = 1..(2 * n)
              /\ \A i \in 1..Len(h) : p[i] = h[i]
              /\ 2 * n = Len(h) + 1 => p[2 * n] = h[Len(h)]
              /\ Tree!Level(h) = [i \in 1..n |-> <<p[2 * i - 1], p[2 * i]>>]
              /\ IsSeq(Tree!Level(h)) /\ Len(Tree!Level(h)) = n
<1>1. Len(h) \in Nat /\ h = [i \in 1..Len(h) |-> h[i]]
  BY DEF IsSeq
<1>2. DOMAIN h = 1..Len(h) /\ h \in Seq(Range(h))
  BY <1>1, FunctionIsSeq
<1> DEFINE p == Tree!Padded(h)
<1>3. \E n \in Nat \ {0} :
        /\ 2 * n \in {Len(h), Len(h) + 1}
        /\ DOMAIN p = 1..(2 * n) /\ Len(p) = 2 * n
        /\ \A i \in 1..Len(h) : p[i] = h[i]
        /\ 2 * n = Len(h) + 1 => p[2 * n] = h[Len(h)]
  <2>1. CASE Len(h) % 2 = 1
    <3>1. PICK n \in Nat \ {0} : 2 * n = Len(h) + 1
      <4>1. (Len(h) + 1) \div 2 \in Nat \ {0} /\ 2 * ((Len(h) + 1) \div 2) = Len(h) + 1
        BY <1>1, <2>1
      <4> QED
        BY <4>1
    <3>2. p = Append(h, h[Len(h)])
      BY <2>1 DEF Tree!Padded
    <3>3. h[Len(h)] \in Range(h)
      BY <1>1, <1>2 DEF Range
    <3>4. /\ p \in Seq(Range(h)) /\ Len(p) = Len(h) + 1
          /\ \A i \in 1..Len(h) : p[i] = h[i]
          /\ p[Len(h) + 1] = h[Len(h)]
      BY <1>2, <3>2, <3>3, AppendProperties
    <3>5. DOMAIN p = 1..Len(p)
      BY <3>4, LenProperties
    <3> QED
      BY <3>1, <3>4, <3>5
  <2>2. CASE Len(h) % 2 # 1
    <3>1. PICK n \in Nat \ {0} : 2 * n = Len(h)
      <4>1. ASSUME NEW k \in Nat \ {0}, k % 2 # 1
            PROVE  k \div 2 \in Nat \ {0} /\ 2 * (k \div 2) = k
        BY <4>1
      <4>2. Len(h) \in Nat \ {0}
        BY <1>1
      <4>3. Len(h) \div 2 \in Nat \ {0} /\ 2 * (Len(h) \div 2) = Len(h)
        BY <2>2, <4>1, <4>2
      <4> QED
        BY <4>3
    <3>2. p = h
      BY <2>2 DEF Tree!Padded
    <3> QED
      BY <1>2, <3>1, <3>2
  <2> QED
    BY <2>1, <2>2
<1>4. PICK n \in Nat \ {0} :
        /\ 2 * n \in {Len(h), Len(h) + 1}
        /\ DOMAIN p = 1..(2 * n) /\ Len(p) = 2 * n
        /\ \A i \in 1..Len(h) : p[i] = h[i]
        /\ 2 * n = Len(h) + 1 => p[2 * n] = h[Len(h)]
  BY <1>3
<1>5. Tree!Level(h) = [i \in 1..n |-> <<p[2 * i - 1], p[2 * i]>>]
  <2>1. Len(p) \div 2 = n
    BY <1>4
  <2> QED
    BY <2>1 DEF Tree!Level
<1>6. IsSeq(Tree!Level(h)) /\ Len(Tree!Level(h)) = n
  <2>1. Tree!Level(h) = [i \in 1..n |-> Tree!Level(h)[i]]
    BY <1>5
  <2> QED
    BY <2>1, FunctionIsSeq
<1> QED
  BY <1>4, <1>5, <1>6

\* A level without an equal pair is determined by the next one: the last hash of
\* an odd level cannot be mistaken for one that was there twice.
LEMMA LevelInjective ==
  ASSUME NEW a, NEW b, IsSeq(a), IsSeq(b), Len(a) > 0, Len(b) > 0,
         ~Tree!EqualPair(a), ~Tree!EqualPair(b), Tree!Level(a) = Tree!Level(b)
  PROVE  a = b
<1> DEFINE p == Tree!Padded(a)
           q == Tree!Padded(b)
<1>1. PICK n \in Nat \ {0} :
        /\ 2 * n \in {Len(a), Len(a) + 1}
        /\ \A i \in 1..Len(a) : p[i] = a[i]
        /\ 2 * n = Len(a) + 1 => p[2 * n] = a[Len(a)]
        /\ Tree!Level(a) = [i \in 1..n |-> <<p[2 * i - 1], p[2 * i]>>]
        /\ Len(Tree!Level(a)) = n
  BY LevelShape
<1>2. PICK k \in Nat \ {0} :
        /\ 2 * k \in {Len(b), Len(b) + 1}
        /\ \A i \in 1..Len(b) : q[i] = b[i]
        /\ 2 * k = Len(b) + 1 => q[2 * k] = b[Len(b)]
        /\ Tree!Level(b) = [i \in 1..k |-> <<q[2 * i - 1], q[2 * i]>>]
        /\ Len(Tree!Level(b)) = k
  BY LevelShape
<1>3. k = n
  BY <1>1, <1>2
<1> HIDE DEF p, q
<1>4. ASSUME NEW i \in 1..n
      PROVE  p[2 * i - 1] = q[2 * i - 1] /\ p[2 * i] = q[2 * i]
  <2>1. <<p[2 * i - 1], p[2 * i]>> = <<q[2 * i - 1], q[2 * i]>>
    <3>1. Tree!Level(a)[i] = <<p[2 * i - 1], p[2 * i]>>
      BY <1>1
    <3>2. Tree!Level(b)[i] = <<q[2 * i - 1], q[2 * i]>>
      BY <1>2, <1>3
    <3> QED
      BY <3>1, <3>2
  <2> QED
    BY <2>1
<1>5. \A j \in 1..(2 * n) : p[j] = q[j]
  <2> TAKE j \in 1..(2 * n)
  <2>1. PICK i \in 1..n : j = 2 * i - 1 \/ j = 2 * i
    <3>1. (j + 1) \div 2 \in 1..n /\ (j = 2 * ((j + 1) \div 2) - 1 \/ j = 2 * ((j + 1) \div 2))
      OBVIOUS
    <3> QED
      BY <3>1
  <2> QED
    BY <1>4, <2>1
<1>6. Len(a) \in Nat /\ Len(b) \in Nat
  BY DEF IsSeq
<1>7. CASE Len(a) = Len(b)
  <2>1. \A i \in 1..Len(a) : a[i] = b[i]
    <3> TAKE i \in 1..Len(a)
    <3>1. i \in 1..(2 * n) /\ i \in 1..Len(b)
      BY <1>1, <1>6, <1>7
    <3> QED
      BY <1>1, <1>2, <1>5, <3>1
  <2> QED
    BY <1>7, <2>1 DEF IsSeq
<1>8. ~(Len(a) = 2 * n /\ Len(b) + 1 = 2 * n)
  <2> SUFFICES ASSUME Len(a) = 2 * n, Len(b) + 1 = 2 * n
               PROVE  FALSE
    OBVIOUS
  <2>1. q[2 * n] = b[2 * n - 1] /\ q[2 * n - 1] = b[2 * n - 1]
    <3>1. Len(b) = 2 * n - 1 /\ 2 * n - 1 \in 1..Len(b)
      BY <1>6
    <3> QED
      BY <1>2, <1>3, <3>1
  <2>2. 2 * n \in 1..Len(a) /\ 2 * n - 1 \in 1..Len(a) /\ n \in 1..(Len(a) \div 2)
    OBVIOUS
  <2>3. a[2 * n] = a[2 * n - 1]
    BY <1>1, <1>5, <2>1, <2>2
  <2> QED
    BY <2>2, <2>3 DEF Tree!EqualPair
<1>9. ~(Len(b) = 2 * n /\ Len(a) + 1 = 2 * n)
  <2> SUFFICES ASSUME Len(b) = 2 * n, Len(a) + 1 = 2 * n
               PROVE  FALSE
    OBVIOUS
  <2>1. p[2 * n] = a[2 * n - 1] /\ p[2 * n - 1] = a[2 * n - 1]
    <3>1. Len(a) = 2 * n - 1 /\ 2 * n - 1 \in 1..Len(a)
      BY <1>6
    <3> QED
      BY <1>1, <3>1
  <2>2. 2 * n \in 1..Len(b) /\ 2 * n - 1 \in 1..Len(b) /\ n \in 1..(Len(b) \div 2)
    OBVIOUS
  <2>3. b[2 * n] = b[2 * n - 1]
    BY <1>2, <1>5, <2>1, <2>2
  <2> QED
    BY <2>2, <2>3 DEF Tree!EqualPair
<1> QED
  BY <1>1, <1>2, <1>3, <1>6, <1>7, <1>8, <1>9

-----------------------------------------------------------------------------
(* The whole tree.                                                         *)

\* There is a leaf for each transaction.
LEMMA LeavesSeq ==
  ASSUME NEW l, IsSeq(l)
  PROVE  IsSeq(Leaves(l)) /\ Len(Leaves(l)) = Len(l) /\ \A i \in 1..Len(l) : Leaves(l)[i] = <<l[i]>>
<1>1. Len(l) \in Nat /\ DOMAIN l = 1..Len(l)
  BY FunctionIsSeq DEF IsSeq
<1>2. Leaves(l) = [i \in 1..Len(l) |-> Leaves(l)[i]] /\ \A i \in 1..Len(l) : Leaves(l)[i] = <<l[i]>>
  BY <1>1 DEF Leaves
<1> QED
  BY <1>1, <1>2, FunctionIsSeq

\* Every level is a nonempty sequence.
LEMMA ClimbSeqs ==
  ASSUME NEW g, NEW d, NEW l, Climbs(g, d, l), IsSeq(l), Len(l) > 0
  PROVE  \A k \in 0..d : IsSeq(g[k]) /\ Len(g[k]) \in Nat \ {0}
<1> DEFINE T == {k \in 0..d : IsSeq(g[k]) /\ Len(g[k]) \in Nat \ {0}}
<1>1. d \in Nat /\ T \in SUBSET (0..d)
  BY DEF Climbs
<1>2. 0 \in T
  <2>1. Len(l) \in Nat \ {0}
    BY DEF IsSeq
  <2> QED
    BY <1>1, <2>1, LeavesSeq DEF Climbs
<1>3. ASSUME NEW k \in T, k < d
      PROVE  k + 1 \in T
  <2>1. k \in 0..(d - 1) /\ k + 1 \in 0..d
    BY <1>1, <1>3
  <2>2. g[k + 1] = Tree!Level(g[k])
    BY <2>1 DEF Climbs
  <2>3. IsSeq(g[k]) /\ Len(g[k]) > 0
    OBVIOUS
  <2>4. IsSeq(Tree!Level(g[k])) /\ Len(Tree!Level(g[k])) \in Nat \ {0}
    BY <2>3, LevelShape
  <2> QED
    BY <2>1, <2>2, <2>4
<1> HIDE DEF T
<1>4. \A k \in 0..d : k \in T
  BY <1>1, <1>2, <1>3, SetInductionUpTo
<1> QED
  BY <1>4 DEF T

\* A level above the leaves has no leaf.
LEMMA LeafOrNode ==
  ASSUME NEW g, NEW d, NEW a, Climbs(g, d, a), IsSeq(a), Len(a) > 0, NEW k \in 1..d,
         NEW b, IsSeq(b), Len(b) > 0
  PROVE  g[k] # Leaves(b)
<1>1. k - 1 \in 0..(d - 1) /\ k - 1 \in 0..d /\ k - 1 + 1 = k
  BY DEF Climbs
<1>2. g[k] = Tree!Level(g[k - 1])
  BY <1>1 DEF Climbs
<1>3. IsSeq(g[k - 1]) /\ Len(g[k - 1]) > 0
  BY <1>1, ClimbSeqs
<1>4. \E x, y : Tree!Level(g[k - 1])[1] = <<x, y>>
  <2>1. PICK n \in Nat \ {0} : LET p == Tree!Padded(g[k - 1])
                               IN Tree!Level(g[k - 1]) = [i \in 1..n |-> <<p[2 * i - 1], p[2 * i]>>]
    BY <1>3, LevelShape
  <2> DEFINE p == Tree!Padded(g[k - 1])
  <2>2. 1 \in 1..n
    OBVIOUS
  <2>3. Tree!Level(g[k - 1]) = [i \in 1..n |-> <<p[2 * i - 1], p[2 * i]>>]
    BY <2>1
  <2> HIDE DEF p
  <2>4. Tree!Level(g[k - 1])[1] = <<p[2 * 1 - 1], p[2 * 1]>>
    BY <2>2, <2>3
  <2> QED
    BY <2>4
<1>5. Leaves(b)[1] = <<b[1]>>
  BY LeavesSeq DEF IsSeq
<1>6. \A x, y, z : <<x, y>> # <<z>>
  <2> TAKE x, y, z
  <2>1. Len(<<x, y>>) = 2 /\ Len(<<z>>) = 1
    OBVIOUS
  <2> QED
    BY <2>1
<1> QED
  BY <1>2, <1>4, <1>5, <1>6

\* From equal roots down, the levels of two trees without equal pairs are equal.
LEMMA SameLevels ==
  ASSUME NEW g, NEW d, NEW a, Climbs(g, d, a), IsSeq(a), Len(a) > 0,
         NEW h, NEW e, NEW b, Climbs(h, e, b), IsSeq(b), Len(b) > 0,
         NoPair(g, d), NoPair(h, e), g[d] = h[e], d <= e
  PROVE  \A k \in 0..d : g[d - k] = h[e - k]
<1> DEFINE T == {k \in 0..d : g[d - k] = h[e - k]}
<1>1. d \in Nat /\ e \in Nat /\ T \in SUBSET (0..d)
  BY DEF Climbs
<1>2. 0 \in T
  BY <1>1
<1>3. ASSUME NEW k \in T, k < d
      PROVE  k + 1 \in T
  <2> DEFINE i == d - (k + 1)
             j == e - (k + 1)
  <2>1. /\ k \in Nat /\ k + 1 \in 0..d
        /\ i \in 0..(d - 1) /\ i \in 0..d /\ i + 1 = d - k
        /\ j \in 0..(e - 1) /\ j \in 0..e /\ j + 1 = e - k
    BY <1>1, <1>3
  <2> HIDE DEF i, j
  <2>2. g[i + 1] = Tree!Level(g[i]) /\ h[j + 1] = Tree!Level(h[j])
    BY <2>1 DEF Climbs
  <2>3. ~Tree!EqualPair(g[i]) /\ ~Tree!EqualPair(h[j])
    BY <2>1 DEF NoPair
  <2>4. IsSeq(g[i]) /\ Len(g[i]) > 0 /\ IsSeq(h[j]) /\ Len(h[j]) > 0
    <3>1. Len(g[i]) \in Nat \ {0} /\ Len(h[j]) \in Nat \ {0} /\ IsSeq(g[i]) /\ IsSeq(h[j])
      BY <2>1, ClimbSeqs
    <3> QED
      BY <3>1
  <2>5. g[i + 1] = h[j + 1]
    BY <2>1
  <2>6. g[i] = h[j]
    BY <2>2, <2>3, <2>4, <2>5, LevelInjective
  <2> QED
    BY <2>1, <2>6 DEF i, j
<1> HIDE DEF T
<1>4. \A k \in 0..d : k \in T
  BY <1>1, <1>2, <1>3, SetInductionUpTo
<1> QED
  BY <1>4 DEF T

\* Two lists with one root, neither with an equal pair, are one list.
LEMMA OneListOrdered ==
  ASSUME NEW g, NEW d, NEW a, Climbs(g, d, a), IsSeq(a), Len(a) > 0,
         NEW h, NEW e, NEW b, Climbs(h, e, b), IsSeq(b), Len(b) > 0,
         NoPair(g, d), NoPair(h, e), g[d] = h[e], d <= e
  PROVE  a = b
<1>1. d \in Nat /\ e \in Nat /\ g[0] = Leaves(a) /\ h[0] = Leaves(b)
  BY DEF Climbs
<1>2. d \in 0..d /\ d - d = 0
  BY <1>1
<1>3. g[0] = h[e - d]
  <2>1. \A k \in 0..d : g[d - k] = h[e - k]
    BY SameLevels
  <2> QED
    BY <1>2, <2>1
<1>4. e = d
  <2> SUFFICES ASSUME e # d
               PROVE  FALSE
    OBVIOUS
  <2>1. e - d \in 1..e
    BY <1>1
  <2>2. h[e - d] # Leaves(a)
    BY <2>1, LeafOrNode
  <2> QED
    BY <1>1, <1>3, <2>2
<1>5. Leaves(a) = Leaves(b)
  BY <1>1, <1>3, <1>4
<1>6. /\ Len(Leaves(a)) = Len(a) /\ Len(Leaves(b)) = Len(b)
      /\ \A i \in 1..Len(a) : Leaves(a)[i] = <<a[i]>>
      /\ \A i \in 1..Len(b) : Leaves(b)[i] = <<b[i]>>
  BY LeavesSeq
<1>7. Len(a) = Len(b) /\ \A i \in 1..Len(a) : <<a[i]>> = <<b[i]>>
  BY <1>5, <1>6
<1>8. \A i \in 1..Len(a) : a[i] = b[i]
  BY <1>7
<1> QED
  BY <1>7, <1>8 DEF IsSeq

\* The same, whichever tree is the higher.
LEMMA OneList ==
  ASSUME NEW g, NEW d, NEW a, Climbs(g, d, a), IsSeq(a), Len(a) > 0,
         NEW h, NEW e, NEW b, Climbs(h, e, b), IsSeq(b), Len(b) > 0,
         NoPair(g, d), NoPair(h, e),
         Len(g[d]) = 1, Len(h[e]) = 1, g[d][1] = h[e][1]
  PROVE  a = b
<1>1. g[d] = h[e]
  <2>1. IsSeq(g[d]) /\ IsSeq(h[e])
    <3>1. d \in 0..d /\ e \in 0..e
      BY DEF Climbs
    <3> QED
      BY <3>1, ClimbSeqs
  <2>2. g[d] = [i \in 1..1 |-> g[d][i]] /\ h[e] = [i \in 1..1 |-> h[e][i]]
    BY <2>1 DEF IsSeq
  <2>3. \A i \in 1..1 : g[d][i] = h[e][i]
    OBVIOUS
  <2> QED
    BY <2>2, <2>3
<1>2. d \in Nat /\ e \in Nat
  BY DEF Climbs
<1>3. CASE d <= e
  BY <1>1, <1>3, OneListOrdered
<1>4. CASE e <= d
  BY <1>1, <1>4, OneListOrdered
<1> QED
  BY <1>2, <1>3, <1>4

-----------------------------------------------------------------------------
(* The fold of computeMerkleRoot is the levels one after the other.        *)

\* The levels with their flags, n rounds of them.
Rounds(f, n, l) ==
  /\ f[0] = [hashes |-> Leaves(l), mutated |-> FALSE]
  /\ \A i \in 0..(n - 1) : f[i + 1] = Tree!Up(f[i])

\* However many rounds are made, there are levels that they make.
LEMMA RoundsExist ==
  ASSUME NEW l, NEW N \in Nat
  PROVE  \E f : Rounds(f, N, l)
<1> DEFINE T == {n \in Nat : \E f : Rounds(f, n, l)}
           base == [hashes |-> Leaves(l), mutated |-> FALSE]
<1>1. 0 \in T
  <2> DEFINE f == [i \in {0} |-> base]
  <2>1. f[0] = base
    OBVIOUS
  <2> HIDE DEF f
  <2>2. Rounds(f, 0, l)
    BY <2>1 DEF Rounds
  <2> QED
    BY <2>2
<1>2. ASSUME NEW n \in T
      PROVE  n + 1 \in T
  <2>1. PICK f : Rounds(f, n, l)
    OBVIOUS
  <2> DEFINE g == [i \in 0..(n + 1) |-> IF i <= n THEN f[i] ELSE Tree!Up(f[n])]
  <2>2. n \in Nat
    OBVIOUS
  <2>3. g[0] = f[0] /\ \A i \in 0..n : g[i] = f[i]
    BY <2>2
  <2>4. g[n + 1] = Tree!Up(f[n])
    BY <2>2
  <2> HIDE DEF g
  <2>5. ASSUME NEW i \in 0..(n + 1 - 1)
        PROVE  g[i + 1] = Tree!Up(g[i])
    <3>1. CASE i = n
      BY <2>2, <2>3, <2>4, <3>1
    <3>2. CASE i # n
      <4>1. i \in 0..(n - 1) /\ i \in 0..n /\ i + 1 \in 0..n
        BY <2>2, <2>5, <3>2
      <4>2. f[i + 1] = Tree!Up(f[i])
        BY <2>1, <4>1 DEF Rounds
      <4> QED
        BY <2>3, <4>1, <4>2
    <3> QED
      BY <3>1, <3>2
  <2>6. Rounds(g, n + 1, l)
    BY <2>1, <2>3, <2>5 DEF Rounds
  <2> QED
    BY <2>2, <2>6
<1>3. T \in SUBSET Nat
  OBVIOUS
<1> HIDE DEF T
<1>4. N \in T
  BY <1>1, <1>2, <1>3, SetInduction
<1> QED
  BY <1>4 DEF T

\* The greatest element of a nonempty set of positions.
LEMMA MaxInSet ==
  ASSUME NEW N \in Nat, NEW s \in SUBSET (1..N), s # {}
  PROVE  Tree!Max(s) \in s
<1> DEFINE T == {k \in Nat : N - k \in s}
<1>1. PICK x \in s : TRUE
  OBVIOUS
<1>2. x \in 1..N /\ N - x \in Nat /\ N - (N - x) = x
  OBVIOUS
<1>3. T \in SUBSET Nat /\ T # {}
  BY <1>2
<1> HIDE DEF T
<1>4. PICK m \in T : \A k \in T : m <= k
  BY <1>3, LeastOfSet
<1>5. m \in Nat /\ N - m \in s
  BY <1>4 DEF T
<1>6. ASSUME NEW y \in s
      PROVE  N - m >= y
  <2>1. y \in 1..N /\ N - y \in Nat /\ N - (N - y) = y
    OBVIOUS
  <2>2. N - y \in T
    BY <2>1 DEF T
  <2>3. m <= N - y
    BY <1>4, <2>2
  <2> QED
    BY <1>5, <2>1, <2>3
<1>7. \E z \in s : \A y \in s : z >= y
  BY <1>5, <1>6
<1> QED
  BY <1>7 DEF Tree!Max

\* The result of computeMerkleRoot is that of as many rounds as there are leaves.
LEMMA FoldIsRounds ==
  ASSUME NEW l, IsSeq(l), NEW f, Rounds(f, Len(l), l)
  PROVE  Tree!computeTxMerkleRoot(l) =
           [root |-> f[Len(l)].hashes[1], mutated |-> f[Len(l)].mutated]
<1> DEFINE N == Len(l)
           S == 1..N
           base == [hashes |-> Leaves(l), mutated |-> FALSE]
           Solves(it) == it = [s \in SUBSET S |->
                                 IF s = {} THEN base ELSE Tree!Up(it[s \ {Tree!Max(s)}])]
           iter == CHOOSE it : Solves(it)
           it0 == [s \in SUBSET S |-> f[Cardinality(s)]]
<1>1. N \in Nat
  BY DEF IsSeq
<1> HIDE DEF N
<1>2. IsFiniteSet(S) /\ Cardinality(S) = N
  BY <1>1, FS_Interval
<1>3. ASSUME NEW s \in SUBSET S
      PROVE  IsFiniteSet(s) /\ Cardinality(s) \in 0..N
  <2>1. IsFiniteSet(s) /\ Cardinality(s) <= N
    BY <1>2, FS_Subset
  <2>2. Cardinality(s) \in Nat
    BY <2>1, FS_CardinalityType
  <2> QED
    BY <1>1, <2>1, <2>2
<1>4. ASSUME NEW s \in SUBSET S, s # {}
      PROVE  /\ s \ {Tree!Max(s)} \in SUBSET S
             /\ Cardinality(s) \in 1..N
             /\ Cardinality(s \ {Tree!Max(s)}) = Cardinality(s) - 1
  <2>1. Tree!Max(s) \in s
    BY <1>1, <1>4, MaxInSet
  <2>2. Cardinality(s \ {Tree!Max(s)}) = Cardinality(s) - 1
    BY <1>3, <2>1, FS_RemoveElement
  <2>3. Cardinality(s) # 0
    BY <1>3, <1>4, FS_EmptySet
  <2>4. Cardinality(s) \in 1..N
    BY <1>1, <1>3, <2>3
  <2> QED
    BY <2>2, <2>4
<1>5. f[0] = base /\ \A i \in 0..(N - 1) : f[i + 1] = Tree!Up(f[i])
  BY DEF Rounds, N
<1>6. Solves(it0)
  <2> SUFFICES ASSUME NEW s \in SUBSET S
               PROVE  f[Cardinality(s)] = IF s = {} THEN base
                                          ELSE Tree!Up(it0[s \ {Tree!Max(s)}])
    OBVIOUS
  <2>1. CASE s = {}
    BY <1>5, <2>1, FS_EmptySet
  <2>2. CASE s # {}
    <3> DEFINE r == s \ {Tree!Max(s)}
               c == Cardinality(s)
    <3>1. r \in SUBSET S /\ c \in 1..N /\ Cardinality(r) = c - 1
      BY <1>4, <2>2
    <3> HIDE DEF r, c
    <3>2. it0[r] = f[c - 1]
      BY <3>1
    <3>3. c - 1 \in 0..(N - 1) /\ c - 1 + 1 = c
      BY <1>1, <3>1
    <3>4. f[c] = Tree!Up(f[c - 1])
      BY <1>5, <3>3
    <3> QED
      BY <2>2, <3>2, <3>4 DEF r, c
  <2> QED
    BY <2>1, <2>2
<1>7. Solves(iter)
  <2> HIDE DEF Solves
  <2> QED
    BY <1>6
<1> HIDE DEF iter, it0
<1>8. \A s \in SUBSET S : iter[s] = IF s = {} THEN base ELSE Tree!Up(iter[s \ {Tree!Max(s)}])
  BY <1>7
<1> DEFINE T == {n \in 0..N : \A s \in SUBSET S : Cardinality(s) = n => iter[s] = f[n]}
<1>9. 0 \in T
  <2>1. ASSUME NEW s \in SUBSET S, Cardinality(s) = 0
        PROVE  iter[s] = f[0]
    <3>1. s = {}
      BY <1>3, <2>1, FS_EmptySet
    <3>2. iter[s] = base
      BY <1>8, <3>1
    <3> QED
      BY <1>5, <3>2
  <2> QED
    BY <1>1, <2>1
<1>10. ASSUME NEW n \in T, n < N
       PROVE  n + 1 \in T
  <2>1. n \in 0..(N - 1) /\ n + 1 \in 0..N
    BY <1>1, <1>10
  <2>2. ASSUME NEW s \in SUBSET S, Cardinality(s) = n + 1
        PROVE  iter[s] = f[n + 1]
    <3> DEFINE r == s \ {Tree!Max(s)}
    <3>1. s # {}
      <4>1. n + 1 # 0 /\ Cardinality({}) = 0
        BY <2>1, FS_EmptySet
      <4> QED
        BY <2>2, <4>1
    <3>2. r \in SUBSET S /\ Cardinality(r) = n
      BY <1>4, <2>1, <2>2, <3>1
    <3>3. iter[s] = Tree!Up(iter[r])
      BY <1>8, <3>1
    <3> HIDE DEF r
    <3>4. iter[r] = f[n]
      BY <3>2
    <3> QED
      BY <1>5, <2>1, <3>3, <3>4
  <2> QED
    BY <2>1, <2>2
<1>11. N \in T
  <2>1. T \in SUBSET (0..N)
    OBVIOUS
  <2> HIDE DEF T
  <2>2. \A n \in 0..N : n \in T
    BY <1>1, <1>9, <1>10, <2>1, SetInductionUpTo
  <2> QED
    BY <1>1, <2>2
<1>12. iter[S] = f[N]
  BY <1>2, <1>11
<1>13. DOMAIN Leaves(l) = S
  <2>1. DOMAIN l = 1..Len(l)
    BY FunctionIsSeq DEF IsSeq
  <2> QED
    BY <2>1 DEF Leaves, N
<1>14. Tree!computeTxMerkleRoot(l) = [root |-> iter[S].hashes[1], mutated |-> iter[S].mutated]
  <2>1. Tree!computeTxMerkleRoot(l) = Tree!computeMerkleRoot(Leaves(l))
    BY DEF Tree!computeTxMerkleRoot, Leaves
  <2> QED
    BY <1>13, <2>1 DEF Tree!computeMerkleRoot, Tree!FoldLeft, Tree!MapThenFoldSet, iter
<1> QED
  BY <1>12, <1>14 DEF N

-----------------------------------------------------------------------------
(* Climbing.                                                               *)

\* From the list l up to the level h; m is whether a level below it had an equal
\* pair.
Climbed(l, h, m) ==
  \E g : \E d \in Nat : Climbs(g, d, l) /\ h = g[d] /\ (m <=> ~NoPair(g, d))

\* A climb starts with the leaves.
LEMMA ClimbStarts ==
  ASSUME NEW l
  PROVE  \E g : Climbs(g, 0, l) /\ g[0] = Leaves(l) /\ NoPair(g, 0)
<1> DEFINE g == [k \in {0} |-> Leaves(l)]
<1>1. g[0] = Leaves(l)
  OBVIOUS
<1> HIDE DEF g
<1>2. 0..(0 - 1) = {}
  OBVIOUS
<1>3. Climbs(g, 0, l) /\ NoPair(g, 0)
  BY <1>1, <1>2 DEF Climbs, NoPair
<1> QED
  BY <1>1, <1>3

\* A level of more than one hash has a next one.
LEMMA ClimbsOn ==
  ASSUME NEW g, NEW d, NEW l, Climbs(g, d, l), Len(g[d]) > 1
  PROVE  \E h : /\ Climbs(h, d + 1, l) /\ h[d + 1] = Tree!Level(g[d])
                /\ NoPair(h, d + 1) <=> NoPair(g, d) /\ ~Tree!EqualPair(g[d])
<1> DEFINE h == [k \in 0..(d + 1) |-> IF k <= d THEN g[k] ELSE Tree!Level(g[d])]
<1>1. d \in Nat
  BY DEF Climbs
<1>2. h[d + 1] = Tree!Level(g[d]) /\ \A k \in 0..d : h[k] = g[k]
  BY <1>1
<1> HIDE DEF h
<1>3. ASSUME NEW k \in 0..(d + 1 - 1)
      PROVE  Len(h[k]) > 1 /\ h[k + 1] = Tree!Level(h[k])
  <2>1. CASE k = d
    <3>1. d \in 0..d
      BY <1>1
    <3> QED
      BY <1>2, <2>1, <3>1
  <2>2. CASE k # d
    <3>1. k \in 0..(d - 1) /\ k \in 0..d /\ k + 1 \in 0..d
      BY <1>1, <1>3, <2>2
    <3>2. Len(g[k]) > 1 /\ g[k + 1] = Tree!Level(g[k])
      BY <3>1 DEF Climbs
    <3> QED
      BY <1>2, <3>1, <3>2
  <2> QED
    BY <2>1, <2>2
<1>4. Climbs(h, d + 1, l)
  <2>1. d + 1 \in Nat /\ 0 \in 0..d
    BY <1>1
  <2>2. h[0] = Leaves(l)
    BY <1>2, <2>1 DEF Climbs
  <2> QED
    BY <1>3, <2>1, <2>2 DEF Climbs
<1>5. NoPair(h, d + 1) <=> NoPair(g, d) /\ ~Tree!EqualPair(g[d])
  <2>1. \A k : k \in 0..(d + 1 - 1) <=> k \in 0..(d - 1) \/ k = d
    BY <1>1
  <2>2. \A k \in 0..(d - 1) : k \in 0..d
    BY <1>1
  <2>3. d \in 0..d
    BY <1>1
  <2> QED
    BY <1>2, <2>1, <2>2, <2>3 DEF NoPair
<1> QED
  BY <1>2, <1>4, <1>5

\* As many rounds as there are leaves reach the root.
LEMMA RoundsClimb ==
  ASSUME NEW l, IsSeq(l), Len(l) > 0, NEW f, Rounds(f, Len(l), l)
  PROVE  Climbed(l, f[Len(l)].hashes, f[Len(l)].mutated) /\ Len(f[Len(l)].hashes) = 1
<1> DEFINE N == Len(l)
           Near(i) == Len(f[i].hashes) = 1 \/ Len(f[i].hashes) <= N - i
           T == {i \in 0..N : Climbed(l, f[i].hashes, f[i].mutated) /\ Near(i)}
<1>1. N \in Nat \ {0}
  BY DEF IsSeq
<1>2. f[0] = [hashes |-> Leaves(l), mutated |-> FALSE]
      /\ \A i \in 0..(N - 1) : f[i + 1] = Tree!Up(f[i])
  BY DEF Rounds
<1>3. 0 \in T
  <2>1. PICK g : Climbs(g, 0, l) /\ g[0] = Leaves(l) /\ NoPair(g, 0)
    BY ClimbStarts
  <2>2. f[0].hashes = Leaves(l) /\ f[0].mutated = FALSE
    BY <1>2
  <2>3. Climbed(l, f[0].hashes, f[0].mutated)
    BY <2>1, <2>2 DEF Climbed
  <2>4. Len(f[0].hashes) = N
    BY <2>2, LeavesSeq
  <2> HIDE DEF N
  <2> QED
    BY <1>1, <2>3, <2>4
<1> HIDE DEF N
<1>4. ASSUME NEW i \in T, i < N
      PROVE  i + 1 \in T
  <2>1. i \in 0..(N - 1) /\ i + 1 \in 0..N /\ i \in Nat
    BY <1>1, <1>4
  <2>2. f[i + 1] = Tree!Up(f[i])
    BY <1>2, <2>1
  <2>3. PICK g : \E d \in Nat : /\ Climbs(g, d, l) /\ f[i].hashes = g[d]
                                /\ (f[i].mutated <=> ~NoPair(g, d))
    BY DEF Climbed
  <2>4. PICK d \in Nat : /\ Climbs(g, d, l) /\ f[i].hashes = g[d]
                         /\ (f[i].mutated <=> ~NoPair(g, d))
    BY <2>3
  <2>5. IsSeq(g[d]) /\ Len(g[d]) \in Nat \ {0}
    <3>1. d \in 0..d
      OBVIOUS
    <3> QED
      BY <2>4, <3>1, ClimbSeqs
  <2>6. CASE Len(g[d]) = 1
    <3>1. f[i + 1] = f[i]
      BY <2>2, <2>4, <2>6 DEF Tree!Up
    <3> QED
      BY <2>1, <2>4, <2>6, <3>1
  <2>7. CASE Len(g[d]) # 1
    <3>1. Len(g[d]) > 1
      <4>1. \A a \in Nat \ {0} : a # 1 => a > 1
        OBVIOUS
      <4> QED
        BY <2>5, <2>7, <4>1
    <3>2. PICK h : /\ Climbs(h, d + 1, l) /\ h[d + 1] = Tree!Level(g[d])
                   /\ NoPair(h, d + 1) <=> NoPair(g, d) /\ ~Tree!EqualPair(g[d])
      BY <2>4, <3>1, ClimbsOn
    <3>3. f[i + 1] = [hashes |-> Tree!Level(g[d]),
                      mutated |-> f[i].mutated \/ Tree!EqualPair(g[d])]
      BY <2>2, <2>4, <2>7 DEF Tree!Up
    <3>4. /\ f[i + 1].hashes = h[d + 1]
          /\ f[i + 1].mutated <=> ~NoPair(h, d + 1)
      <4>1. f[i + 1].hashes = Tree!Level(g[d])
        BY <3>3
      <4>2. f[i + 1].mutated = (f[i].mutated \/ Tree!EqualPair(g[d]))
        BY <3>3
      <4>3. f[i].mutated <=> ~NoPair(g, d)
        BY <2>4
      <4>4. /\ h[d + 1] = Tree!Level(g[d])
            /\ NoPair(h, d + 1) <=> NoPair(g, d) /\ ~Tree!EqualPair(g[d])
        BY <3>2
      <4>5. f[i + 1].mutated <=> ~NoPair(h, d + 1)
        BY <4>2, <4>3, <4>4
      <4> QED
        BY <4>1, <4>4, <4>5
    <3>5. Climbed(l, f[i + 1].hashes, f[i + 1].mutated)
      <4>1. d + 1 \in Nat
        OBVIOUS
      <4> QED
        BY <3>2, <3>4, <4>1 DEF Climbed
    <3>6. PICK n \in Nat \ {0} : 2 * n \in {Len(g[d]), Len(g[d]) + 1} /\ Len(Tree!Level(g[d])) = n
      <4>1. Len(g[d]) > 0 /\ IsSeq(g[d])
        BY <2>5, <3>1
      <4> QED
        BY <4>1, LevelShape
    <3>7. Len(g[d]) <= N - i
      BY <2>4, <2>7
    <3>8. n <= N - (i + 1)
      <4>1. ASSUME NEW a \in Nat, a > 1, 2 * n \in {a, a + 1}, a <= N - i
            PROVE  n <= N - (i + 1)
        BY <1>1, <2>1, <4>1
      <4> QED
        BY <2>5, <3>1, <3>6, <3>7, <4>1
    <3>9. Near(i + 1)
      BY <3>2, <3>4, <3>6, <3>8
    <3> QED
      BY <2>1, <3>5, <3>9
  <2> QED
    BY <2>6, <2>7
<1>5. N \in T
  <2>1. T \in SUBSET (0..N)
    OBVIOUS
  <2> HIDE DEF T
  <2>2. \A i \in 0..N : i \in T
    BY <1>1, <1>3, <1>4, <2>1, SetInductionUpTo
  <2> QED
    BY <1>1, <2>2
<1>6. Len(f[N].hashes) # 0
  <2>1. PICK g : \E d \in Nat : Climbs(g, d, l) /\ f[N].hashes = g[d]
    BY <1>5 DEF Climbed
  <2>2. PICK d \in Nat : Climbs(g, d, l) /\ f[N].hashes = g[d]
    BY <2>1
  <2>3. d \in 0..d
    OBVIOUS
  <2> QED
    BY <2>2, <2>3, ClimbSeqs
<1>7. Len(f[N].hashes) \in Nat
  <2>1. PICK g : \E d \in Nat : Climbs(g, d, l) /\ f[N].hashes = g[d]
    BY <1>5 DEF Climbed
  <2>2. PICK d \in Nat : Climbs(g, d, l) /\ f[N].hashes = g[d]
    BY <2>1
  <2>3. d \in 0..d
    OBVIOUS
  <2> QED
    BY <2>2, <2>3, ClimbSeqs
<1>8. Len(f[N].hashes) = 1
  BY <1>1, <1>5, <1>6, <1>7
<1> QED
  BY <1>5, <1>8 DEF N

\* The result of computeTxMerkleRoot is what a climb from the list reaches.
LEMMA RootIsClimbed ==
  ASSUME NEW l, IsSeq(l), Len(l) > 0
  PROVE  \E h : /\ Climbed(l, h, Tree!computeTxMerkleRoot(l).mutated) /\ Len(h) = 1
                /\ Tree!computeTxMerkleRoot(l).root = h[1]
<1>1. PICK f : Rounds(f, Len(l), l)
  BY RoundsExist DEF IsSeq
<1>2. Tree!computeTxMerkleRoot(l) = [root |-> f[Len(l)].hashes[1], mutated |-> f[Len(l)].mutated]
  BY <1>1, FoldIsRounds
<1>3. /\ Tree!computeTxMerkleRoot(l).root = f[Len(l)].hashes[1]
      /\ Tree!computeTxMerkleRoot(l).mutated = f[Len(l)].mutated
  BY <1>2
<1>4. Climbed(l, f[Len(l)].hashes, f[Len(l)].mutated) /\ Len(f[Len(l)].hashes) = 1
  BY <1>1, RoundsClimb
<1>5. Climbed(l, f[Len(l)].hashes, Tree!computeTxMerkleRoot(l).mutated)
  BY <1>3, <1>4
<1> QED
  BY <1>3, <1>4, <1>5

\* Two lists that reach one root unflagged are one list.
LEMMA RootStandsForOne ==
  ASSUME NEW a, IsSeq(a), Len(a) > 0, NEW r, Climbed(a, r, FALSE), Len(r) = 1,
         NEW b, IsSeq(b), Len(b) > 0, NEW s, Climbed(b, s, FALSE), Len(s) = 1,
         r[1] = s[1]
  PROVE  a = b
<1>1. PICK g : \E d \in Nat : Climbs(g, d, a) /\ r = g[d] /\ NoPair(g, d)
  BY DEF Climbed
<1>2. PICK d \in Nat : Climbs(g, d, a) /\ r = g[d] /\ NoPair(g, d)
  BY <1>1
<1>3. PICK h : \E e \in Nat : Climbs(h, e, b) /\ s = h[e] /\ NoPair(h, e)
  BY DEF Climbed
<1>4. PICK e \in Nat : Climbs(h, e, b) /\ s = h[e] /\ NoPair(h, e)
  BY <1>3
<1> QED
  BY <1>2, <1>4, OneList

-----------------------------------------------------------------------------
(* Distinct transactions.                                                  *)

Distinct(h) == \A i, j \in 1..Len(h) : h[i] = h[j] => i = j

\* A level of distinct hashes has no equal pair.
LEMMA DistinctHasNoPair ==
  ASSUME NEW h, IsSeq(h), Distinct(h)
  PROVE  ~Tree!EqualPair(h)
<1> SUFFICES ASSUME NEW i \in 1..(Len(h) \div 2), h[2 * i - 1] = h[2 * i]
             PROVE  FALSE
  BY DEF Tree!EqualPair
<1>1. Len(h) \in Nat
  BY DEF IsSeq
<1>2. 2 * i - 1 \in 1..Len(h) /\ 2 * i \in 1..Len(h) /\ 2 * i - 1 # 2 * i
  BY <1>1
<1> QED
  BY <1>2 DEF Distinct

\* The first hash of each pair of a level is not one repeated.
LEMMA LevelDistinct ==
  ASSUME NEW h, IsSeq(h), Len(h) > 0, Distinct(h)
  PROVE  Distinct(Tree!Level(h))
<1> DEFINE p == Tree!Padded(h)
<1>1. PICK n \in Nat \ {0} :
        /\ 2 * n \in {Len(h), Len(h) + 1}
        /\ \A i \in 1..Len(h) : p[i] = h[i]
        /\ Tree!Level(h) = [i \in 1..n |-> <<p[2 * i - 1], p[2 * i]>>]
        /\ Len(Tree!Level(h)) = n
  BY LevelShape
<1> HIDE DEF p
<1>2. Len(h) \in Nat
  BY DEF IsSeq
<1>3. ASSUME NEW i \in 1..n, NEW j \in 1..n, Tree!Level(h)[i] = Tree!Level(h)[j]
      PROVE  i = j
  <2>1. <<p[2 * i - 1], p[2 * i]>> = <<p[2 * j - 1], p[2 * j]>>
    <3>1. /\ Tree!Level(h)[i] = <<p[2 * i - 1], p[2 * i]>>
          /\ Tree!Level(h)[j] = <<p[2 * j - 1], p[2 * j]>>
      BY <1>1
    <3> QED
      BY <1>3, <3>1
  <2>2. 2 * i - 1 \in 1..Len(h) /\ 2 * j - 1 \in 1..Len(h)
    BY <1>1, <1>2
  <2>3. h[2 * i - 1] = h[2 * j - 1]
    BY <1>1, <2>1, <2>2
  <2>4. 2 * i - 1 = 2 * j - 1
    BY <2>2, <2>3 DEF Distinct
  <2> QED
    BY <2>4
<1> QED
  BY <1>1, <1>3 DEF Distinct

\* No level over distinct transactions has an equal pair.
LEMMA DistinctNeverPairs ==
  ASSUME NEW g, NEW d, NEW l, Climbs(g, d, l), IsSeq(l), Len(l) > 0, Distinct(l)
  PROVE  NoPair(g, d)
<1> DEFINE T == {k \in 0..d : Distinct(g[k])}
<1>1. d \in Nat /\ T \in SUBSET (0..d)
  BY DEF Climbs
<1>2. 0 \in T
  <2>1. Len(Leaves(l)) = Len(l) /\ \A i \in 1..Len(l) : Leaves(l)[i] = <<l[i]>>
    BY LeavesSeq
  <2>2. \A x, y : <<x>> = <<y>> => x = y
    OBVIOUS
  <2>3. Distinct(Leaves(l))
    BY <2>1, <2>2 DEF Distinct
  <2> QED
    BY <1>1, <2>3 DEF Climbs
<1>3. ASSUME NEW k \in T, k < d
      PROVE  k + 1 \in T
  <2>1. k \in 0..(d - 1) /\ k + 1 \in 0..d
    BY <1>1, <1>3
  <2>2. g[k + 1] = Tree!Level(g[k])
    BY <2>1 DEF Climbs
  <2>3. IsSeq(g[k]) /\ Len(g[k]) > 0
    <3>1. IsSeq(g[k]) /\ Len(g[k]) \in Nat \ {0}
      BY ClimbSeqs
    <3> QED
      BY <3>1
  <2>4. Distinct(Tree!Level(g[k]))
    BY <2>3, LevelDistinct
  <2> QED
    BY <2>1, <2>2, <2>4
<1> HIDE DEF T
<1>4. \A k \in 0..d : k \in T
  BY <1>1, <1>2, <1>3, SetInductionUpTo
<1>5. ASSUME NEW k \in 0..(d - 1)
      PROVE  ~Tree!EqualPair(g[k])
  <2>1. k \in 0..d
    BY <1>1
  <2>2. Distinct(g[k])
    BY <1>4, <2>1 DEF T
  <2>3. IsSeq(g[k])
    BY <2>1, ClimbSeqs
  <2> QED
    BY <2>2, <2>3, DistinctHasNoPair
<1> QED
  BY <1>5 DEF NoPair

-----------------------------------------------------------------------------
(* computeTxMerkleRoot, for any two lists.                                 *)

\* Two nonempty lists of transactions of any length with one root, neither of
\* them flagged, are one list: an odd level that repeats its last hash is not
\* mistaken for a longer one (blkdat.go:375-397).
THEOREM OneListPerRoot ==
  ASSUME NEW a, IsSeq(a), Len(a) > 0, NEW b, IsSeq(b), Len(b) > 0,
         ~Tree!computeTxMerkleRoot(a).mutated, ~Tree!computeTxMerkleRoot(b).mutated,
         Tree!computeTxMerkleRoot(a).root = Tree!computeTxMerkleRoot(b).root
  PROVE  a = b
<1>1. PICK r : /\ Climbed(a, r, Tree!computeTxMerkleRoot(a).mutated) /\ Len(r) = 1
               /\ Tree!computeTxMerkleRoot(a).root = r[1]
  BY RootIsClimbed
<1>2. PICK s : /\ Climbed(b, s, Tree!computeTxMerkleRoot(b).mutated) /\ Len(s) = 1
               /\ Tree!computeTxMerkleRoot(b).root = s[1]
  BY RootIsClimbed
<1>3. Climbed(a, r, FALSE) /\ Climbed(b, s, FALSE) /\ r[1] = s[1]
  BY <1>1, <1>2 DEF Climbed
<1> QED
  BY <1>1, <1>2, <1>3, RootStandsForOne

\* A list of any length whose transactions differ from one another is not
\* flagged (blkdat.go:378-386).
THEOREM DistinctUnflagged ==
  ASSUME NEW l, IsSeq(l), Len(l) > 0, Distinct(l)
  PROVE  ~Tree!computeTxMerkleRoot(l).mutated
<1>1. PICK h : Climbed(l, h, Tree!computeTxMerkleRoot(l).mutated)
  BY RootIsClimbed
<1>2. PICK g : \E d \in Nat : /\ Climbs(g, d, l)
                              /\ Tree!computeTxMerkleRoot(l).mutated <=> ~NoPair(g, d)
  BY <1>1 DEF Climbed
<1>3. PICK d \in Nat : /\ Climbs(g, d, l)
                       /\ Tree!computeTxMerkleRoot(l).mutated <=> ~NoPair(g, d)
  BY <1>2
<1> QED
  BY <1>3, DistinctNeverPairs

-----------------------------------------------------------------------------
(* The loop.                                                               *)

\* What the loop has made is a climb from the transactions of the block.
TreeInv == list # <<>> => list \in Lists /\ Climbed(list, hashes, mutation)

\* The lists of the instance are nonempty sequences.
LEMMA ListIsSeq ==
  ASSUME NEW l \in Lists
  PROVE  IsSeq(l) /\ Len(l) > 0
<1>1. Len(l) \in Nat \ {0} /\ l = [i \in 1..Len(l) |-> l[i]]
  BY TreeAssumption DEF Tree!ListsAssumption
<1>2. \A n \in Nat \ {0} : n > 0
  OBVIOUS
<1> QED
  BY <1>1, <1>2 DEF IsSeq

\* The loop starts as a climb of no level.
LEMMA TreeInvStarts == FileInit \/ TreeInit => TreeInv
<1>1. ASSUME TreeInit
      PROVE  Climbed(list, hashes, mutation) /\ list \in Lists
  <2>1. list \in Lists /\ hashes = Leaves(list) /\ mutation = FALSE
    BY <1>1 DEF TreeInit, Tree!Init, Leaves
  <2>2. PICK g : Climbs(g, 0, list) /\ g[0] = Leaves(list) /\ NoPair(g, 0)
    BY ClimbStarts
  <2> QED
    BY <2>1, <2>2 DEF Climbed
<1> QED
  BY <1>1 DEF FileInit, TreeInv

\* Each turn of the loop is one more level of the climb.
LEMMA TreeInvSteps ==
  TreeInv /\ [FileNext \/ TreeNext]_<<vars, treeVars>> => TreeInv'
<1> SUFFICES ASSUME TreeInv, [FileNext \/ TreeNext]_<<vars, treeVars>>
             PROVE  TreeInv'
  OBVIOUS
<1>1. CASE UNCHANGED treeVars
  BY <1>1 DEF TreeInv, treeVars
<1>2. CASE TreeNext
  <2>1. /\ Len(hashes) > 1
        /\ mutation' = (mutation \/ Tree!EqualPair(hashes))
        /\ hashes' = Tree!Level(hashes)
        /\ list' = list
    BY <1>2 DEF TreeNext, Tree!Climb
  <2>2. ASSUME list # <<>>
        PROVE  Climbed(list, hashes', mutation')
    <3>1. PICK g : \E d \in Nat : /\ Climbs(g, d, list) /\ hashes = g[d]
                                  /\ mutation <=> ~NoPair(g, d)
      BY <2>2 DEF TreeInv, Climbed
    <3>2. PICK d \in Nat : /\ Climbs(g, d, list) /\ hashes = g[d]
                           /\ mutation <=> ~NoPair(g, d)
      BY <3>1
    <3>3. PICK h : /\ Climbs(h, d + 1, list) /\ h[d + 1] = Tree!Level(g[d])
                   /\ NoPair(h, d + 1) <=> NoPair(g, d) /\ ~Tree!EqualPair(g[d])
      BY <2>1, <3>2, ClimbsOn
    <3>4. mutation' <=> ~NoPair(h, d + 1)
      BY <2>1, <3>2, <3>3
    <3>5. d + 1 \in Nat /\ hashes' = h[d + 1]
      BY <2>1, <3>2, <3>3
    <3> QED
      BY <3>3, <3>4, <3>5 DEF Climbed
  <2> QED
    BY <2>1, <2>2 DEF TreeInv
<1> QED
  BY <1>1, <1>2 DEF FileNext

\* The loop of computeMerkleRoot climbs the tree over its list, and its flag says
\* whether a level below had an equal pair.
THEOREM TreeInvHolds == BlocksSpec => []TreeInv
<1> QED
  BY TreeInvStarts, TreeInvSteps, PTL DEF BlocksSpec

\* Whenever the loop has come to a root without having raised the flag, no other
\* unflagged list has that root (blkdat.go:375-397).
THEOREM RootBindsHolds == BlocksSpec => []RootBinds
<1>1. ASSUME TreeInv
      PROVE  RootBinds
  <2> SUFFICES ASSUME list # <<>>, Len(hashes) = 1, ~mutation,
                      NEW u \in Tree!Unflagged, u.result.root = hashes[1]
               PROVE  u.txs = list
    BY DEF RootBinds, Tree!RootBinds
  <2>1. list \in Lists /\ Climbed(list, hashes, FALSE)
    BY <1>1 DEF TreeInv, Climbed
  <2>2. PICK l \in Lists : u = [txs |-> l, result |-> Tree!computeTxMerkleRoot(l)]
    BY DEF Tree!Unflagged
  <2>3. ~u.result.mutated
    BY DEF Tree!Unflagged
  <2>4. u.txs = l /\ u.result = Tree!computeTxMerkleRoot(l)
    BY <2>2
  <2>5. PICK h : /\ Climbed(l, h, Tree!computeTxMerkleRoot(l).mutated) /\ Len(h) = 1
                 /\ Tree!computeTxMerkleRoot(l).root = h[1]
    BY ListIsSeq, RootIsClimbed
  <2>6. Climbed(l, h, FALSE)
    BY <2>3, <2>4, <2>5 DEF Climbed
  <2>7. h[1] = hashes[1]
    BY <2>4, <2>5
  <2>8. l = list
    <3>1. IsSeq(l) /\ Len(l) > 0 /\ IsSeq(list) /\ Len(list) > 0
      BY <2>1, ListIsSeq
    <3> QED
      BY <2>1, <2>5, <2>6, <2>7, <3>1, RootStandsForOne
  <2> QED
    BY <2>4, <2>8
<1> QED
  BY <1>1, TreeInvHolds, PTL

\* The loop never has the flag raised for a block whose transactions differ from
\* one another (blkdat.go:378-386).
THEOREM DistinctAcceptedHolds == BlocksSpec => []DistinctAccepted
<1>1. ASSUME TreeInv
      PROVE  DistinctAccepted
  <2> SUFFICES ASSUME list # <<>>, mutation,
                      ~\E i, j \in DOMAIN list : i # j /\ list[i] = list[j]
               PROVE  FALSE
    BY DEF DistinctAccepted, Tree!DistinctAccepted
  <2>1. IsSeq(list) /\ Len(list) > 0
    BY <1>1, ListIsSeq DEF TreeInv
  <2>2. DOMAIN list = 1..Len(list)
    BY <2>1, FunctionIsSeq DEF IsSeq
  <2>3. Distinct(list)
    BY <2>2 DEF Distinct
  <2>4. PICK g : \E d \in Nat : Climbs(g, d, list) /\ (mutation <=> ~NoPair(g, d))
    BY <1>1 DEF TreeInv, Climbed
  <2>5. PICK d \in Nat : Climbs(g, d, list) /\ (mutation <=> ~NoPair(g, d))
    BY <2>4
  <2>6. NoPair(g, d)
    BY <2>1, <2>3, <2>5, DistinctNeverPairs
  <2> QED
    BY <2>5, <2>6
<1> QED
  BY <1>1, TreeInvHolds, PTL

-----------------------------------------------------------------------------
(* The parts of the data that follow one another.                          *)

\* The parts start at offsets, the first one at o and each other one where the
\* one before it ends.
LEMMA StartsAre ==
  ASSUME NEW V, NEW end \in [V -> V], NEW o \in V
  PROVE  /\ Starts(end, o) \in [Nat -> V]
         /\ Starts(end, o)[0] = o
         /\ \A k \in Nat : Starts(end, o)[k + 1] = end[Starts(end, o)[k]]
<1> DEFINE P(s) == s = [k \in Nat |-> IF k = 0 THEN o ELSE end[s[k - 1]]]
           s0 == Starts(end, o)
<1>1. \E f \in [Nat -> V] : \A n \in Nat : f[n] = IF n = 0 THEN o ELSE end[f[n - 1]]
  BY IterationExists
<1>2. PICK f \in [Nat -> V] : \A n \in Nat : f[n] = IF n = 0 THEN o ELSE end[f[n - 1]]
  BY <1>1
<1>3. P(f)
  BY <1>2
<1>4. s0 = CHOOSE s : P(s)
  BY DEF Starts
<1> HIDE DEF P, s0
<1>5. P(s0)
  BY <1>3, <1>4
<1>6. s0 = [k \in Nat |-> IF k = 0 THEN o ELSE end[s0[k - 1]]]
  BY <1>5 DEF P
<1>7. s0[0] = o /\ \A k \in Nat : s0[k + 1] = end[s0[k]]
  <2>1. \A k \in Nat : s0[k] = IF k = 0 THEN o ELSE end[s0[k - 1]]
    BY <1>6
  <2> QED
    BY <2>1
<1> DEFINE T == {k \in Nat : s0[k] \in V}
<1>8. \A k \in Nat : k \in T
  <2>1. 0 \in T /\ T \in SUBSET Nat
    BY <1>7
  <2>2. \A k \in T : k + 1 \in T
    BY <1>7
  <2> HIDE DEF T
  <2> QED
    BY <2>1, <2>2, SetInduction
<1>9. s0 \in [Nat -> V]
  <2>1. s0 = [k \in Nat |-> s0[k]]
    BY <1>6
  <2> QED
    BY <1>8, <2>1
<1> QED
  BY <1>7, <1>9 DEF s0

\* The same of one part.
LEMMA StartsNext ==
  ASSUME NEW V, NEW end \in [V -> V], NEW o \in V, NEW k \in Nat
  PROVE  Starts(end, o)[k + 1] = end[Starts(end, o)[k]]
<1>1. /\ Starts(end, o) \in [Nat -> V]
      /\ Starts(end, o)[0] = o
      /\ \A i \in Nat : Starts(end, o)[i + 1] = end[Starts(end, o)[i]]
  BY StartsAre
<1> QED
  BY <1>1

\* The same of offsets in the data.
LEMMA StartsIs ==
  ASSUME NEW end \in [Nat -> Nat], NEW o \in Nat
  PROVE  /\ Starts(end, o) \in [Nat -> Nat]
         /\ Starts(end, o)[0] = o
         /\ \A k \in Nat : Starts(end, o)[k + 1] = end[Starts(end, o)[k]]
<1>1. Starts(end, o) \in [Nat -> Nat]
  BY StartsAre
<1>2. Starts(end, o)[0] = o
  BY StartsAre
<1>3. ASSUME NEW k \in Nat
      PROVE  Starts(end, o)[k + 1] = end[Starts(end, o)[k]]
  BY StartsNext
<1> QED
  BY <1>1, <1>2, <1>3

-----------------------------------------------------------------------------
(* What the reader does with what it has of a block: one step at a time, and to
   the end of the block.                                                   *)

\* The data of a file: cells that can be read as counts.
IsData(d) == IsSeq(d) /\ \A i \in 1..Len(d) : Size(d[i]) \in Nat

Ops ==
  Counts \cup {"fixed", "bytes", "merkle", "magic", "marker", "witnesses", "header", "transaction",
                "block"}

FieldSet == [op : Ops, n : Nat, id : BOOLEAN]
Plans == Seq(FieldSet)

EndPlan == <<Step("block")>>

\* What the reader has of a block: what is left to read, and what it has read.
Cfg(p, o, s, w, m, r, t) ==
  [plan |-> p, offset |-> o, seen |-> s, segwit |-> w, inputLen |-> m, root |-> r, txs |-> t]

Op(c) == Head(c.plan).op

\* What the reader makes of the first field of c, and where all of it is there.
After(d, c) ==
  LET f == Head(c.plan)
      q == Tail(c.plan)
      v == Cut(d, c.offset, f.n)
      s == IF f.id THEN Append(c.seen, v) ELSE c.seen
      n == CountAt(d, c.offset)
  IN IF Op(c) \in {"fixed", "bytes"}
     THEN Cfg(q, c.offset + f.n, s, c.segwit, c.inputLen, c.root, c.txs)
     ELSE IF Op(c) = "merkle"
     THEN Cfg(q, c.offset + f.n, s, c.segwit, c.inputLen, v, c.txs)
     ELSE IF Op(c) = "magic"
     THEN Cfg(q, c.offset + Word, c.seen, c.segwit, c.inputLen, c.root, c.txs)
     ELSE IF Op(c) \in Counts
     THEN Cfg(Counted(f.op, n) \o q, c.offset + 1, s, c.segwit,
              IF Op(c) = "inputs" THEN n ELSE c.inputLen, c.root, c.txs)
     ELSE IF Op(c) = "marker"
     THEN IF d[c.offset + 1] = << 0 >>
          THEN Cfg(q, c.offset + 2, c.seen, TRUE, c.inputLen, c.root, c.txs)
          ELSE Cfg(q, c.offset, c.seen, FALSE, c.inputLen, c.root, c.txs)
     ELSE IF Op(c) = "witnesses"
     THEN Cfg((IF c.segwit THEN Copies(c.inputLen, <<Count("witnesses of input", FALSE)>>)
               ELSE <<>>) \o q,
              c.offset, c.seen, c.segwit, c.inputLen, c.root, c.txs)
     ELSE IF Op(c) = "header"
     THEN Cfg(q, c.offset, <<>>, c.segwit, c.inputLen, c.root, c.txs)
     ELSE Cfg(q, c.offset, <<>>, c.segwit, c.inputLen, c.root, Append(c.txs, c.seen))

Allowed(d, c) ==
  LET n == Head(c.plan).n
  IN /\ c.plan # <<>>
     /\ \/ Op(c) = "fixed" /\ c.offset + n <= Len(d)
        \/ Op(c) \in {"bytes", "merkle"} /\ c.offset + n < Len(d)
        \/ Op(c) = "magic" /\ c.offset + Word <= Len(d) /\ Cut(d, c.offset, n) = MagicBytes
        \/ Op(c) \in Counts /\ c.offset < Len(d)
        \/ Op(c) = "marker" /\ d[c.offset + 1] = << 0 >> /\ c.offset + 2 <= Len(d)
        \/ Op(c) = "marker" /\ d[c.offset + 1] # << 0 >> /\ c.offset + 1 <= Len(d)
        \/ Op(c) \in {"witnesses", "header", "transaction"}

\* The step of the reader from c to e when all that it reads is there.
Moves(d, c, e) == Allowed(d, c) /\ e = After(d, c)

Runs(d, g, k) == \A i \in 0..(k - 1) : Moves(d, g[i], g[i + 1])

Ended(e, z) == e.plan = EndPlan /\ z = <<e.offset, e.root, e.txs>>

\* From c the reader gets to the end of the block, with z: the offset, the root
\* and the transactions.
RunTo(d, c, z) == \E k \in Nat : \E g : g[0] = c /\ Runs(d, g, k) /\ Ended(g[k], z)

\* At the end of a block no field is left to read.
LEMMA EndStays ==
  ASSUME NEW d, NEW c, c.plan = EndPlan, NEW e
  PROVE  ~Moves(d, c, e)
<1>1. Op(c) = "block"
  BY DEF EndPlan, Step, Op
<1> QED
  BY <1>1 DEF Moves, Allowed, Counts

\* What a step makes is determined.
LEMMA MovesOnce ==
  ASSUME NEW d, NEW c, NEW e, NEW f, Moves(d, c, e), Moves(d, c, f)
  PROVE  e = f
BY DEF Moves

\* At the end of the block the reader has what it has read.
LEMMA RunEnds ==
  ASSUME NEW d, NEW c, NEW z, c.plan = EndPlan
  PROVE  RunTo(d, c, z) <=> z = <<c.offset, c.root, c.txs>>
<1>1. ASSUME RunTo(d, c, z)
      PROVE  z = <<c.offset, c.root, c.txs>>
  <2>1. PICK k \in Nat : \E g : g[0] = c /\ Runs(d, g, k) /\ Ended(g[k], z)
    BY <1>1 DEF RunTo
  <2>2. PICK g : g[0] = c /\ Runs(d, g, k) /\ Ended(g[k], z)
    BY <2>1
  <2>3. CASE k = 0
    BY <2>2, <2>3 DEF Ended
  <2>4. CASE k # 0
    <3>1. 0 \in 0..(k - 1)
      BY <2>4
    <3>2. Moves(d, c, g[1])
      BY <2>2, <3>1 DEF Runs
    <3> QED
      BY <3>2, EndStays
  <2> QED
    BY <2>3, <2>4
<1>2. ASSUME z = <<c.offset, c.root, c.txs>>
      PROVE  RunTo(d, c, z)
  <2> DEFINE g == [i \in 0..0 |-> c]
  <2>1. g[0] = c
    OBVIOUS
  <2>2. Runs(d, g, 0)
    BY DEF Runs
  <2>3. Ended(g[0], z)
    BY <1>2, <2>1 DEF Ended
  <2> HIDE DEF g
  <2> QED
    BY <2>1, <2>2, <2>3 DEF RunTo
<1> QED
  BY <1>1, <1>2

\* A step keeps what the reader gets to.
LEMMA RunGoesOn ==
  ASSUME NEW d, NEW c, NEW z, NEW e, Moves(d, c, e)
  PROVE  RunTo(d, c, z) <=> RunTo(d, e, z)
<1>1. ASSUME RunTo(d, c, z)
      PROVE  RunTo(d, e, z)
  <2>1. PICK k \in Nat : \E g : g[0] = c /\ Runs(d, g, k) /\ Ended(g[k], z)
    BY <1>1 DEF RunTo
  <2>2. PICK g : g[0] = c /\ Runs(d, g, k) /\ Ended(g[k], z)
    BY <2>1
  <2>3. k # 0
    BY <2>2, EndStays DEF Ended
  <2> DEFINE h == [i \in 0..(k - 1) |-> g[i + 1]]
  <2>4. 0 \in 0..(k - 1) /\ k - 1 \in Nat /\ k - 1 \in 0..(k - 1)
    BY <2>3
  <2>5. Moves(d, c, g[1])
    BY <2>2, <2>4 DEF Runs
  <2>6. g[1] = e
    BY <2>5, MovesOnce
  <2>7. h[0] = e /\ h[k - 1] = g[k]
    BY <2>4, <2>6
  <2>8. ASSUME NEW i \in 0..(k - 2)
        PROVE  Moves(d, h[i], h[i + 1])
    <3>1. i \in 0..(k - 1) /\ i + 1 \in 0..(k - 1)
      OBVIOUS
    <3>2. h[i] = g[i + 1] /\ h[i + 1] = g[(i + 1) + 1]
      BY <3>1
    <3> HIDE DEF h
    <3> QED
      BY <2>2, <3>1, <3>2 DEF Runs
  <2> HIDE DEF h
  <2>9. Runs(d, h, k - 1)
    <3>1. (k - 1) - 1 = k - 2
      OBVIOUS
    <3> QED
      BY <2>8, <3>1 DEF Runs
  <2> QED
    BY <2>2, <2>4, <2>7, <2>9 DEF RunTo
<1>2. ASSUME RunTo(d, e, z)
      PROVE  RunTo(d, c, z)
  <2>1. PICK k \in Nat : \E g : g[0] = e /\ Runs(d, g, k) /\ Ended(g[k], z)
    BY <1>2 DEF RunTo
  <2>2. PICK g : g[0] = e /\ Runs(d, g, k) /\ Ended(g[k], z)
    BY <2>1
  <2> DEFINE h == [i \in 0..(k + 1) |-> IF i = 0 THEN c ELSE g[i - 1]]
  <2>3. h[0] = c /\ h[k + 1] = g[k]
    OBVIOUS
  <2>4. ASSUME NEW i \in 0..k
        PROVE  Moves(d, h[i], h[i + 1])
    <3>1. h[i] = (IF i = 0 THEN c ELSE g[i - 1]) /\ h[i + 1] = g[i]
      OBVIOUS
    <3> HIDE DEF h
    <3>2. CASE i = 0
      BY <2>2, <3>1, <3>2
    <3>3. CASE i # 0
      <4>1. i - 1 \in 0..(k - 1) /\ (i - 1) + 1 = i
        BY <3>3
      <4>2. Moves(d, g[i - 1], g[i])
        BY <2>2, <4>1 DEF Runs
      <4> QED
        BY <3>1, <3>3, <4>2
    <3> QED
      BY <3>2, <3>3
  <2> HIDE DEF h
  <2>5. Runs(d, h, k + 1)
    <3>1. (k + 1) - 1 = k
      OBVIOUS
    <3> QED
      BY <2>4, <3>1 DEF Runs
  <2> QED
    BY <2>2, <2>3, <2>5 DEF RunTo
<1> QED
  BY <1>1, <1>2

\* Before the end the reader gets to something exactly if it can make a step.
LEMMA RunPeels ==
  ASSUME NEW d, NEW c, NEW z, c.plan # EndPlan
  PROVE  RunTo(d, c, z) <=> Allowed(d, c) /\ RunTo(d, After(d, c), z)
<1>1. ASSUME RunTo(d, c, z)
      PROVE  Allowed(d, c)
  <2>1. PICK k \in Nat : \E g : g[0] = c /\ Runs(d, g, k) /\ Ended(g[k], z)
    BY <1>1 DEF RunTo
  <2>2. PICK g : g[0] = c /\ Runs(d, g, k) /\ Ended(g[k], z)
    BY <2>1
  <2>3. k # 0
    BY <2>2 DEF Ended
  <2>4. 0 \in 0..(k - 1)
    BY <2>3
  <2>5. Moves(d, c, g[1])
    BY <2>2, <2>4 DEF Runs
  <2> QED
    BY <2>5 DEF Moves
<1>2. ASSUME Allowed(d, c)
      PROVE  RunTo(d, c, z) <=> RunTo(d, After(d, c), z)
  <2>1. Moves(d, c, After(d, c))
    BY <1>2 DEF Moves
  <2> QED
    BY <2>1, RunGoesOn
<1> QED
  BY <1>1, <1>2

-----------------------------------------------------------------------------
(* The first step, by the field the plan begins with.                      *)

\* A plan with a field before it.
LEMMA ConsIs ==
  ASSUME NEW f \in FieldSet, NEW Q \in Plans
  PROVE  /\ Cons(f, Q) \in Plans /\ Cons(f, Q) # <<>>
         /\ Head(Cons(f, Q)) = f /\ Tail(Cons(f, Q)) = Q
<1>1. <<f>> \in Seq(FieldSet) /\ Len(<<f>>) = 1 /\ <<f>>[1] = f
  OBVIOUS
<1>2. Q \in Seq(FieldSet) /\ Len(Q) \in Nat
  BY DEF Plans
<1> DEFINE p == Cons(f, Q)
<1>3. /\ p \in Seq(FieldSet) /\ Len(p) = Len(Q) + 1
      /\ \A i \in 1..Len(p) : p[i] = IF i = 1 THEN f ELSE Q[i - 1]
  BY <1>1, <1>2, ConcatProperties DEF Cons
<1> HIDE DEF p
<1>4. p # <<>> /\ Head(p) = f
  BY <1>2, <1>3
<1>5. /\ Tail(p) \in Seq(FieldSet) /\ Len(Tail(p)) = Len(Q)
      /\ \A i \in 1..Len(Q) : Tail(p)[i] = Q[i]
  <2>1. /\ Tail(p) \in Seq(FieldSet) /\ Len(Tail(p)) = Len(p) - 1
        /\ \A i \in 1..(Len(p) - 1) : Tail(p)[i] = p[i + 1]
    BY <1>2, <1>3, <1>4, HeadTailProperties
  <2>2. ASSUME NEW i \in 1..Len(Q)
        PROVE  Tail(p)[i] = Q[i]
    <3>1. i + 1 \in 1..Len(p) /\ i + 1 # 1 /\ (i + 1) - 1 = i
      BY <1>2, <1>3
    <3> QED
      BY <1>2, <1>3, <2>1, <3>1
  <2> QED
    BY <1>2, <1>3, <2>1, <2>2
<1>6. Tail(p) = Q
  BY <1>2, <1>5, SeqEqual
<1> QED
  BY <1>3, <1>4, <1>6 DEF p, Plans

\* The parts of a field.
LEMMA FieldIs ==
  ASSUME NEW op \in Ops, NEW n \in Nat, NEW b \in BOOLEAN
  PROVE  /\ Field(op, n, b) \in FieldSet
         /\ Field(op, n, b).op = op /\ Field(op, n, b).n = n /\ Field(op, n, b).id = b
BY DEF Field, FieldSet

\* The fields of a configuration.
LEMMA CfgIs ==
  ASSUME NEW f \in FieldSet, NEW Q \in Plans, NEW o, NEW s, NEW w, NEW m, NEW r, NEW t
  PROVE  LET c == Cfg(Cons(f, Q), o, s, w, m, r, t)
         IN /\ c.plan # <<>> /\ Head(c.plan) = f /\ Tail(c.plan) = Q /\ Op(c) = f.op
            /\ c.offset = o /\ c.seen = s /\ c.segwit = w /\ c.inputLen = m
            /\ c.root = r /\ c.txs = t
<1>1. Cons(f, Q) # <<>> /\ Head(Cons(f, Q)) = f /\ Tail(Cons(f, Q)) = Q
  BY ConsIs
<1> QED
  BY <1>1 DEF Cfg, Op

\* A plan that begins with another field is not at its end.
LEMMA NotEnd ==
  ASSUME NEW c, Op(c) # "block"
  PROVE  c.plan # EndPlan
BY DEF EndPlan, Op, Step

\* readInt32, readInt64 and readTime, of a field that the ID covers.
LEMMA PeelFixed ==
  ASSUME NEW d, NEW Q \in Plans, NEW o \in Nat, NEW s, NEW w, NEW m, NEW r, NEW t, NEW z,
         NEW n \in Nat
  PROVE  RunTo(d, Cfg(Cons(Field("fixed", n, TRUE), Q), o, s, w, m, r, t), z)
           <=> o + n <= Len(d) /\ RunTo(d, Cfg(Q, o + n, Append(s, Cut(d, o, n)), w, m, r, t), z)
<1> DEFINE f == Field("fixed", n, TRUE)
           c == Cfg(Cons(f, Q), o, s, w, m, r, t)
           e == Cfg(Q, o + n, Append(s, Cut(d, o, n)), w, m, r, t)
<1>1. f \in FieldSet /\ f.op = "fixed" /\ f.n = n /\ f.id = TRUE
  BY FieldIs DEF Field, Count, Step, Ops
<1> HIDE DEF f
<1>2. /\ c.plan # <<>> /\ Head(c.plan) = f /\ Tail(c.plan) = Q /\ Op(c) = f.op
      /\ c.offset = o /\ c.seen = s /\ c.segwit = w /\ c.inputLen = m
      /\ c.root = r /\ c.txs = t
  BY <1>1, CfgIs
<1> HIDE DEF c
<1>3. Allowed(d, c) <=> o + n <= Len(d)
  BY <1>1, <1>2 DEF Allowed, Counts, HasMagic
<1>4. Allowed(d, c) => After(d, c) = e
  BY <1>1, <1>2 DEF After, Allowed, Counts
<1>5. c.plan # EndPlan
  BY <1>1, <1>2, NotEnd DEF Counts
<1>6. RunTo(d, c, z) <=> Allowed(d, c) /\ RunTo(d, After(d, c), z)
  BY <1>5, RunPeels
<1> HIDE DEF e
<1>7. RunTo(d, c, z) <=> o + n <= Len(d) /\ RunTo(d, e, z)
  BY <1>3, <1>4, <1>6
<1> QED
  BY <1>7 DEF c, e, f

\* The same of a field that the ID does not cover.
LEMMA PeelFixedAside ==
  ASSUME NEW d, NEW Q \in Plans, NEW o \in Nat, NEW s, NEW w, NEW m, NEW r, NEW t, NEW z,
         NEW n \in Nat
  PROVE  RunTo(d, Cfg(Cons(Field("fixed", n, FALSE), Q), o, s, w, m, r, t), z)
           <=> o + n <= Len(d) /\ RunTo(d, Cfg(Q, o + n, s, w, m, r, t), z)
<1> DEFINE f == Field("fixed", n, FALSE)
           c == Cfg(Cons(f, Q), o, s, w, m, r, t)
           e == Cfg(Q, o + n, s, w, m, r, t)
<1>1. f \in FieldSet /\ f.op = "fixed" /\ f.n = n /\ f.id = FALSE
  BY FieldIs DEF Field, Count, Step, Ops
<1> HIDE DEF f
<1>2. /\ c.plan # <<>> /\ Head(c.plan) = f /\ Tail(c.plan) = Q /\ Op(c) = f.op
      /\ c.offset = o /\ c.seen = s /\ c.segwit = w /\ c.inputLen = m
      /\ c.root = r /\ c.txs = t
  BY <1>1, CfgIs
<1> HIDE DEF c
<1>3. Allowed(d, c) <=> o + n <= Len(d)
  BY <1>1, <1>2 DEF Allowed, Counts, HasMagic
<1>4. Allowed(d, c) => After(d, c) = e
  BY <1>1, <1>2 DEF After, Allowed, Counts
<1>5. c.plan # EndPlan
  BY <1>1, <1>2, NotEnd DEF Counts
<1>6. RunTo(d, c, z) <=> Allowed(d, c) /\ RunTo(d, After(d, c), z)
  BY <1>5, RunPeels
<1> HIDE DEF e
<1>7. RunTo(d, c, z) <=> o + n <= Len(d) /\ RunTo(d, e, z)
  BY <1>3, <1>4, <1>6
<1> QED
  BY <1>7 DEF c, e, f

\* readBytes, of a field that the ID covers.
LEMMA PeelBytes ==
  ASSUME NEW d, NEW Q \in Plans, NEW o \in Nat, NEW s, NEW w, NEW m, NEW r, NEW t, NEW z,
         NEW n \in Nat
  PROVE  RunTo(d, Cfg(Cons(Field("bytes", n, TRUE), Q), o, s, w, m, r, t), z)
           <=> o + n < Len(d) /\ RunTo(d, Cfg(Q, o + n, Append(s, Cut(d, o, n)), w, m, r, t), z)
<1> DEFINE f == Field("bytes", n, TRUE)
           c == Cfg(Cons(f, Q), o, s, w, m, r, t)
           e == Cfg(Q, o + n, Append(s, Cut(d, o, n)), w, m, r, t)
<1>1. f \in FieldSet /\ f.op = "bytes" /\ f.n = n /\ f.id = TRUE
  BY FieldIs DEF Field, Count, Step, Ops
<1> HIDE DEF f
<1>2. /\ c.plan # <<>> /\ Head(c.plan) = f /\ Tail(c.plan) = Q /\ Op(c) = f.op
      /\ c.offset = o /\ c.seen = s /\ c.segwit = w /\ c.inputLen = m
      /\ c.root = r /\ c.txs = t
  BY <1>1, CfgIs
<1> HIDE DEF c
<1>3. Allowed(d, c) <=> o + n < Len(d)
  BY <1>1, <1>2 DEF Allowed, Counts, HasMagic
<1>4. Allowed(d, c) => After(d, c) = e
  BY <1>1, <1>2 DEF After, Allowed, Counts
<1>5. c.plan # EndPlan
  BY <1>1, <1>2, NotEnd DEF Counts
<1>6. RunTo(d, c, z) <=> Allowed(d, c) /\ RunTo(d, After(d, c), z)
  BY <1>5, RunPeels
<1> HIDE DEF e
<1>7. RunTo(d, c, z) <=> o + n < Len(d) /\ RunTo(d, e, z)
  BY <1>3, <1>4, <1>6
<1> QED
  BY <1>7 DEF c, e, f

\* The same of a field that the ID does not cover.
LEMMA PeelBytesAside ==
  ASSUME NEW d, NEW Q \in Plans, NEW o \in Nat, NEW s, NEW w, NEW m, NEW r, NEW t, NEW z,
         NEW n \in Nat
  PROVE  RunTo(d, Cfg(Cons(Field("bytes", n, FALSE), Q), o, s, w, m, r, t), z)
           <=> o + n < Len(d) /\ RunTo(d, Cfg(Q, o + n, s, w, m, r, t), z)
<1> DEFINE f == Field("bytes", n, FALSE)
           c == Cfg(Cons(f, Q), o, s, w, m, r, t)
           e == Cfg(Q, o + n, s, w, m, r, t)
<1>1. f \in FieldSet /\ f.op = "bytes" /\ f.n = n /\ f.id = FALSE
  BY FieldIs DEF Field, Count, Step, Ops
<1> HIDE DEF f
<1>2. /\ c.plan # <<>> /\ Head(c.plan) = f /\ Tail(c.plan) = Q /\ Op(c) = f.op
      /\ c.offset = o /\ c.seen = s /\ c.segwit = w /\ c.inputLen = m
      /\ c.root = r /\ c.txs = t
  BY <1>1, CfgIs
<1> HIDE DEF c
<1>3. Allowed(d, c) <=> o + n < Len(d)
  BY <1>1, <1>2 DEF Allowed, Counts, HasMagic
<1>4. Allowed(d, c) => After(d, c) = e
  BY <1>1, <1>2 DEF After, Allowed, Counts
<1>5. c.plan # EndPlan
  BY <1>1, <1>2, NotEnd DEF Counts
<1>6. RunTo(d, c, z) <=> Allowed(d, c) /\ RunTo(d, After(d, c), z)
  BY <1>5, RunPeels
<1> HIDE DEF e
<1>7. RunTo(d, c, z) <=> o + n < Len(d) /\ RunTo(d, e, z)
  BY <1>3, <1>4, <1>6
<1> QED
  BY <1>7 DEF c, e, f

\* The Merkle root of the header.
LEMMA PeelMerkle ==
  ASSUME NEW d, NEW Q \in Plans, NEW o \in Nat, NEW s, NEW w, NEW m, NEW r, NEW t, NEW z,
         NEW n \in Nat
  PROVE  RunTo(d, Cfg(Cons(Field("merkle", n, FALSE), Q), o, s, w, m, r, t), z)
           <=> o + n < Len(d) /\ RunTo(d, Cfg(Q, o + n, s, w, m, Cut(d, o, n), t), z)
<1> DEFINE f == Field("merkle", n, FALSE)
           c == Cfg(Cons(f, Q), o, s, w, m, r, t)
           e == Cfg(Q, o + n, s, w, m, Cut(d, o, n), t)
<1>1. f \in FieldSet /\ f.op = "merkle" /\ f.n = n /\ f.id = FALSE
  BY FieldIs DEF Field, Count, Step, Ops
<1> HIDE DEF f
<1>2. /\ c.plan # <<>> /\ Head(c.plan) = f /\ Tail(c.plan) = Q /\ Op(c) = f.op
      /\ c.offset = o /\ c.seen = s /\ c.segwit = w /\ c.inputLen = m
      /\ c.root = r /\ c.txs = t
  BY <1>1, CfgIs
<1> HIDE DEF c
<1>3. Allowed(d, c) <=> o + n < Len(d)
  BY <1>1, <1>2 DEF Allowed, Counts, HasMagic
<1>4. Allowed(d, c) => After(d, c) = e
  BY <1>1, <1>2 DEF After, Allowed, Counts
<1>5. c.plan # EndPlan
  BY <1>1, <1>2, NotEnd DEF Counts
<1>6. RunTo(d, c, z) <=> Allowed(d, c) /\ RunTo(d, After(d, c), z)
  BY <1>5, RunPeels
<1> HIDE DEF e
<1>7. RunTo(d, c, z) <=> o + n < Len(d) /\ RunTo(d, e, z)
  BY <1>3, <1>4, <1>6
<1> QED
  BY <1>7 DEF c, e, f

\* The magic bytes of the header.
LEMMA PeelMagic ==
  ASSUME NEW d, NEW Q \in Plans, NEW o \in Nat, NEW s, NEW w, NEW m, NEW r, NEW t, NEW z,
         Word \in Nat
  PROVE  RunTo(d, Cfg(Cons(Field("magic", Word, FALSE), Q), o, s, w, m, r, t), z)
           <=> (o + Word <= Len(d) /\ HasMagic(d, o))
                 /\ RunTo(d, Cfg(Q, o + Word, s, w, m, r, t), z)
<1> DEFINE f == Field("magic", Word, FALSE)
           c == Cfg(Cons(f, Q), o, s, w, m, r, t)
           e == Cfg(Q, o + Word, s, w, m, r, t)
<1>1. f \in FieldSet /\ f.op = "magic" /\ f.n = Word /\ f.id = FALSE
  BY FieldIs DEF Field, Count, Step, Ops
<1> HIDE DEF f
<1>2. /\ c.plan # <<>> /\ Head(c.plan) = f /\ Tail(c.plan) = Q /\ Op(c) = f.op
      /\ c.offset = o /\ c.seen = s /\ c.segwit = w /\ c.inputLen = m
      /\ c.root = r /\ c.txs = t
  BY <1>1, CfgIs
<1> HIDE DEF c
<1>3. Allowed(d, c) <=> (o + Word <= Len(d) /\ HasMagic(d, o))
  BY <1>1, <1>2 DEF Allowed, Counts, HasMagic
<1>4. Allowed(d, c) => After(d, c) = e
  BY <1>1, <1>2 DEF After, Allowed, Counts
<1>5. c.plan # EndPlan
  BY <1>1, <1>2, NotEnd DEF Counts
<1>6. RunTo(d, c, z) <=> Allowed(d, c) /\ RunTo(d, After(d, c), z)
  BY <1>5, RunPeels
<1> HIDE DEF e
<1>7. RunTo(d, c, z) <=> (o + Word <= Len(d) /\ HasMagic(d, o)) /\ RunTo(d, e, z)
  BY <1>3, <1>4, <1>6
<1> QED
  BY <1>7 DEF c, e, f

\* A count that the ID covers is replaced by what it counts.
LEMMA PeelCount ==
  ASSUME NEW d, NEW Q \in Plans, NEW o \in Nat, NEW s, NEW w, NEW m, NEW r, NEW t, NEW z,
         NEW what \in Counts
  PROVE  RunTo(d, Cfg(Cons(Count(what, TRUE), Q), o, s, w, m, r, t), z)
           <=> o < Len(d) /\ RunTo(d, Cfg(Counted(what, CountAt(d, o)) \o Q, o + 1,
                                           Append(s, Cut(d, o, 1)), w,
                                           IF what = "inputs" THEN CountAt(d, o) ELSE m, r, t), z)
<1> DEFINE f == Count(what, TRUE)
           c == Cfg(Cons(f, Q), o, s, w, m, r, t)
           e == Cfg(Counted(what, CountAt(d, o)) \o Q, o + 1, Append(s, Cut(d, o, 1)), w,
                   IF what = "inputs" THEN CountAt(d, o) ELSE m, r, t)
<1>1. f \in FieldSet /\ f.op = what /\ f.n = 1 /\ f.id = TRUE
  BY FieldIs DEF Field, Count, Step, Ops
<1> HIDE DEF f
<1>2. /\ c.plan # <<>> /\ Head(c.plan) = f /\ Tail(c.plan) = Q /\ Op(c) = f.op
      /\ c.offset = o /\ c.seen = s /\ c.segwit = w /\ c.inputLen = m
      /\ c.root = r /\ c.txs = t
  BY <1>1, CfgIs
<1> HIDE DEF c
<1>3. Allowed(d, c) <=> o < Len(d)
  BY <1>1, <1>2 DEF Allowed, Counts, HasMagic
<1>4. Allowed(d, c) => After(d, c) = e
  BY <1>1, <1>2 DEF After, Allowed, Counts
<1>5. c.plan # EndPlan
  BY <1>1, <1>2, NotEnd DEF Counts
<1>6. RunTo(d, c, z) <=> Allowed(d, c) /\ RunTo(d, After(d, c), z)
  BY <1>5, RunPeels
<1> HIDE DEF e
<1>7. RunTo(d, c, z) <=> o < Len(d) /\ RunTo(d, e, z)
  BY <1>3, <1>4, <1>6
<1> QED
  BY <1>7 DEF c, e, f

\* A count that the ID does not cover.
LEMMA PeelCountAside ==
  ASSUME NEW d, NEW Q \in Plans, NEW o \in Nat, NEW s, NEW w, NEW m, NEW r, NEW t, NEW z,
         NEW what \in Counts
  PROVE  RunTo(d, Cfg(Cons(Count(what, FALSE), Q), o, s, w, m, r, t), z)
           <=> o < Len(d) /\ RunTo(d, Cfg(Counted(what, CountAt(d, o)) \o Q, o + 1, s, w,
                   IF what = "inputs" THEN CountAt(d, o) ELSE m, r, t), z)
<1> DEFINE f == Count(what, FALSE)
           c == Cfg(Cons(f, Q), o, s, w, m, r, t)
           e == Cfg(Counted(what, CountAt(d, o)) \o Q, o + 1, s, w,
                   IF what = "inputs" THEN CountAt(d, o) ELSE m, r, t)
<1>1. f \in FieldSet /\ f.op = what /\ f.n = 1 /\ f.id = FALSE
  BY FieldIs DEF Field, Count, Step, Ops
<1> HIDE DEF f
<1>2. /\ c.plan # <<>> /\ Head(c.plan) = f /\ Tail(c.plan) = Q /\ Op(c) = f.op
      /\ c.offset = o /\ c.seen = s /\ c.segwit = w /\ c.inputLen = m
      /\ c.root = r /\ c.txs = t
  BY <1>1, CfgIs
<1> HIDE DEF c
<1>3. Allowed(d, c) <=> o < Len(d)
  BY <1>1, <1>2 DEF Allowed, Counts, HasMagic
<1>4. Allowed(d, c) => After(d, c) = e
  BY <1>1, <1>2 DEF After, Allowed, Counts
<1>5. c.plan # EndPlan
  BY <1>1, <1>2, NotEnd DEF Counts
<1>6. RunTo(d, c, z) <=> Allowed(d, c) /\ RunTo(d, After(d, c), z)
  BY <1>5, RunPeels
<1> HIDE DEF e
<1>7. RunTo(d, c, z) <=> o < Len(d) /\ RunTo(d, e, z)
  BY <1>3, <1>4, <1>6
<1> QED
  BY <1>7 DEF c, e, f

\* The marker and the flag of a segwit transaction.
LEMMA PeelMarker ==
  ASSUME NEW d, NEW Q \in Plans, NEW o \in Nat, NEW s, NEW w, NEW m, NEW r, NEW t, NEW z,
         d[o + 1] = << 0 >>
  PROVE  RunTo(d, Cfg(Cons(Step("marker"), Q), o, s, w, m, r, t), z)
           <=> o + 2 <= Len(d) /\ RunTo(d, Cfg(Q, o + 2, s, TRUE, m, r, t), z)
<1> DEFINE f == Step("marker")
           c == Cfg(Cons(f, Q), o, s, w, m, r, t)
           e == Cfg(Q, o + 2, s, TRUE, m, r, t)
<1>1. f \in FieldSet /\ f.op = "marker" /\ f.n = 0 /\ f.id = FALSE
  BY FieldIs DEF Field, Count, Step, Ops
<1> HIDE DEF f
<1>2. /\ c.plan # <<>> /\ Head(c.plan) = f /\ Tail(c.plan) = Q /\ Op(c) = f.op
      /\ c.offset = o /\ c.seen = s /\ c.segwit = w /\ c.inputLen = m
      /\ c.root = r /\ c.txs = t
  BY <1>1, CfgIs
<1> HIDE DEF c
<1>3. Allowed(d, c) <=> o + 2 <= Len(d)
  BY <1>1, <1>2 DEF Allowed, Counts, HasMagic
<1>4. Allowed(d, c) => After(d, c) = e
  BY <1>1, <1>2 DEF After, Allowed, Counts
<1>5. c.plan # EndPlan
  BY <1>1, <1>2, NotEnd DEF Counts
<1>6. RunTo(d, c, z) <=> Allowed(d, c) /\ RunTo(d, After(d, c), z)
  BY <1>5, RunPeels
<1> HIDE DEF e
<1>7. RunTo(d, c, z) <=> o + 2 <= Len(d) /\ RunTo(d, e, z)
  BY <1>3, <1>4, <1>6
<1> QED
  BY <1>7 DEF c, e, f

\* No marker: the byte is read again.
LEMMA PeelNoMarker ==
  ASSUME NEW d, NEW Q \in Plans, NEW o \in Nat, NEW s, NEW w, NEW m, NEW r, NEW t, NEW z,
         d[o + 1] # << 0 >>
  PROVE  RunTo(d, Cfg(Cons(Step("marker"), Q), o, s, w, m, r, t), z)
           <=> o + 1 <= Len(d) /\ RunTo(d, Cfg(Q, o, s, FALSE, m, r, t), z)
<1> DEFINE f == Step("marker")
           c == Cfg(Cons(f, Q), o, s, w, m, r, t)
           e == Cfg(Q, o, s, FALSE, m, r, t)
<1>1. f \in FieldSet /\ f.op = "marker" /\ f.n = 0 /\ f.id = FALSE
  BY FieldIs DEF Field, Count, Step, Ops
<1> HIDE DEF f
<1>2. /\ c.plan # <<>> /\ Head(c.plan) = f /\ Tail(c.plan) = Q /\ Op(c) = f.op
      /\ c.offset = o /\ c.seen = s /\ c.segwit = w /\ c.inputLen = m
      /\ c.root = r /\ c.txs = t
  BY <1>1, CfgIs
<1> HIDE DEF c
<1>3. Allowed(d, c) <=> o + 1 <= Len(d)
  BY <1>1, <1>2 DEF Allowed, Counts, HasMagic
<1>4. Allowed(d, c) => After(d, c) = e
  BY <1>1, <1>2 DEF After, Allowed, Counts
<1>5. c.plan # EndPlan
  BY <1>1, <1>2, NotEnd DEF Counts
<1>6. RunTo(d, c, z) <=> Allowed(d, c) /\ RunTo(d, After(d, c), z)
  BY <1>5, RunPeels
<1> HIDE DEF e
<1>7. RunTo(d, c, z) <=> o + 1 <= Len(d) /\ RunTo(d, e, z)
  BY <1>3, <1>4, <1>6
<1> QED
  BY <1>7 DEF c, e, f

\* As many witnesses as inputs, in a segwit transaction.
LEMMA PeelWitnesses ==
  ASSUME NEW d, NEW Q \in Plans, NEW o \in Nat, NEW s, NEW w, NEW m, NEW r, NEW t, NEW z
  PROVE  RunTo(d, Cfg(Cons(Step("witnesses"), Q), o, s, w, m, r, t), z)
           <=> TRUE /\ RunTo(d, Cfg((IF w THEN Copies(m, <<Count("witnesses of input", FALSE)>>)
                                     ELSE <<>>) \o Q, o, s, w, m, r, t), z)
<1> DEFINE f == Step("witnesses")
           c == Cfg(Cons(f, Q), o, s, w, m, r, t)
           e == Cfg((IF w THEN Copies(m, <<Count("witnesses of input", FALSE)>>) ELSE <<>>) \o Q,
                   o, s, w, m, r, t)
<1>1. f \in FieldSet /\ f.op = "witnesses" /\ f.n = 0 /\ f.id = FALSE
  BY FieldIs DEF Field, Count, Step, Ops
<1> HIDE DEF f
<1>2. /\ c.plan # <<>> /\ Head(c.plan) = f /\ Tail(c.plan) = Q /\ Op(c) = f.op
      /\ c.offset = o /\ c.seen = s /\ c.segwit = w /\ c.inputLen = m
      /\ c.root = r /\ c.txs = t
  BY <1>1, CfgIs
<1> HIDE DEF c
<1>3. Allowed(d, c) <=> TRUE
  BY <1>1, <1>2 DEF Allowed, Counts, HasMagic
<1>4. Allowed(d, c) => After(d, c) = e
  BY <1>1, <1>2 DEF After, Allowed, Counts
<1>5. c.plan # EndPlan
  BY <1>1, <1>2, NotEnd DEF Counts
<1>6. RunTo(d, c, z) <=> Allowed(d, c) /\ RunTo(d, After(d, c), z)
  BY <1>5, RunPeels
<1> HIDE DEF e
<1>7. RunTo(d, c, z) <=> TRUE /\ RunTo(d, e, z)
  BY <1>3, <1>4, <1>6
<1> QED
  BY <1>7 DEF c, e, f

\* The test after the header.
LEMMA PeelHeader ==
  ASSUME NEW d, NEW Q \in Plans, NEW o \in Nat, NEW s, NEW w, NEW m, NEW r, NEW t, NEW z
  PROVE  RunTo(d, Cfg(Cons(Step("header"), Q), o, s, w, m, r, t), z)
           <=> TRUE /\ RunTo(d, Cfg(Q, o, <<>>, w, m, r, t), z)
<1> DEFINE f == Step("header")
           c == Cfg(Cons(f, Q), o, s, w, m, r, t)
           e == Cfg(Q, o, <<>>, w, m, r, t)
<1>1. f \in FieldSet /\ f.op = "header" /\ f.n = 0 /\ f.id = FALSE
  BY FieldIs DEF Field, Count, Step, Ops
<1> HIDE DEF f
<1>2. /\ c.plan # <<>> /\ Head(c.plan) = f /\ Tail(c.plan) = Q /\ Op(c) = f.op
      /\ c.offset = o /\ c.seen = s /\ c.segwit = w /\ c.inputLen = m
      /\ c.root = r /\ c.txs = t
  BY <1>1, CfgIs
<1> HIDE DEF c
<1>3. Allowed(d, c) <=> TRUE
  BY <1>1, <1>2 DEF Allowed, Counts, HasMagic
<1>4. Allowed(d, c) => After(d, c) = e
  BY <1>1, <1>2 DEF After, Allowed, Counts
<1>5. c.plan # EndPlan
  BY <1>1, <1>2, NotEnd DEF Counts
<1>6. RunTo(d, c, z) <=> Allowed(d, c) /\ RunTo(d, After(d, c), z)
  BY <1>5, RunPeels
<1> HIDE DEF e
<1>7. RunTo(d, c, z) <=> TRUE /\ RunTo(d, e, z)
  BY <1>3, <1>4, <1>6
<1> QED
  BY <1>7 DEF c, e, f

\* The test after a transaction, whose ID is added.
LEMMA PeelTransaction ==
  ASSUME NEW d, NEW Q \in Plans, NEW o \in Nat, NEW s, NEW w, NEW m, NEW r, NEW t, NEW z
  PROVE  RunTo(d, Cfg(Cons(Step("transaction"), Q), o, s, w, m, r, t), z)
           <=> TRUE /\ RunTo(d, Cfg(Q, o, <<>>, w, m, r, Append(t, s)), z)
<1> DEFINE f == Step("transaction")
           c == Cfg(Cons(f, Q), o, s, w, m, r, t)
           e == Cfg(Q, o, <<>>, w, m, r, Append(t, s))
<1>1. f \in FieldSet /\ f.op = "transaction" /\ f.n = 0 /\ f.id = FALSE
  BY FieldIs DEF Field, Count, Step, Ops
<1> HIDE DEF f
<1>2. /\ c.plan # <<>> /\ Head(c.plan) = f /\ Tail(c.plan) = Q /\ Op(c) = f.op
      /\ c.offset = o /\ c.seen = s /\ c.segwit = w /\ c.inputLen = m
      /\ c.root = r /\ c.txs = t
  BY <1>1, CfgIs
<1> HIDE DEF c
<1>3. Allowed(d, c) <=> TRUE
  BY <1>1, <1>2 DEF Allowed, Counts, HasMagic
<1>4. Allowed(d, c) => After(d, c) = e
  BY <1>1, <1>2 DEF After, Allowed, Counts
<1>5. c.plan # EndPlan
  BY <1>1, <1>2, NotEnd DEF Counts
<1>6. RunTo(d, c, z) <=> Allowed(d, c) /\ RunTo(d, After(d, c), z)
  BY <1>5, RunPeels
<1> HIDE DEF e
<1>7. RunTo(d, c, z) <=> TRUE /\ RunTo(d, e, z)
  BY <1>3, <1>4, <1>6
<1> QED
  BY <1>7 DEF c, e, f

-----------------------------------------------------------------------------
(* Sequences joined to one.                                                *)

\* The first n of the sequences u, one after the other.
Joint(u, n) == FlattenSeq([i \in 1..n |-> u[i]])

JointVia(f, u, n, C) ==
  /\ f \in [0..n -> Seq(C)] /\ f[0] = <<>>
  /\ \A i \in 1..n : f[i] = f[i - 1] \o u[i]
  /\ Joint(u, n) = f[n]

\* Joining sequences is an iteration.
LEMMA JointIs ==
  ASSUME NEW C, NEW u \in [Nat -> Seq(C)], NEW n \in Nat
  PROVE  \E f : JointVia(f, u, n, C)
<1> DEFINE s == [i \in 1..n |-> u[i]]
<1>1. s \in [1..n -> Seq(C)]
  OBVIOUS
<1>2. s \in Seq(Seq(C)) /\ Len(s) = n
  BY <1>1, IsASeq, LenProperties
<1>3. \A i \in 1..n : s[i] = u[i]
  OBVIOUS
<1>4. Joint(u, n) = FlattenSeq(s)
  BY DEF Joint
<1> HIDE DEF s
<1>5. PICK f : Joins(f, s, C) /\ FlattenSeq(s) = f[Len(s)]
  BY <1>2, FlattenedIs DEF FlattenSeq, Flattened
<1>6. JointVia(f, u, n, C)
  BY <1>2, <1>3, <1>4, <1>5 DEF Joins, JointVia
<1> QED
  BY <1>6

\* What is joined of sequences over C is one.
LEMMA JointType ==
  ASSUME NEW C, NEW u \in [Nat -> Seq(C)], NEW n \in Nat
  PROVE  Joint(u, n) \in Seq(C)
<1>1. PICK f : JointVia(f, u, n, C)
  BY JointIs
<1> QED
  BY <1>1 DEF JointVia

\* Nothing is joined of no sequences.
LEMMA JointOfNone ==
  ASSUME NEW C, NEW u \in [Nat -> Seq(C)]
  PROVE  Joint(u, 0) = <<>>
<1> DEFINE n == 0
<1>1. n \in Nat
  OBVIOUS
<1>2. n = 0
  OBVIOUS
<1> HIDE DEF n
<1>3. PICK f : JointVia(f, u, n, C)
  BY <1>1, JointIs
<1> QED
  BY <1>2, <1>3 DEF JointVia

\* One more sequence is joined at the end.
LEMMA JointGrows ==
  ASSUME NEW C, NEW u \in [Nat -> Seq(C)], NEW n \in Nat
  PROVE  Joint(u, n + 1) = Joint(u, n) \o u[n + 1]
<1> DEFINE m == n + 1
<1>1. m \in Nat /\ n \in 0..n /\ m \in 1..m /\ m - 1 = n /\ 0 \in 0..n
  OBVIOUS
<1>2. m = n + 1
  OBVIOUS
<1> HIDE DEF m
<1>3. PICK f : JointVia(f, u, n, C)
  BY JointIs
<1>4. PICK g : JointVia(g, u, m, C)
  BY <1>1, JointIs
<1> DEFINE T == {i \in 0..n : f[i] = g[i]}
<1>5. 0 \in T
  BY <1>1, <1>3, <1>4 DEF JointVia
<1>6. ASSUME NEW i \in T, i < n
      PROVE  i + 1 \in T
  <2>1. i \in 0..n /\ f[i] = g[i]
    OBVIOUS
  <2>2. i + 1 \in 1..n /\ i + 1 \in 1..m /\ (i + 1) - 1 = i /\ i + 1 \in 0..n
    BY <1>2, <1>6, <2>1
  <2>3. f[i + 1] = f[(i + 1) - 1] \o u[i + 1]
    BY <1>3, <2>2 DEF JointVia
  <2>4. g[i + 1] = g[(i + 1) - 1] \o u[i + 1]
    BY <1>4, <2>2 DEF JointVia
  <2> QED
    BY <2>1, <2>2, <2>3, <2>4
<1>7. T \in SUBSET (0..n)
  OBVIOUS
<1>8. ASSUME NEW i \in T
      PROVE  f[i] = g[i]
  OBVIOUS
<1> HIDE DEF T
<1>9. n \in T
  BY <1>1, <1>5, <1>6, <1>7, SetInductionUpTo
<1>10. f[n] = g[n]
  BY <1>8, <1>9
<1>11. g[m] = g[m - 1] \o u[m]
  BY <1>1, <1>4 DEF JointVia
<1>12. Joint(u, n) = f[n] /\ Joint(u, m) = g[m]
  BY <1>3, <1>4 DEF JointVia
<1> QED
  BY <1>1, <1>2, <1>10, <1>11, <1>12

\* Copies of a sequence are joined one by one.
LEMMA CopiesType ==
  ASSUME NEW C, NEW F \in Seq(C), NEW n \in Nat
  PROVE  /\ Copies(n, F) \in Seq(C)
         /\ Copies(0, F) = <<>>
         /\ Copies(n + 1, F) = Copies(n, F) \o F
<1> DEFINE u == [i \in Nat |-> F]
<1>1. u \in [Nat -> Seq(C)] /\ u[n + 1] = F
  OBVIOUS
<1>2. ASSUME NEW k \in Nat
      PROVE  Copies(k, F) = Joint(u, k)
  <2>1. [i \in 1..k |-> F] = [i \in 1..k |-> u[i]]
    OBVIOUS
  <2> HIDE DEF u
  <2> QED
    BY <2>1 DEF Copies, Joint
<1>3. /\ Copies(n, F) = Joint(u, n) /\ Copies(0, F) = Joint(u, 0)
      /\ Copies(n + 1, F) = Joint(u, n + 1)
  BY <1>2
<1> HIDE DEF u
<1>4. Joint(u, n) \in Seq(C)
  BY <1>1, JointType
<1>5. Joint(u, 0) = <<>>
  BY <1>1, JointOfNone
<1>6. Joint(u, n + 1) = Joint(u, n) \o u[n + 1]
  BY <1>1, JointGrows
<1> QED
  BY <1>1, <1>3, <1>4, <1>5, <1>6

\* The same of fields.
LEMMA CopiesGrow ==
  ASSUME NEW F \in Plans, NEW n \in Nat
  PROVE  /\ Copies(n, F) \in Plans
         /\ Copies(0, F) = <<>>
         /\ Copies(n + 1, F) = Copies(n, F) \o F
BY CopiesType DEF Plans

\* The slices of the data, as a field has them.
Slices(d) == {Cut(d, o, n) : o \in Nat, n \in Nat}

\* The contents of parts are joined one by one.
LEMMA ContentsGrow ==
  ASSUME NEW C, NEW ids \in [Nat -> Seq(C)], NEW end \in [Nat -> Nat], NEW o \in Nat, NEW n \in Nat
  PROVE  /\ Contents(ids, end, o, n) \in Seq(C)
         /\ Contents(ids, end, o, 0) = <<>>
         /\ Contents(ids, end, o, n + 1) = Contents(ids, end, o, n) \o ids[Starts(end, o)[n]]
<1> DEFINE st == Starts(end, o)
           u == [i \in Nat |-> IF i = 0 THEN <<>> ELSE ids[st[i - 1]]]
<1>1. st \in [Nat -> Nat]
  BY StartsIs
<1>2. \A k \in Nat : Contents(ids, end, o, k) = FlattenSeq([i \in 1..k |-> ids[st[i - 1]]])
  BY DEF Contents
<1> HIDE DEF st
<1>3. u \in [Nat -> Seq(C)]
  <2>1. <<>> \in Seq(C)
    OBVIOUS
  <2> QED
    BY <1>1, <2>1
<1>4. u[n + 1] = ids[st[n]]
  OBVIOUS
<1>5. ASSUME NEW k \in Nat
      PROVE  Contents(ids, end, o, k) = Joint(u, k)
  <2>1. [i \in 1..k |-> ids[st[i - 1]]] = [i \in 1..k |-> u[i]]
    OBVIOUS
  <2> HIDE DEF u
  <2> QED
    BY <1>2, <2>1 DEF Joint
<1> HIDE DEF u
<1>6. Joint(u, n) \in Seq(C)
  BY <1>3, JointType
<1>7. Joint(u, 0) = <<>>
  BY <1>3, JointOfNone
<1>8. Joint(u, n + 1) = Joint(u, n) \o u[n + 1]
  BY <1>3, JointGrows
<1>9. /\ Contents(ids, end, o, n) = Joint(u, n) /\ Contents(ids, end, o, 0) = Joint(u, 0)
      /\ Contents(ids, end, o, n + 1) = Joint(u, n + 1)
  BY <1>5
<1> QED
  BY <1>4, <1>6, <1>7, <1>8, <1>9 DEF st

-----------------------------------------------------------------------------
(* Fields that take the reader from an offset to where they end, whatever comes
   after them.                                                             *)

\* The reader gets to the end of the block only if it can read on where it is.
Inside(d, Q) ==
  \A o, m \in Nat, w \in BOOLEAN, s \in Seq(Slices(d)) : \A r, t, z :
    RunTo(d, Cfg(Q, o, s, w, m, r, t), z) => o < Len(d)

\* From o on the fields F take the reader to end[o], with ids[o] seen.
Advances(d, F, end, ids, Q) ==
  \A o, m \in Nat, w \in BOOLEAN, s \in Seq(Slices(d)) : \A r, t, z :
    RunTo(d, Cfg(F \o Q, o, s, w, m, r, t), z)
      <=> RunTo(d, Cfg(Q, end[o], s \o ids[o], w, m, r, t), z)

\* One field f in front of Q.
Peels(d, f, end, ids, Q) ==
  \A o \in Nat, s \in Seq(Slices(d)), w \in BOOLEAN, m \in Nat : \A r, t, z :
    RunTo(d, Cfg(Cons(f, Q), o, s, w, m, r, t), z)
      <=> RunTo(d, Cfg(Q, end[o], s \o ids[o], w, m, r, t), z)

\* So it is for every plan that goes on after F.
Reads(d, F, end, ids) ==
  /\ F \in Plans /\ end \in [Nat -> Nat] /\ ids \in [Nat -> Seq(Slices(d))]
  /\ \A o \in Nat : o <= end[o]
  /\ \A Q \in Plans : Inside(d, Q) => Advances(d, F, end, ids, Q)

\* Joining keeps the type.
LEMMA JoinType ==
  ASSUME NEW C, NEW p \in Seq(C), NEW q \in Seq(C)
  PROVE  p \o q \in Seq(C)
OBVIOUS

\* Joining is associative.
LEMMA JoinOnce ==
  ASSUME NEW C, NEW p \in Seq(C), NEW q \in Seq(C), NEW r \in Seq(C)
  PROVE  (p \o q) \o r = p \o (q \o r)
OBVIOUS

\* Fields before a plan leave the reader inside the data.
LEMMA InsideBefore ==
  ASSUME NEW d, Len(d) \in Nat, NEW F, NEW end, NEW ids, Reads(d, F, end, ids),
         NEW Q \in Plans, Inside(d, Q)
  PROVE  Inside(d, F \o Q)
<1> SUFFICES ASSUME NEW o \in Nat, NEW s \in Seq(Slices(d)), NEW w \in BOOLEAN,
                    NEW m \in Nat, NEW r, NEW t, NEW z,
                    RunTo(d, Cfg(F \o Q, o, s, w, m, r, t), z)
             PROVE  o < Len(d)
  BY DEF Inside
<1>1. /\ end[o] \in Nat /\ ids[o] \in Seq(Slices(d)) /\ o <= end[o]
      /\ Advances(d, F, end, ids, Q)
  BY DEF Reads
<1>2. RunTo(d, Cfg(Q, end[o], s \o ids[o], w, m, r, t), z)
  BY <1>1 DEF Advances
<1>3. s \o ids[o] \in Seq(Slices(d))
  BY <1>1, JoinType
<1>4. end[o] < Len(d)
  BY <1>1, <1>2, <1>3 DEF Inside
<1> QED
  BY <1>1, <1>4

\* Fields after fields.
LEMMA ReadsBoth ==
  ASSUME NEW d, Len(d) \in Nat,
         NEW F, NEW e, NEW i, Reads(d, F, e, i), NEW G, NEW f, NEW j, Reads(d, G, f, j)
  PROVE  Reads(d, F \o G, [o \in Nat |-> f[e[o]]], [o \in Nat |-> i[o] \o j[e[o]]])
<1> DEFINE end == [o \in Nat |-> f[e[o]]]
           ids == [o \in Nat |-> i[o] \o j[e[o]]]
<1>1. /\ F \in Seq(FieldSet) /\ G \in Seq(FieldSet)
      /\ e \in [Nat -> Nat] /\ f \in [Nat -> Nat]
      /\ i \in [Nat -> Seq(Slices(d))] /\ j \in [Nat -> Seq(Slices(d))]
      /\ \A o \in Nat : o <= e[o] /\ o <= f[o]
  BY DEF Reads, Plans
<1>2. F \o G \in Plans
  BY <1>1, JoinType DEF Plans
<1>3. end \in [Nat -> Nat] /\ \A o \in Nat : o <= end[o]
  <2>1. \A o \in Nat : e[o] \in Nat /\ f[e[o]] \in Nat /\ o <= e[o] /\ e[o] <= f[e[o]]
    BY <1>1
  <2>2. \A o \in Nat : o <= f[e[o]]
    BY <2>1
  <2> QED
    BY <2>1, <2>2
<1>4. ids \in [Nat -> Seq(Slices(d))]
  <2>1. \A o \in Nat : i[o] \o j[e[o]] \in Seq(Slices(d))
    <3> TAKE o \in Nat
    <3>1. i[o] \in Seq(Slices(d)) /\ j[e[o]] \in Seq(Slices(d))
      BY <1>1
    <3> QED
      BY <3>1, JoinType
  <2> QED
    BY <2>1
<1>5. ASSUME NEW Q \in Plans, Inside(d, Q)
      PROVE  Advances(d, F \o G, end, ids, Q)
  <2>1. G \o Q \in Plans
    BY <1>1, JoinType DEF Plans
  <2>2. Inside(d, G \o Q)
    BY <1>5, InsideBefore
  <2>3. Advances(d, F, e, i, G \o Q)
    BY <2>1, <2>2 DEF Reads
  <2>4. Advances(d, G, f, j, Q)
    BY <1>5 DEF Reads
  <2>5. (F \o G) \o Q = F \o (G \o Q)
    <3>1. F \in Seq(FieldSet) /\ G \in Seq(FieldSet) /\ Q \in Seq(FieldSet)
      BY <1>1 DEF Plans
    <3> QED
      BY <3>1, JoinOnce
  <2>6. ASSUME NEW o \in Nat, NEW s \in Seq(Slices(d)), NEW w \in BOOLEAN, NEW m \in Nat,
               NEW r, NEW t, NEW z
        PROVE  RunTo(d, Cfg((F \o G) \o Q, o, s, w, m, r, t), z)
                 <=> RunTo(d, Cfg(Q, end[o], s \o ids[o], w, m, r, t), z)
    <3>1. e[o] \in Nat /\ i[o] \in Seq(Slices(d)) /\ j[e[o]] \in Seq(Slices(d))
      BY <1>1
    <3>2. /\ s \o i[o] \in Seq(Slices(d))
          /\ (s \o i[o]) \o j[e[o]] = s \o (i[o] \o j[e[o]])
      <4>1. s \o i[o] \in Seq(Slices(d))
        BY <3>1, JoinType
      <4>2. \A a, b \in Seq(Slices(d)) : (s \o a) \o b = s \o (a \o b)
        BY JoinOnce
      <4> QED
        BY <3>1, <4>1, <4>2, Zenon
    <3>3. RunTo(d, Cfg(F \o (G \o Q), o, s, w, m, r, t), z)
            <=> RunTo(d, Cfg(G \o Q, e[o], s \o i[o], w, m, r, t), z)
      BY <2>3 DEF Advances
    <3>4. RunTo(d, Cfg(G \o Q, e[o], s \o i[o], w, m, r, t), z)
            <=> RunTo(d, Cfg(Q, f[e[o]], (s \o i[o]) \o j[e[o]], w, m, r, t), z)
      BY <2>4, <3>1, <3>2 DEF Advances
    <3>5. end[o] = f[e[o]] /\ ids[o] = i[o] \o j[e[o]]
      OBVIOUS
    <3> HIDE DEF end, ids
    <3> QED
      BY <2>5, <3>2, <3>3, <3>4, <3>5
  <2> HIDE DEF end, ids
  <2> QED
    BY <2>6 DEF Advances
<1> HIDE DEF end, ids
<1>6. Reads(d, F \o G, end, ids)
  BY <1>2, <1>3, <1>4, <1>5 DEF Reads
<1> QED
  BY <1>6 DEF end, ids

-----------------------------------------------------------------------------
(* Fields of a fixed length, and copies.                                   *)

\* No fields.
LEMMA ReadsNone ==
  ASSUME NEW d
  PROVE  Reads(d, <<>>, [o \in Nat |-> o], [o \in Nat |-> <<>>])
<1> DEFINE end == [o \in Nat |-> o]
           ids == [o \in Nat |-> <<>>]
<1>1. /\ <<>> \in Plans /\ end \in [Nat -> Nat] /\ ids \in [Nat -> Seq(Slices(d))]
      /\ \A o \in Nat : end[o] = o /\ ids[o] = <<>>
  BY DEF Plans
<1> HIDE DEF end, ids
<1>2. ASSUME NEW Q \in Plans
      PROVE  Advances(d, <<>>, end, ids, Q)
  <2>1. <<>> \o Q = Q /\ \A s \in Seq(Slices(d)) : s \o <<>> = s
    BY DEF Plans
  <2> QED
    BY <1>1, <2>1 DEF Advances
<1>3. Reads(d, <<>>, end, ids)
  BY <1>1, <1>2 DEF Reads
<1> QED
  BY <1>3 DEF end, ids

\* One field.
LEMMA ReadsOne ==
  ASSUME NEW d, NEW f \in FieldSet, NEW end \in [Nat -> Nat], NEW ids \in [Nat -> Seq(Slices(d))],
         \A o \in Nat : o <= end[o],
         \A Q \in Plans : Inside(d, Q) => Peels(d, f, end, ids, Q)
  PROVE  Reads(d, <<f>>, end, ids)
<1>1. <<f>> \in Plans
  BY DEF Plans
<1>2. ASSUME NEW Q \in Plans, Inside(d, Q)
      PROVE  Advances(d, <<f>>, end, ids, Q)
  <2> SUFFICES ASSUME NEW o \in Nat, NEW m \in Nat, NEW w \in BOOLEAN, NEW s \in Seq(Slices(d)),
                      NEW r, NEW t, NEW z
               PROVE  RunTo(d, Cfg(<<f>> \o Q, o, s, w, m, r, t), z)
                        <=> RunTo(d, Cfg(Q, end[o], s \o ids[o], w, m, r, t), z)
    BY Zenon DEF Advances
  <2>1. <<f>> \o Q = Cons(f, Q)
    BY DEF Cons
  <2>2. Peels(d, f, end, ids, Q)
    BY <1>2
  <2>3. RunTo(d, Cfg(Cons(f, Q), o, s, w, m, r, t), z)
          <=> RunTo(d, Cfg(Q, end[o], s \o ids[o], w, m, r, t), z)
    BY <2>2, Zenon DEF Peels
  <2> QED
    BY <2>1, <2>3, Zenon
<1> QED
  BY <1>1, <1>2 DEF Reads

\* A slice of the data, as a list of one field.
LEMMA CutIs ==
  ASSUME NEW d, NEW o \in Nat, NEW n \in Nat
  PROVE  <<Cut(d, o, n)>> \in Seq(Slices(d))
<1>1. Cut(d, o, n) \in Slices(d)
  BY DEF Slices
<1> QED
  BY <1>1

\* Appending is joining a list of one.
LEMMA AppendIs ==
  ASSUME NEW C, NEW s \in Seq(C), NEW x \in C
  PROVE  Append(s, x) = s \o <<x>> /\ Append(s, x) \in Seq(C)
OBVIOUS

\* Joining nothing.
LEMMA NothingSeen ==
  ASSUME NEW C, NEW s \in Seq(C)
  PROVE  s \o <<>> = s
OBVIOUS

\* A fixed-width field of n cells.
LEMMA ReadsFixed ==
  ASSUME NEW d, Len(d) \in Nat, NEW n \in Nat
  PROVE  Reads(d, <<Fixed(n)>>, [o \in Nat |-> o + n], [o \in Nat |-> <<Cut(d, o, n)>>])
<1> DEFINE end == [o \in Nat |-> o + n]
           ids == [o \in Nat |-> <<Cut(d, o, n)>>]
<1>1. /\ end \in [Nat -> Nat] /\ ids \in [Nat -> Seq(Slices(d))]
      /\ \A o \in Nat : end[o] = o + n /\ o <= end[o] /\ ids[o] = <<Cut(d, o, n)>>
  BY CutIs
<1> HIDE DEF end, ids
<1>2. Fixed(n) \in FieldSet
  BY FieldIs DEF Fixed, Ops
<1>3. ASSUME NEW Q \in Plans, Inside(d, Q), NEW o \in Nat, NEW s \in Seq(Slices(d)),
             NEW w \in BOOLEAN, NEW m \in Nat, NEW r, NEW t, NEW z
      PROVE  RunTo(d, Cfg(Cons(Fixed(n), Q), o, s, w, m, r, t), z)
               <=> RunTo(d, Cfg(Q, end[o], s \o ids[o], w, m, r, t), z)
  <2>1. RunTo(d, Cfg(Cons(Fixed(n), Q), o, s, w, m, r, t), z)
          <=> o + n <= Len(d) /\ RunTo(d, Cfg(Q, o + n, Append(s, Cut(d, o, n)), w, m, r, t), z)
    BY PeelFixed DEF Fixed
  <2>2. Cut(d, o, n) \in Slices(d)
    BY DEF Slices
  <2>3. Append(s, Cut(d, o, n)) = s \o ids[o] /\ s \o ids[o] \in Seq(Slices(d))
    <3>1. ids[o] = <<Cut(d, o, n)>>
      BY <1>1
    <3>2. /\ Append(s, Cut(d, o, n)) = s \o <<Cut(d, o, n)>>
          /\ Append(s, Cut(d, o, n)) \in Seq(Slices(d))
      BY <2>2, AppendIs
    <3> QED
      BY <3>1, <3>2, Zenon
  <2>4. RunTo(d, Cfg(Q, end[o], s \o ids[o], w, m, r, t), z) => end[o] < Len(d)
    BY <1>1, <1>3, <2>3 DEF Inside
  <2>5. RunTo(d, Cfg(Q, end[o], s \o ids[o], w, m, r, t), z) => o + n <= Len(d)
    BY <1>1, <2>4
  <2> QED
    BY <1>1, <2>1, <2>3, <2>5, Zenon
<1>4. ASSUME NEW Q \in Plans, Inside(d, Q)
      PROVE  Peels(d, Fixed(n), end, ids, Q)
  BY <1>3, <1>4, Zenon DEF Peels
<1>5. Reads(d, <<Fixed(n)>>, end, ids)
  BY <1>1, <1>2, <1>4, ReadsOne
<1> QED
  BY <1>5 DEF end, ids

\* n bytes.
LEMMA ReadsBytes ==
  ASSUME NEW d, Len(d) \in Nat, NEW n \in Nat
  PROVE  Reads(d, <<Bytes(n)>>, [o \in Nat |-> o + n], [o \in Nat |-> <<Cut(d, o, n)>>])
<1> DEFINE end == [o \in Nat |-> o + n]
           ids == [o \in Nat |-> <<Cut(d, o, n)>>]
<1>1. /\ end \in [Nat -> Nat] /\ ids \in [Nat -> Seq(Slices(d))]
      /\ \A o \in Nat : end[o] = o + n /\ o <= end[o] /\ ids[o] = <<Cut(d, o, n)>>
  BY CutIs
<1> HIDE DEF end, ids
<1>2. Bytes(n) \in FieldSet
  BY FieldIs DEF Bytes, Ops
<1>3. ASSUME NEW Q \in Plans, Inside(d, Q), NEW o \in Nat, NEW s \in Seq(Slices(d)),
             NEW w \in BOOLEAN, NEW m \in Nat, NEW r, NEW t, NEW z
      PROVE  RunTo(d, Cfg(Cons(Bytes(n), Q), o, s, w, m, r, t), z)
               <=> RunTo(d, Cfg(Q, end[o], s \o ids[o], w, m, r, t), z)
  <2>1. RunTo(d, Cfg(Cons(Bytes(n), Q), o, s, w, m, r, t), z)
          <=> o + n < Len(d) /\ RunTo(d, Cfg(Q, o + n, Append(s, Cut(d, o, n)), w, m, r, t), z)
    BY PeelBytes DEF Bytes
  <2>2. Cut(d, o, n) \in Slices(d)
    BY DEF Slices
  <2>3. Append(s, Cut(d, o, n)) = s \o ids[o] /\ s \o ids[o] \in Seq(Slices(d))
    <3>1. ids[o] = <<Cut(d, o, n)>>
      BY <1>1
    <3>2. /\ Append(s, Cut(d, o, n)) = s \o <<Cut(d, o, n)>>
          /\ Append(s, Cut(d, o, n)) \in Seq(Slices(d))
      BY <2>2, AppendIs
    <3> QED
      BY <3>1, <3>2, Zenon
  <2>4. RunTo(d, Cfg(Q, end[o], s \o ids[o], w, m, r, t), z) => o + n < Len(d)
    BY <1>1, <1>3, <2>3 DEF Inside
  <2> QED
    BY <1>1, <2>1, <2>3, <2>4, Zenon
<1>4. ASSUME NEW Q \in Plans, Inside(d, Q)
      PROVE  Peels(d, Bytes(n), end, ids, Q)
  BY <1>3, <1>4, Zenon DEF Peels
<1>5. Reads(d, <<Bytes(n)>>, end, ids)
  BY <1>1, <1>2, <1>4, ReadsOne
<1> QED
  BY <1>5 DEF end, ids

\* n bytes that the ID does not cover.
LEMMA ReadsHeader ==
  ASSUME NEW d, Len(d) \in Nat, NEW n \in Nat
  PROVE  Reads(d, <<Header(n)>>, [o \in Nat |-> o + n], [o \in Nat |-> <<>>])
<1> DEFINE end == [o \in Nat |-> o + n]
           ids == [o \in Nat |-> <<>>]
<1>1. /\ end \in [Nat -> Nat] /\ ids \in [Nat -> Seq(Slices(d))]
      /\ \A o \in Nat : end[o] = o + n /\ o <= end[o] /\ ids[o] = <<>>
  OBVIOUS
<1> HIDE DEF end, ids
<1>2. Header(n) \in FieldSet
  BY FieldIs DEF Header, Ops
<1>3. ASSUME NEW Q \in Plans, Inside(d, Q), NEW o \in Nat, NEW s \in Seq(Slices(d)),
             NEW w \in BOOLEAN, NEW m \in Nat, NEW r, NEW t, NEW z
      PROVE  RunTo(d, Cfg(Cons(Header(n), Q), o, s, w, m, r, t), z)
               <=> RunTo(d, Cfg(Q, end[o], s \o ids[o], w, m, r, t), z)
  <2>1. RunTo(d, Cfg(Cons(Header(n), Q), o, s, w, m, r, t), z)
          <=> o + n < Len(d) /\ RunTo(d, Cfg(Q, o + n, s, w, m, r, t), z)
    BY PeelBytesAside DEF Header
  <2>2. s \o ids[o] = s
    <3>1. s \o <<>> = s /\ ids[o] = <<>>
      BY <1>1, NothingSeen
    <3> QED
      BY <3>1, Zenon
  <2>3. RunTo(d, Cfg(Q, end[o], s, w, m, r, t), z) => o + n < Len(d)
    BY <1>1, <1>3 DEF Inside
  <2> QED
    BY <1>1, <2>1, <2>2, <2>3, Zenon
<1>4. ASSUME NEW Q \in Plans, Inside(d, Q)
      PROVE  Peels(d, Header(n), end, ids, Q)
  BY <1>3, <1>4, Zenon DEF Peels
<1>5. Reads(d, <<Header(n)>>, end, ids)
  BY <1>1, <1>2, <1>4, ReadsOne
<1> QED
  BY <1>5 DEF end, ids

\* The contents of one more part.
LEMMA ContentsNext ==
  ASSUME NEW C, NEW ids \in [Nat -> Seq(C)], NEW end \in [Nat -> Nat], NEW o \in Nat, NEW n \in Nat
  PROVE  Contents(ids, end, o, n + 1) = Contents(ids, end, o, n) \o ids[EndOf(end, o, n)]
<1>1. /\ Contents(ids, end, o, n) \in Seq(C)
      /\ Contents(ids, end, o, 0) = <<>>
      /\ Contents(ids, end, o, n + 1) = Contents(ids, end, o, n) \o ids[Starts(end, o)[n]]
  BY ContentsGrow
<1> QED
  BY <1>1 DEF EndOf

\* Copies of fields, each where the one before it ends.
LEMMA ReadsCopies ==
  ASSUME NEW d, Len(d) \in Nat, NEW F, NEW e, NEW i, Reads(d, F, e, i), NEW n \in Nat
  PROVE  Reads(d, Copies(n, F), [o \in Nat |-> EndOf(e, o, n)],
               [o \in Nat |-> Contents(i, e, o, n)])
<1> DEFINE end(k) == [o \in Nat |-> EndOf(e, o, k)]
           ids(k) == [o \in Nat |-> Contents(i, e, o, k)]
           T == {k \in Nat : Reads(d, Copies(k, F), end(k), ids(k))}
<1>1. F \in Plans /\ e \in [Nat -> Nat] /\ i \in [Nat -> Seq(Slices(d))]
  BY DEF Reads
<1>6. ASSUME NEW k \in Nat, NEW o \in Nat
      PROVE  Contents(i, e, o, k + 1) = Contents(i, e, o, k) \o i[EndOf(e, o, k)]
  BY <1>1, ContentsNext
<1>2. 0 \in T
  <2>1. \A o \in Nat : EndOf(e, o, 0) = o
    BY <1>1, StartsIs DEF EndOf
  <2>2. \A o \in Nat : Contents(i, e, o, 0) = <<>>
    BY <1>1, ContentsGrow
  <2>3. end(0) = [o \in Nat |-> o]
    BY <2>1
  <2>4. ids(0) = [o \in Nat |-> <<>>]
    BY <2>2
  <2>5. Copies(0, F) = <<>>
    BY <1>1, CopiesGrow
  <2> HIDE DEF end, ids
  <2> QED
    BY <2>3, <2>4, <2>5, ReadsNone
<1>3. ASSUME NEW k \in T
      PROVE  k + 1 \in T
  <2>1. k \in Nat /\ Reads(d, Copies(k, F), end(k), ids(k))
    OBVIOUS
  <2>2. Reads(d, Copies(k, F) \o F, [o \in Nat |-> e[end(k)[o]]],
              [o \in Nat |-> ids(k)[o] \o i[end(k)[o]]])
    <3> HIDE DEF end, ids
    <3> QED
      BY <2>1, ReadsBoth
  <2>3. \A o \in Nat : EndOf(e, o, k + 1) = e[EndOf(e, o, k)]
    BY <1>1, <2>1, StartsIs DEF EndOf
  <2>4. \A o \in Nat : Contents(i, e, o, k + 1) = Contents(i, e, o, k) \o i[EndOf(e, o, k)]
    BY <1>6, <2>1
  <2>5. [o \in Nat |-> e[end(k)[o]]] = end(k + 1)
    BY <2>3
  <2>6. [o \in Nat |-> ids(k)[o] \o i[end(k)[o]]] = ids(k + 1)
    BY <2>4
  <2>7. Copies(k + 1, F) = Copies(k, F) \o F
    BY <1>1, <2>1, CopiesGrow
  <2> HIDE DEF end, ids
  <2>8. Reads(d, Copies(k + 1, F), end(k + 1), ids(k + 1))
    BY <2>2, <2>5, <2>6, <2>7
  <2> QED
    BY <2>1, <2>8
<1>4. T \in SUBSET Nat
  OBVIOUS
<1> HIDE DEF T
<1>5. n \in T
  BY <1>2, <1>3, <1>4, SetInduction
<1> QED
  BY <1>5 DEF T

-----------------------------------------------------------------------------
(* Counts, and what they count.                                            *)

\* A count in the data is a number.
LEMMA CountIs ==
  ASSUME NEW d, IsData(d), NEW o \in Nat
  PROVE  CountAt(d, o) \in Nat /\ o + 1 \in Nat
<1>1. Len(d) \in Nat /\ DOMAIN d = 1..Len(d) /\ \A i \in 1..Len(d) : Size(d[i]) \in Nat
  BY DEF IsData, IsSeq
<1> QED
  BY <1>1 DEF CountAt

CountedRead(d, what, e, i) ==
  /\ e \in [Nat -> [Nat -> Nat]] /\ i \in [Nat -> [Nat -> Seq(Slices(d))]]
  /\ \A n \in Nat : Reads(d, Counted(what, n), e[n], i[n])

\* The slice that a count is.
LEMMA CutIsOne ==
  ASSUME NEW d, NEW o \in Nat
  PROVE  Cut(d, o, 1) \in Slices(d) /\ <<Cut(d, o, 1)>> \in Seq(Slices(d))
<1>1. 1 \in Nat
  OBVIOUS
<1>2. Cut(d, o, 1) \in Slices(d)
  BY <1>1 DEF Slices
<1> QED
  BY <1>2

\* A count that the ID covers, and what it counts.
LEMMA ReadsCount ==
  ASSUME NEW d, IsData(d), NEW what \in Counts \ {"inputs"},
         NEW e, NEW i, CountedRead(d, what, e, i)
  PROVE  Reads(d, <<Count(what, TRUE)>>, [o \in Nat |-> e[CountAt(d, o)][o + 1]],
               [o \in Nat |-> <<Cut(d, o, 1)>> \o i[CountAt(d, o)][o + 1]])
<1> DEFINE end == [o \in Nat |-> e[CountAt(d, o)][o + 1]]
           ids == [o \in Nat |-> <<Cut(d, o, 1)>> \o i[CountAt(d, o)][o + 1]]
<1>1. Len(d) \in Nat
  BY DEF IsData, IsSeq
<1>2. ASSUME NEW o \in Nat
      PROVE  /\ CountAt(d, o) \in Nat /\ o + 1 \in Nat
             /\ e[CountAt(d, o)][o + 1] \in Nat /\ o + 1 <= e[CountAt(d, o)][o + 1]
             /\ i[CountAt(d, o)][o + 1] \in Seq(Slices(d))
  <2>1. CountAt(d, o) \in Nat /\ o + 1 \in Nat
    BY CountIs
  <2>2. e[CountAt(d, o)] \in [Nat -> Nat] /\ i[CountAt(d, o)] \in [Nat -> Seq(Slices(d))]
    BY <2>1 DEF CountedRead
  <2>3. \A p \in Nat : p <= e[CountAt(d, o)][p]
    BY <2>1 DEF Reads, CountedRead
  <2> QED
    BY <2>1, <2>2, <2>3
<1>3. end \in [Nat -> Nat] /\ \A o \in Nat : end[o] = e[CountAt(d, o)][o + 1] /\ o <= end[o]
  <2>1. \A o \in Nat : end[o] = e[CountAt(d, o)][o + 1]
    OBVIOUS
  <2>2. end \in [Nat -> Nat]
    BY <1>2
  <2> HIDE DEF end
  <2>3. ASSUME NEW o \in Nat
        PROVE  o <= end[o]
    <3>1. end[o] \in Nat /\ o + 1 <= end[o]
      BY <1>2, <2>1
    <3> QED
      BY <3>1
  <2> QED
    BY <2>1, <2>2, <2>3
<1>4. ASSUME NEW o \in Nat
      PROVE  ids[o] = <<Cut(d, o, 1)>> \o i[CountAt(d, o)][o + 1] /\ ids[o] \in Seq(Slices(d))
  <2>1. <<Cut(d, o, 1)>> \in Seq(Slices(d)) /\ i[CountAt(d, o)][o + 1] \in Seq(Slices(d))
    BY <1>2, CutIsOne
  <2>2. <<Cut(d, o, 1)>> \o i[CountAt(d, o)][o + 1] \in Seq(Slices(d))
    BY <2>1, JoinType
  <2> QED
    BY <2>2
<1>5. ids \in [Nat -> Seq(Slices(d))]
  BY <1>4
<1> HIDE DEF end, ids
<1>6. Count(what, TRUE) \in FieldSet
  BY FieldIs DEF Count, FieldSet, Ops
<1>7. ASSUME NEW Q \in Plans, Inside(d, Q), NEW o \in Nat, NEW s \in Seq(Slices(d)),
             NEW w \in BOOLEAN, NEW m \in Nat, NEW r, NEW t, NEW z
      PROVE  RunTo(d, Cfg(Cons(Count(what, TRUE), Q), o, s, w, m, r, t), z)
               <=> RunTo(d, Cfg(Q, end[o], s \o ids[o], w, m, r, t), z)
  <2> DEFINE n == CountAt(d, o)
             v == Append(s, Cut(d, o, 1))
  <2>1. RunTo(d, Cfg(Cons(Count(what, TRUE), Q), o, s, w, m, r, t), z)
          <=> o < Len(d) /\ RunTo(d, Cfg(Counted(what, n) \o Q, o + 1, v, w, m, r, t), z)
    <3>1. what \in Counts /\ (IF what = "inputs" THEN n ELSE m) = m
      OBVIOUS
    <3>2. RunTo(d, Cfg(Cons(Count(what, TRUE), Q), o, s, w, m, r, t), z)
            <=> o < Len(d) /\ RunTo(d, Cfg(Counted(what, n) \o Q, o + 1, v, w,
                  IF what = "inputs" THEN n ELSE m, r, t), z)
      BY <3>1, PeelCount
    <3> HIDE DEF n, v
    <3> QED
      BY <3>1, <3>2, Zenon
  <2>2. v \in Seq(Slices(d))
    <3>1. Cut(d, o, 1) \in Slices(d)
      BY CutIsOne
    <3> QED
      BY <3>1, AppendIs
  <2>3. n \in Nat /\ o + 1 \in Nat /\ i[n][o + 1] \in Seq(Slices(d)) /\ end[o] = e[n][o + 1]
    BY <1>2, <1>3
  <2>4. v \o i[n][o + 1] = s \o ids[o] /\ s \o ids[o] \in Seq(Slices(d))
    <3>1. ids[o] = <<Cut(d, o, 1)>> \o i[n][o + 1] /\ ids[o] \in Seq(Slices(d))
      BY <1>4
    <3>2. s \o ids[o] \in Seq(Slices(d))
      BY <3>1, JoinType
    <3>3. Cut(d, o, 1) \in Slices(d) /\ <<Cut(d, o, 1)>> \in Seq(Slices(d))
      BY CutIsOne
    <3>4. v = s \o <<Cut(d, o, 1)>>
      BY <3>3, AppendIs
    <3> HIDE DEF n, v
    <3>5. \A a, b \in Seq(Slices(d)) : (s \o a) \o b = s \o (a \o b)
      BY JoinOnce
    <3>6. i[n][o + 1] \in Seq(Slices(d))
      BY <2>3
    <3>7. (s \o <<Cut(d, o, 1)>>) \o i[n][o + 1] = s \o (<<Cut(d, o, 1)>> \o i[n][o + 1])
      BY <3>3, <3>5, <3>6, Zenon
    <3> QED
      BY <3>1, <3>2, <3>4, <3>7, Zenon
  <2> HIDE DEF n, v
  <2>5. Advances(d, Counted(what, n), e[n], i[n], Q)
    BY <1>7, <2>3 DEF Reads, CountedRead
  <2>6. RunTo(d, Cfg(Counted(what, n) \o Q, o + 1, v, w, m, r, t), z)
          <=> RunTo(d, Cfg(Q, e[n][o + 1], v \o i[n][o + 1], w, m, r, t), z)
    BY <2>2, <2>3, <2>5 DEF Advances
  <2>7. RunTo(d, Cfg(Q, end[o], s \o ids[o], w, m, r, t), z) => end[o] < Len(d)
    BY <1>3, <1>7, <2>4 DEF Inside
  <2>8. RunTo(d, Cfg(Q, end[o], s \o ids[o], w, m, r, t), z) => o < Len(d)
    BY <1>1, <1>3, <2>7
  <2> QED
    BY <2>1, <2>3, <2>4, <2>6, <2>8, Zenon
<1>8. ASSUME NEW Q \in Plans, Inside(d, Q)
      PROVE  Peels(d, Count(what, TRUE), end, ids, Q)
  BY <1>7, <1>8, Zenon DEF Peels
<1>9. Reads(d, <<Count(what, TRUE)>>, end, ids)
  BY <1>3, <1>5, <1>6, <1>8, ReadsOne
<1> QED
  BY <1>9 DEF end, ids

\* A count that the ID does not cover, and what it counts.
LEMMA ReadsCountAside ==
  ASSUME NEW d, IsData(d), NEW what \in Counts \ {"inputs"},
         NEW e, NEW i, CountedRead(d, what, e, i)
  PROVE  Reads(d, <<Count(what, FALSE)>>, [o \in Nat |-> e[CountAt(d, o)][o + 1]],
               [o \in Nat |-> i[CountAt(d, o)][o + 1]])
<1> DEFINE end == [o \in Nat |-> e[CountAt(d, o)][o + 1]]
           ids == [o \in Nat |-> i[CountAt(d, o)][o + 1]]
<1>1. Len(d) \in Nat
  BY DEF IsData, IsSeq
<1>2. ASSUME NEW o \in Nat
      PROVE  /\ CountAt(d, o) \in Nat /\ o + 1 \in Nat
             /\ e[CountAt(d, o)][o + 1] \in Nat /\ o + 1 <= e[CountAt(d, o)][o + 1]
             /\ i[CountAt(d, o)][o + 1] \in Seq(Slices(d))
  <2>1. CountAt(d, o) \in Nat /\ o + 1 \in Nat
    BY CountIs
  <2>2. e[CountAt(d, o)] \in [Nat -> Nat] /\ i[CountAt(d, o)] \in [Nat -> Seq(Slices(d))]
    BY <2>1 DEF CountedRead
  <2>3. \A p \in Nat : p <= e[CountAt(d, o)][p]
    BY <2>1 DEF Reads, CountedRead
  <2> QED
    BY <2>1, <2>2, <2>3
<1>3. end \in [Nat -> Nat] /\ \A o \in Nat : end[o] = e[CountAt(d, o)][o + 1] /\ o <= end[o]
  <2>1. \A o \in Nat : end[o] = e[CountAt(d, o)][o + 1]
    OBVIOUS
  <2>2. end \in [Nat -> Nat]
    BY <1>2
  <2> HIDE DEF end
  <2>3. ASSUME NEW o \in Nat
        PROVE  o <= end[o]
    <3>1. end[o] \in Nat /\ o + 1 <= end[o]
      BY <1>2, <2>1
    <3> QED
      BY <3>1
  <2> QED
    BY <2>1, <2>2, <2>3
<1>4. ASSUME NEW o \in Nat
      PROVE  ids[o] = i[CountAt(d, o)][o + 1] /\ ids[o] \in Seq(Slices(d))
  BY <1>2
<1>5. ids \in [Nat -> Seq(Slices(d))]
  BY <1>4
<1> HIDE DEF end, ids
<1>6. Count(what, FALSE) \in FieldSet
  BY FieldIs DEF Count, FieldSet, Ops
<1>7. ASSUME NEW Q \in Plans, Inside(d, Q), NEW o \in Nat, NEW s \in Seq(Slices(d)),
             NEW w \in BOOLEAN, NEW m \in Nat, NEW r, NEW t, NEW z
      PROVE  RunTo(d, Cfg(Cons(Count(what, FALSE), Q), o, s, w, m, r, t), z)
               <=> RunTo(d, Cfg(Q, end[o], s \o ids[o], w, m, r, t), z)
  <2> DEFINE n == CountAt(d, o)
             v == s
  <2>1. RunTo(d, Cfg(Cons(Count(what, FALSE), Q), o, s, w, m, r, t), z)
          <=> o < Len(d) /\ RunTo(d, Cfg(Counted(what, n) \o Q, o + 1, v, w, m, r, t), z)
    <3>1. what \in Counts /\ (IF what = "inputs" THEN n ELSE m) = m
      OBVIOUS
    <3>2. RunTo(d, Cfg(Cons(Count(what, FALSE), Q), o, s, w, m, r, t), z)
            <=> o < Len(d) /\ RunTo(d, Cfg(Counted(what, n) \o Q, o + 1, v, w,
                  IF what = "inputs" THEN n ELSE m, r, t), z)
      BY <3>1, PeelCountAside
    <3> HIDE DEF n, v
    <3> QED
      BY <3>1, <3>2, Zenon
  <2>2. v \in Seq(Slices(d))
    OBVIOUS
  <2>3. n \in Nat /\ o + 1 \in Nat /\ i[n][o + 1] \in Seq(Slices(d)) /\ end[o] = e[n][o + 1]
    BY <1>2, <1>3
  <2>4. v \o i[n][o + 1] = s \o ids[o] /\ s \o ids[o] \in Seq(Slices(d))
    <3>1. ids[o] = i[n][o + 1] /\ ids[o] \in Seq(Slices(d))
      BY <1>4
    <3>2. s \o ids[o] \in Seq(Slices(d))
      BY <3>1, JoinType
    <3> QED
      BY <3>1, <3>2, Zenon
  <2> HIDE DEF n, v
  <2>5. Advances(d, Counted(what, n), e[n], i[n], Q)
    BY <1>7, <2>3 DEF Reads, CountedRead
  <2>6. RunTo(d, Cfg(Counted(what, n) \o Q, o + 1, v, w, m, r, t), z)
          <=> RunTo(d, Cfg(Q, e[n][o + 1], v \o i[n][o + 1], w, m, r, t), z)
    BY <2>2, <2>3, <2>5 DEF Advances
  <2>7. RunTo(d, Cfg(Q, end[o], s \o ids[o], w, m, r, t), z) => end[o] < Len(d)
    BY <1>3, <1>7, <2>4 DEF Inside
  <2>8. RunTo(d, Cfg(Q, end[o], s \o ids[o], w, m, r, t), z) => o < Len(d)
    BY <1>1, <1>3, <2>7
  <2> QED
    BY <2>1, <2>3, <2>4, <2>6, <2>8, Zenon
<1>8. ASSUME NEW Q \in Plans, Inside(d, Q)
      PROVE  Peels(d, Count(what, FALSE), end, ids, Q)
  BY <1>7, <1>8, Zenon DEF Peels
<1>9. Reads(d, <<Count(what, FALSE)>>, end, ids)
  BY <1>3, <1>5, <1>6, <1>8, ReadsOne
<1> QED
  BY <1>9 DEF end, ids

-----------------------------------------------------------------------------
(* Scripts and witnesses.                                                  *)

\* The widths of the fields.
LEMMA WidthsAre ==
  Word \in Nat \ {0} /\ Wide \in Nat \ {0} /\ Amount \in Nat \ {0}
BY WidthsAssumption

\* Two lists of one field.
LEMMA TwoAre ==
  ASSUME NEW C, NEW x \in C, NEW y \in C
  PROVE  <<x>> \o <<y>> = <<x, y>>
<1>1. /\ <<x>> \in Seq(C) /\ Len(<<x>>) = 1 /\ <<x>>[1] = x
      /\ <<y>> \in Seq(C) /\ Len(<<y>>) = 1 /\ <<y>>[1] = y
      /\ <<x, y>> \in Seq(C) /\ Len(<<x, y>>) = 2 /\ <<x, y>>[1] = x /\ <<x, y>>[2] = y
  OBVIOUS
<1> DEFINE p == <<x>> \o <<y>>
<1>2. p \in Seq(C) /\ Len(p) = 2 /\ p[1] = x /\ p[2] = y
  <2>1. /\ p \in Seq(C) /\ Len(p) = Len(<<x>>) + Len(<<y>>)
        /\ \A i \in 1..(Len(<<x>>) + Len(<<y>>)) :
              p[i] = IF i <= Len(<<x>>) THEN <<x>>[i] ELSE <<y>>[i - Len(<<x>>)]
    BY <1>1, ConcatProperties
  <2> HIDE DEF p
  <2> QED
    BY <1>1, <2>1
<1> HIDE DEF p
<1>3. p = <<x, y>>
  BY <1>1, <1>2, SeqEqual
<1> QED
  BY <1>3 DEF p

\* The parts end at an offset.
LEMMA EndIs ==
  ASSUME NEW end \in [Nat -> Nat], NEW o \in Nat, NEW n \in Nat
  PROVE  EndOf(end, o, n) \in Nat
<1>1. Starts(end, o) \in [Nat -> Nat]
  BY StartsIs
<1> QED
  BY <1>1 DEF EndOf

\* The parts end after they start.
LEMMA EndIsAfter ==
  ASSUME NEW end \in [Nat -> Nat], \A p \in Nat : p <= end[p], NEW o \in Nat, NEW n \in Nat
  PROVE  EndOf(end, o, n) \in Nat /\ o <= EndOf(end, o, n)
<1> DEFINE s == Starts(end, o)
           T == {k \in Nat : o <= s[k]}
<1>1. s \in [Nat -> Nat] /\ s[0] = o /\ \A k \in Nat : s[k + 1] = end[s[k]]
  BY StartsIs
<1>2. EndOf(end, o, n) = s[n]
  BY DEF EndOf
<1> HIDE DEF s
<1>3. ASSUME NEW k \in T
      PROVE  k + 1 \in T
  <2>1. k \in Nat /\ o <= s[k] /\ s[k] \in Nat /\ s[k + 1] \in Nat /\ s[k + 1] = end[s[k]]
    BY <1>1
  <2>2. s[k] <= end[s[k]]
    BY <2>1
  <2>3. o <= s[k + 1]
    BY <2>1, <2>2
  <2> QED
    BY <2>1, <2>3
<1>4. T \in SUBSET Nat /\ 0 \in T
  BY <1>1
<1> HIDE DEF T
<1>5. n \in T
  BY <1>3, <1>4, SetInduction
<1> QED
  BY <1>1, <1>2, <1>5 DEF T

\* A script (readScript).
LEMMA ScriptRead ==
  ASSUME NEW d, IsData(d)
  PROVE  Reads(d, <<Count("script", TRUE)>>, scriptEnd(d), scriptIds(d))
<1> DEFINE e == [n \in Nat |-> [o \in Nat |-> o + n]]
           i == [n \in Nat |-> [o \in Nat |-> <<Cut(d, o, n)>>]]
<1>1. "script" \in Counts \ {"inputs"} /\ Len(d) \in Nat
  BY DEF Counts, IsData, IsSeq
<1>2. CountedRead(d, "script", e, i)
  <2>1. e \in [Nat -> [Nat -> Nat]]
    OBVIOUS
  <2>2. i \in [Nat -> [Nat -> Seq(Slices(d))]]
    BY CutIs
  <2>3. ASSUME NEW n \in Nat
        PROVE  Reads(d, Counted("script", n), e[n], i[n])
    <3>1. Counted("script", n) = <<Bytes(n)>>
      BY DEF Counted
    <3>2. e[n] = [o \in Nat |-> o + n] /\ i[n] = [o \in Nat |-> <<Cut(d, o, n)>>]
      OBVIOUS
    <3>3. Reads(d, <<Bytes(n)>>, [o \in Nat |-> o + n], [o \in Nat |-> <<Cut(d, o, n)>>])
      BY <1>1, ReadsBytes
    <3> QED
      BY <3>1, <3>2, <3>3
  <2> HIDE DEF e, i
  <2> QED
    BY <2>1, <2>2, <2>3 DEF CountedRead
<1>3. ASSUME NEW o \in Nat
      PROVE  /\ e[CountAt(d, o)][o + 1] = o + 1 + CountAt(d, o)
             /\ i[CountAt(d, o)][o + 1] = <<Cut(d, o + 1, CountAt(d, o))>>
  BY CountIs
<1>4. [o \in Nat |-> e[CountAt(d, o)][o + 1]] = scriptEnd(d)
  BY <1>3 DEF scriptEnd
<1>5. [o \in Nat |-> <<Cut(d, o, 1)>> \o i[CountAt(d, o)][o + 1]] = scriptIds(d)
  <2>1. ASSUME NEW o \in Nat
        PROVE  <<Cut(d, o, 1)>> \o i[CountAt(d, o)][o + 1]
                 = <<Cut(d, o, 1), Cut(d, o + 1, CountAt(d, o))>>
    <3>1. Cut(d, o, 1) \in Slices(d) /\ Cut(d, o + 1, CountAt(d, o)) \in Slices(d)
      <4>1. CountAt(d, o) \in Nat /\ o + 1 \in Nat /\ 1 \in Nat
        BY CountIs
      <4> QED
        BY <4>1 DEF Slices
    <3> QED
      BY <1>3, <3>1, TwoAre
  <2> QED
    BY <2>1 DEF scriptIds
<1> HIDE DEF e, i
<1>6. Reads(d, <<Count("script", TRUE)>>, [o \in Nat |-> e[CountAt(d, o)][o + 1]],
            [o \in Nat |-> <<Cut(d, o, 1)>> \o i[CountAt(d, o)][o + 1]])
  BY <1>1, <1>2, ReadsCount
<1> QED
  BY <1>4, <1>5, <1>6

\* An item of a witness.
LEMMA ItemRead ==
  ASSUME NEW d, IsData(d)
  PROVE  Reads(d, <<Count("item", FALSE)>>, scriptEnd(d), [o \in Nat |-> <<>>])
<1> DEFINE e == [n \in Nat |-> [o \in Nat |-> o + n]]
           i == [n \in Nat |-> [o \in Nat |-> <<>>]]
<1>1. "item" \in Counts \ {"inputs"} /\ Len(d) \in Nat
  BY DEF Counts, IsData, IsSeq
<1>2. CountedRead(d, "item", e, i)
  <2>1. e \in [Nat -> [Nat -> Nat]] /\ i \in [Nat -> [Nat -> Seq(Slices(d))]]
    OBVIOUS
  <2>2. ASSUME NEW n \in Nat
        PROVE  Reads(d, Counted("item", n), e[n], i[n])
    <3>1. Counted("item", n) = <<Header(n)>>
      BY DEF Counted
    <3>2. e[n] = [o \in Nat |-> o + n] /\ i[n] = [o \in Nat |-> <<>>]
      OBVIOUS
    <3>3. Reads(d, <<Header(n)>>, [o \in Nat |-> o + n], [o \in Nat |-> <<>>])
      BY <1>1, ReadsHeader
    <3> QED
      BY <3>1, <3>2, <3>3
  <2> HIDE DEF e, i
  <2> QED
    BY <2>1, <2>2 DEF CountedRead
<1>3. ASSUME NEW o \in Nat
      PROVE  /\ e[CountAt(d, o)][o + 1] = o + 1 + CountAt(d, o)
             /\ i[CountAt(d, o)][o + 1] = <<>>
  BY CountIs
<1>4. [o \in Nat |-> e[CountAt(d, o)][o + 1]] = scriptEnd(d)
  BY <1>3 DEF scriptEnd
<1>5. [o \in Nat |-> i[CountAt(d, o)][o + 1]] = [o \in Nat |-> <<>>]
  BY <1>3
<1> HIDE DEF e, i
<1>6. Reads(d, <<Count("item", FALSE)>>, [o \in Nat |-> e[CountAt(d, o)][o + 1]],
            [o \in Nat |-> i[CountAt(d, o)][o + 1]])
  BY <1>1, <1>2, ReadsCountAside
<1> QED
  BY <1>4, <1>5, <1>6

\* Parts without contents have none together.
LEMMA NoContents ==
  ASSUME NEW end \in [Nat -> Nat], NEW o \in Nat, NEW n \in Nat
  PROVE  Contents([p \in Nat |-> <<>>], end, o, n) = <<>>
<1> DEFINE ids == [p \in Nat |-> <<>>]
           T == {k \in Nat : Contents(ids, end, o, k) = <<>>}
<1>1. ids \in [Nat -> Seq({})] /\ \A p \in Nat : ids[p] = <<>>
  OBVIOUS
<1> HIDE DEF ids
<1>2. Contents(ids, end, o, 0) = <<>>
  BY <1>1, ContentsGrow
<1>3. ASSUME NEW k \in Nat, Contents(ids, end, o, k) = <<>>
      PROVE  Contents(ids, end, o, k + 1) = <<>>
  <2>1. Contents(ids, end, o, k + 1) = Contents(ids, end, o, k) \o ids[EndOf(end, o, k)]
    BY <1>1, ContentsNext
  <2>2. EndOf(end, o, k) \in Nat
    BY StartsIs DEF EndOf
  <2> QED
    BY <1>1, <1>3, <2>1, <2>2
<1>4. T \in SUBSET Nat /\ 0 \in T
  BY <1>2
<1>5. ASSUME NEW k \in T
      PROVE  k + 1 \in T
  <2>1. k \in Nat /\ Contents(ids, end, o, k) = <<>>
    OBVIOUS
  <2>2. Contents(ids, end, o, k + 1) = <<>>
    BY <1>3, <2>1
  <2> QED
    BY <2>1, <2>2
<1> HIDE DEF T
<1>6. n \in T
  BY <1>4, <1>5, SetInduction
<1> QED
  BY <1>6 DEF T, ids

\* The witness of an input.
LEMMA WitnessRead ==
  ASSUME NEW d, IsData(d)
  PROVE  Reads(d, <<Count("witnesses of input", FALSE)>>, witnessEnd(d), [o \in Nat |-> <<>>])
<1> DEFINE none == [o \in Nat |-> <<>>]
           e == [n \in Nat |-> [o \in Nat |-> EndOf(scriptEnd(d), o, n)]]
           i == [n \in Nat |-> [o \in Nat |-> <<>>]]
           what == "witnesses of input"
<1>1. what \in Counts \ {"inputs"} /\ Len(d) \in Nat
  BY DEF Counts, IsData, IsSeq
<1>2. Reads(d, <<Count("item", FALSE)>>, scriptEnd(d), none) /\ scriptEnd(d) \in [Nat -> Nat]
  BY ItemRead DEF Reads
<1>3. CountedRead(d, what, e, i)
  <2>1. e \in [Nat -> [Nat -> Nat]] /\ i \in [Nat -> [Nat -> Seq(Slices(d))]]
    <3>1. \A n, o \in Nat : EndOf(scriptEnd(d), o, n) \in Nat
      BY <1>2, EndIs
    <3> QED
      BY <3>1
  <2>2. ASSUME NEW n \in Nat
        PROVE  Reads(d, Counted(what, n), e[n], i[n])
    <3>1. Counted(what, n) = Copies(n, <<Count("item", FALSE)>>)
      BY DEF Counted
    <3>2. [o \in Nat |-> Contents(none, scriptEnd(d), o, n)] = i[n]
      BY <1>2, NoContents
    <3>3. e[n] = [o \in Nat |-> EndOf(scriptEnd(d), o, n)]
      OBVIOUS
    <3> HIDE DEF none, e, i, what
    <3>4. Reads(d, Copies(n, <<Count("item", FALSE)>>), [o \in Nat |-> EndOf(scriptEnd(d), o, n)],
                [o \in Nat |-> Contents(none, scriptEnd(d), o, n)])
      BY <1>1, <1>2, ReadsCopies
    <3> QED
      BY <3>1, <3>2, <3>3, <3>4
  <2> HIDE DEF e, i
  <2> QED
    BY <2>1, <2>2 DEF CountedRead
<1>4. ASSUME NEW o \in Nat
      PROVE  /\ e[CountAt(d, o)][o + 1] = EndOf(scriptEnd(d), o + 1, CountAt(d, o))
             /\ i[CountAt(d, o)][o + 1] = <<>>
  BY CountIs
<1>5. [o \in Nat |-> e[CountAt(d, o)][o + 1]] = witnessEnd(d)
  BY <1>4 DEF witnessEnd
<1>6. [o \in Nat |-> i[CountAt(d, o)][o + 1]] = none
  BY <1>4
<1> HIDE DEF e, i, what
<1>7. Reads(d, <<Count(what, FALSE)>>, [o \in Nat |-> e[CountAt(d, o)][o + 1]],
            [o \in Nat |-> i[CountAt(d, o)][o + 1]])
  BY <1>1, <1>3, ReadsCountAside
<1> QED
  BY <1>5, <1>6, <1>7 DEF what

-----------------------------------------------------------------------------
(* Inputs and outputs.                                                     *)

\* A slice of the data.
LEMMA SlicesAre ==
  ASSUME NEW d, NEW o \in Nat, NEW n \in Nat
  PROVE  Cut(d, o, n) \in Slices(d)
BY DEF Slices

\* A sequence that is another one and one more element.
LEMMA GrownIs ==
  ASSUME NEW C, NEW p \in Seq(C), NEW x \in C, NEW q \in Seq(C), Len(q) = Len(p) + 1,
         \A i \in 1..Len(p) : q[i] = p[i], q[Len(p) + 1] = x
  PROVE  p \o <<x>> = q
<1> DEFINE a == Append(p, x)
<1>1. /\ a \in Seq(C) /\ a # <<>> /\ Len(a) = Len(p) + 1
      /\ \A i \in 1..Len(p) : a[i] = p[i]
      /\ a[Len(p) + 1] = x
  BY AppendProperties
<1>2. p \o <<x>> = a
  BY AppendIs
<1> HIDE DEF a
<1>3. Len(p) \in Nat
  OBVIOUS
<1>4. \A i \in 1..Len(a) : a[i] = q[i]
  BY <1>1, <1>3
<1>5. a = q
  BY <1>1, <1>4, SeqEqual
<1> QED
  BY <1>2, <1>5

\* Four lists of one field.
LEMMA FourAre ==
  ASSUME NEW a, NEW b, NEW c, NEW e
  PROVE  ((<<a>> \o <<b>>) \o <<c>>) \o <<e>> = <<a, b, c, e>>
<1> DEFINE C == {a, b, c, e}
           p == <<a, b>>
           q == <<a, b, c>>
           r == <<a, b, c, e>>
<1>1. a \in C /\ b \in C /\ c \in C /\ e \in C
  OBVIOUS
<1> HIDE DEF C
<1>2. <<a>> \o <<b>> = p
  BY <1>1, TwoAre
<1>3. /\ p \in Seq(C) /\ Len(p) = 2 /\ p[1] = a /\ p[2] = b
      /\ q \in Seq(C) /\ Len(q) = 3 /\ q[1] = a /\ q[2] = b /\ q[3] = c
      /\ r \in Seq(C) /\ Len(r) = 4 /\ r[1] = a /\ r[2] = b /\ r[3] = c /\ r[4] = e
  BY <1>1
<1> HIDE DEF p, q, r
<1>4. p \o <<c>> = q
  <2>1. Len(q) = Len(p) + 1 /\ \A i \in 1..Len(p) : q[i] = p[i]
    BY <1>3
  <2>2. q[Len(p) + 1] = c
    BY <1>3
  <2> QED
    BY <1>1, <1>3, <2>1, <2>2, GrownIs
<1>5. q \o <<e>> = r
  <2>1. Len(r) = Len(q) + 1 /\ \A i \in 1..Len(q) : r[i] = q[i]
    BY <1>3
  <2>2. r[Len(q) + 1] = e
    BY <1>3
  <2> QED
    BY <1>1, <1>3, <2>1, <2>2, GrownIs
<1>6. ((<<a>> \o <<b>>) \o <<c>>) \o <<e>> = r
  BY <1>2, <1>4, <1>5
<1> QED
  BY <1>6 DEF r

\* An output of a transaction.
LEMMA OutputRead ==
  ASSUME NEW d, IsData(d)
  PROVE  Reads(d, OutputFields, outputEnd(d), outputIds(d))
<1>1. Len(d) \in Nat /\ Amount \in Nat
  BY WidthsAre DEF IsData, IsSeq
<1> DEFINE e == [o \in Nat |-> o + Amount]
           i == [o \in Nat |-> <<Cut(d, o, Amount)>>]
           f == scriptEnd(d)
           j == scriptIds(d)
<1>2. Reads(d, <<Fixed(Amount)>>, e, i)
  BY <1>1, ReadsFixed
<1>3. Reads(d, <<Count("script", TRUE)>>, f, j)
  BY ScriptRead
<1>4. \A o \in Nat : e[o] = o + Amount /\ i[o] = <<Cut(d, o, Amount)>>
  OBVIOUS
<1> HIDE DEF e, i, f, j
<1>5. Reads(d, <<Fixed(Amount)>> \o <<Count("script", TRUE)>>,
            [o \in Nat |-> f[e[o]]], [o \in Nat |-> i[o] \o j[e[o]]])
  BY <1>1, <1>2, <1>3, ReadsBoth
<1>6. [o \in Nat |-> f[e[o]]] = outputEnd(d)
  BY <1>4 DEF outputEnd, f
<1>7. [o \in Nat |-> i[o] \o j[e[o]]] = outputIds(d)
  BY <1>4 DEF outputIds, j
<1>8. <<Fixed(Amount)>> \o <<Count("script", TRUE)>> = OutputFields
  <2>1. Fixed(Amount) \in FieldSet /\ Count("script", TRUE) \in FieldSet
    BY <1>1, FieldIs DEF Fixed, Count, Field, FieldSet, Ops, Counts
  <2> QED
    BY <2>1, TwoAre DEF OutputFields
<1> QED
  BY <1>5, <1>6, <1>7, <1>8

\* An input of a transaction.
LEMMA InputRead ==
  ASSUME NEW d, IsData(d)
  PROVE  Reads(d, InputFields, inputEnd(d), inputIds(d))
<1>1. Len(d) \in Nat /\ Wide \in Nat /\ Word \in Nat
  BY WidthsAre DEF IsData, IsSeq
<1> DEFINE h == <<Bytes(Wide)>> \o <<Fixed(Word)>>
           e == [o \in Nat |-> o + Wide + Word]
           i == [o \in Nat |-> <<Cut(d, o, Wide), Cut(d, o + Wide, Word)>>]
           f == scriptEnd(d)
           j == scriptIds(d)
           g == [o \in Nat |-> o + Word]
           k == [o \in Nat |-> <<Cut(d, o, Word)>>]
<1>2. Reads(d, h, e, i)
  <2> DEFINE a == [o \in Nat |-> o + Wide]
             b == [o \in Nat |-> <<Cut(d, o, Wide)>>]
  <2>1. Reads(d, <<Bytes(Wide)>>, a, b)
    BY <1>1, ReadsBytes
  <2>2. Reads(d, <<Fixed(Word)>>, g, k)
    BY <1>1, ReadsFixed
  <2>3. [o \in Nat |-> g[a[o]]] = e
    BY <1>1
  <2>4. [o \in Nat |-> b[o] \o k[a[o]]] = i
    <3>1. ASSUME NEW o \in Nat
          PROVE  b[o] \o k[a[o]] = <<Cut(d, o, Wide), Cut(d, o + Wide, Word)>>
      <4>1. o + Wide \in Nat
        BY <1>1
      <4>2. b[o] = <<Cut(d, o, Wide)>> /\ k[a[o]] = <<Cut(d, o + Wide, Word)>>
        BY <4>1
      <4>3. Cut(d, o, Wide) \in Slices(d) /\ Cut(d, o + Wide, Word) \in Slices(d)
        BY <1>1, <4>1, SlicesAre
      <4> HIDE DEF a, b, k
      <4> QED
        BY <4>2, <4>3, TwoAre
    <3> QED
      BY <3>1
  <2> HIDE DEF a, b, e, i, g, k
  <2>5. Reads(d, <<Bytes(Wide)>> \o <<Fixed(Word)>>, [o \in Nat |-> g[a[o]]],
              [o \in Nat |-> b[o] \o k[a[o]]])
    BY <1>1, <2>1, <2>2, ReadsBoth
  <2> QED
    BY <2>3, <2>4, <2>5
<1>3. Reads(d, <<Count("script", TRUE)>>, f, j)
  BY ScriptRead
<1>4. Reads(d, <<Bytes(Word)>>, g, k)
  BY <1>1, ReadsBytes
<1>5. \A o \in Nat : /\ e[o] = o + Wide + Word /\ e[o] \in Nat
                     /\ i[o] = <<Cut(d, o, Wide), Cut(d, o + Wide, Word)>>
                     /\ g[o] = o + Word /\ k[o] = <<Cut(d, o, Word)>>
  BY <1>1
<1> HIDE DEF h, e, i, f, j, g, k
<1> DEFINE fe == [o \in Nat |-> f[e[o]]]
           ij == [o \in Nat |-> i[o] \o j[e[o]]]
<1>6. Reads(d, h \o <<Count("script", TRUE)>>, fe, ij)
  BY <1>1, <1>2, <1>3, ReadsBoth
<1>7. \A o \in Nat : fe[o] = f[e[o]] /\ fe[o] \in Nat /\ ij[o] = i[o] \o j[e[o]]
  <2>1. \A o \in Nat : fe[o] = f[e[o]] /\ ij[o] = i[o] \o j[e[o]]
    OBVIOUS
  <2>2. f \in [Nat -> Nat]
    BY <1>3 DEF Reads
  <2> HIDE DEF fe, ij
  <2> QED
    BY <1>5, <2>1, <2>2
<1> HIDE DEF fe, ij
<1>8. Reads(d, (h \o <<Count("script", TRUE)>>) \o <<Bytes(Word)>>,
            [o \in Nat |-> g[fe[o]]], [o \in Nat |-> ij[o] \o k[fe[o]]])
  BY <1>1, <1>4, <1>6, ReadsBoth
<1>12. ASSUME NEW o \in Nat
       PROVE  /\ fe[o] = scriptEnd(d)[o + Wide + Word]
              /\ g[fe[o]] = scriptEnd(d)[o + Wide + Word] + Word
              /\ k[fe[o]] = <<Cut(d, scriptEnd(d)[o + Wide + Word], Word)>>
              /\ ij[o] = <<Cut(d, o, Wide), Cut(d, o + Wide, Word)>>
                           \o scriptIds(d)[o + Wide + Word]
  <2>1. fe[o] \in Nat /\ fe[o] = f[e[o]] /\ e[o] = o + Wide + Word
    BY <1>5, <1>7
  <2>2. g[fe[o]] = fe[o] + Word /\ k[fe[o]] = <<Cut(d, fe[o], Word)>>
    BY <1>5, <2>1
  <2>3. ij[o] = i[o] \o j[e[o]] /\ i[o] = <<Cut(d, o, Wide), Cut(d, o + Wide, Word)>>
    BY <1>5, <1>7
  <2> QED
    BY <2>1, <2>2, <2>3, Zenon DEF f, j
<1>9. [o \in Nat |-> g[fe[o]]] = inputEnd(d)
  BY <1>12 DEF inputEnd
<1>10. [o \in Nat |-> ij[o] \o k[fe[o]]] = inputIds(d)
  <2>1. ASSUME NEW o \in Nat
        PROVE  ij[o] \o k[fe[o]]
                 = <<Cut(d, o, Wide), Cut(d, o + Wide, Word)>> \o scriptIds(d)[o + Wide + Word]
                     \o <<Cut(d, scriptEnd(d)[o + Wide + Word], Word)>>
    BY <1>12, Zenon
  <2> QED
    BY <2>1, Zenon DEF inputIds
<1>11. (h \o <<Count("script", TRUE)>>) \o <<Bytes(Word)>> = InputFields
  BY FourAre DEF h, InputFields
<1> QED
  BY <1>8, <1>9, <1>10, <1>11

\* The outputs of a transaction, with their count.
LEMMA OutputsRead ==
  ASSUME NEW d, IsData(d)
  PROVE  Reads(d, <<Count("outputs", TRUE)>>,
               [o \in Nat |-> EndOf(outputEnd(d), o + 1, CountAt(d, o))],
               [o \in Nat |-> <<Cut(d, o, 1)>>
                                \o Contents(outputIds(d), outputEnd(d), o + 1, CountAt(d, o))])
<1> DEFINE e == [n \in Nat |-> [o \in Nat |-> EndOf(outputEnd(d), o, n)]]
           i == [n \in Nat |-> [o \in Nat |-> Contents(outputIds(d), outputEnd(d), o, n)]]
<1>1. "outputs" \in Counts \ {"inputs"} /\ Len(d) \in Nat
  BY DEF Counts, IsData, IsSeq
<1>2. /\ Reads(d, OutputFields, outputEnd(d), outputIds(d)) /\ outputEnd(d) \in [Nat -> Nat]
      /\ outputIds(d) \in [Nat -> Seq(Slices(d))]
  BY OutputRead DEF Reads
<1>3. CountedRead(d, "outputs", e, i)
  <2>1. e \in [Nat -> [Nat -> Nat]]
    <3>1. \A n, o \in Nat : EndOf(outputEnd(d), o, n) \in Nat
      BY <1>2, EndIs
    <3> QED
      BY <3>1
  <2>2. i \in [Nat -> [Nat -> Seq(Slices(d))]]
    <3>1. \A n, o \in Nat : Contents(outputIds(d), outputEnd(d), o, n) \in Seq(Slices(d))
      BY <1>2, ContentsGrow
    <3> QED
      BY <3>1
  <2>3. ASSUME NEW n \in Nat
        PROVE  Reads(d, Counted("outputs", n), e[n], i[n])
    <3>1. Counted("outputs", n) = Copies(n, OutputFields)
      BY DEF Counted
    <3>2. /\ e[n] = [o \in Nat |-> EndOf(outputEnd(d), o, n)]
          /\ i[n] = [o \in Nat |-> Contents(outputIds(d), outputEnd(d), o, n)]
      OBVIOUS
    <3> HIDE DEF e, i
    <3>3. Reads(d, Copies(n, OutputFields), [o \in Nat |-> EndOf(outputEnd(d), o, n)],
                [o \in Nat |-> Contents(outputIds(d), outputEnd(d), o, n)])
      BY <1>1, <1>2, ReadsCopies
    <3> QED
      BY <3>1, <3>2, <3>3
  <2> HIDE DEF e, i
  <2> QED
    BY <2>1, <2>2, <2>3 DEF CountedRead
<1>4. ASSUME NEW o \in Nat
      PROVE  /\ e[CountAt(d, o)][o + 1] = EndOf(outputEnd(d), o + 1, CountAt(d, o))
             /\ i[CountAt(d, o)][o + 1]
                  = Contents(outputIds(d), outputEnd(d), o + 1, CountAt(d, o))
  BY CountIs
<1>5. [o \in Nat |-> e[CountAt(d, o)][o + 1]]
        = [o \in Nat |-> EndOf(outputEnd(d), o + 1, CountAt(d, o))]
  BY <1>4
<1>6. [o \in Nat |-> <<Cut(d, o, 1)>> \o i[CountAt(d, o)][o + 1]]
        = [o \in Nat |-> <<Cut(d, o, 1)>>
                           \o Contents(outputIds(d), outputEnd(d), o + 1, CountAt(d, o))]
  <2>1. \A o \in Nat : i[CountAt(d, o)][o + 1]
                         = Contents(outputIds(d), outputEnd(d), o + 1, CountAt(d, o))
    BY <1>4
  <2> HIDE DEF i
  <2> QED
    BY <2>1, Zenon
<1> HIDE DEF e, i
<1>7. Reads(d, <<Count("outputs", TRUE)>>, [o \in Nat |-> e[CountAt(d, o)][o + 1]],
            [o \in Nat |-> <<Cut(d, o, 1)>> \o i[CountAt(d, o)][o + 1]])
  BY <1>1, <1>3, ReadsCount
<1> QED
  BY <1>5, <1>6, <1>7

-----------------------------------------------------------------------------
(* The end of a transaction, from its outputs on.                          *)

\* The fields of a transaction from its last one on, from its witnesses on, and
\* so forth.
FromLock(Q) == Cons(Fixed(Word), Cons(Step("transaction"), Q))
FromWitnesses(Q) == Cons(Step("witnesses"), FromLock(Q))
FromOutputs(Q) == Cons(Count("outputs", TRUE), FromWitnesses(Q))
FromInputs(Q) == Cons(Count("inputs", TRUE), FromOutputs(Q))
FromMarker(Q) == Cons(Step("marker"), FromInputs(Q))

\* What is left of a transaction is a plan.
LEMMA FromAre ==
  ASSUME NEW Q \in Plans
  PROVE  /\ Cons(Step("transaction"), Q) \in Plans
         /\ FromLock(Q) \in Plans /\ FromWitnesses(Q) \in Plans /\ FromOutputs(Q) \in Plans
         /\ FromInputs(Q) \in Plans /\ FromMarker(Q) \in Plans
<1>1. /\ Step("transaction") \in FieldSet /\ Step("witnesses") \in FieldSet
      /\ Step("marker") \in FieldSet /\ Fixed(Word) \in FieldSet
      /\ Count("outputs", TRUE) \in FieldSet /\ Count("inputs", TRUE) \in FieldSet
  BY WidthsAre DEF Step, Fixed, Count, Field, FieldSet, Ops, Counts
<1>2. \A f \in FieldSet, P \in Plans : Cons(f, P) \in Plans
  BY ConsIs
<1>3. Cons(Step("transaction"), Q) \in Plans
  BY <1>1, <1>2
<1>4. FromLock(Q) \in Plans
  BY <1>1, <1>2, <1>3 DEF FromLock
<1>5. FromWitnesses(Q) \in Plans
  BY <1>1, <1>2, <1>4 DEF FromWitnesses
<1>6. FromOutputs(Q) \in Plans
  BY <1>1, <1>2, <1>5 DEF FromOutputs
<1>7. FromInputs(Q) \in Plans
  BY <1>1, <1>2, <1>6 DEF FromInputs
<1>8. FromMarker(Q) \in Plans
  BY <1>1, <1>2, <1>7 DEF FromMarker
<1> QED
  BY <1>3, <1>4, <1>5, <1>6, <1>7, <1>8

\* The lock time of a transaction, and the test after it.
LEMMA LockPeels ==
  ASSUME NEW d, NEW Q \in Plans, NEW o \in Nat, NEW s, NEW w, NEW m, NEW r, NEW t, NEW z
  PROVE  RunTo(d, Cfg(FromLock(Q), o, s, w, m, r, t), z)
           <=> /\ o + Word <= Len(d)
               /\ RunTo(d, Cfg(Q, o + Word, <<>>, w, m, r,
                                Append(t, Append(s, Cut(d, o, Word)))), z)
<1> DEFINE P == Cons(Step("transaction"), Q)
           v == Append(s, Cut(d, o, Word))
<1>1. P \in Plans /\ Word \in Nat /\ o + Word \in Nat
  BY FromAre, WidthsAre
<1>2. FromLock(Q) = Cons(Field("fixed", Word, TRUE), P)
  BY DEF FromLock, Fixed
<1>3. \A x : RunTo(d, Cfg(P, o + Word, x, w, m, r, t), z)
               <=> RunTo(d, Cfg(Q, o + Word, <<>>, w, m, r, Append(t, x)), z)
  BY <1>1, PeelTransaction
<1> HIDE DEF P
<1>4. RunTo(d, Cfg(Cons(Field("fixed", Word, TRUE), P), o, s, w, m, r, t), z)
        <=> o + Word <= Len(d) /\ RunTo(d, Cfg(P, o + Word, v, w, m, r, t), z)
  BY <1>1, PeelFixed
<1> HIDE DEF v
<1>5. RunTo(d, Cfg(FromLock(Q), o, s, w, m, r, t), z)
           <=> /\ o + Word <= Len(d)
               /\ RunTo(d, Cfg(Q, o + Word, <<>>, w, m, r, Append(t, v)), z)
  BY <1>2, <1>3, <1>4, Zenon
<1> QED
  BY <1>5 DEF v

\* Before the lock time the reader is inside the data.
LEMMA LockInside ==
  ASSUME NEW d, Len(d) \in Nat, NEW Q \in Plans
  PROVE  Inside(d, FromLock(Q))
<1>1. ASSUME NEW o \in Nat, NEW s, NEW w, NEW m, NEW r, NEW t, NEW z,
             RunTo(d, Cfg(FromLock(Q), o, s, w, m, r, t), z)
      PROVE  o < Len(d)
  <2>1. o + Word <= Len(d)
    BY <1>1, LockPeels
  <2> QED
    BY <2>1, WidthsAre
<1> QED
  BY <1>1 DEF Inside

\* Where the witnesses of m inputs at o end.
witnessesEnd(d, w, o, m) == IF w THEN EndOf(witnessEnd(d), o, m) ELSE o

\* The witnesses of a transaction.
LEMMA WitnessesPeel ==
  ASSUME NEW d, IsData(d), NEW Q \in Plans, NEW o \in Nat, NEW s \in Seq(Slices(d)),
         NEW w \in BOOLEAN, NEW m \in Nat, NEW r, NEW t, NEW z
  PROVE  /\ RunTo(d, Cfg(FromWitnesses(Q), o, s, w, m, r, t), z)
              <=> RunTo(d, Cfg(FromLock(Q), witnessesEnd(d, w, o, m), s, w, m, r, t), z)
         /\ witnessesEnd(d, w, o, m) \in Nat /\ o <= witnessesEnd(d, w, o, m)
<1> DEFINE W == <<Count("witnesses of input", FALSE)>>
           e == [p \in Nat |-> EndOf(witnessEnd(d), p, m)]
           none == [p \in Nat |-> <<>>]
           L == FromLock(Q)
<1>1. Len(d) \in Nat
  BY DEF IsData, IsSeq
<1>2. L \in Plans /\ Inside(d, L)
  BY <1>1, FromAre, LockInside
<1>3. Reads(d, W, witnessEnd(d), none) /\ witnessEnd(d) \in [Nat -> Nat]
  BY WitnessRead DEF Reads
<1>4. [p \in Nat |-> Contents(none, witnessEnd(d), p, m)] = none
  <2>1. \A p \in Nat : Contents(none, witnessEnd(d), p, m) = <<>>
    BY <1>3, NoContents
  <2> QED
    BY <2>1
<1>5. e[o] = EndOf(witnessEnd(d), o, m) /\ s \o none[o] = s
  BY NothingSeen
<1> HIDE DEF W, e, none, L
<1>6. Reads(d, Copies(m, W), e, none)
  <2>1. Reads(d, Copies(m, W), [p \in Nat |-> EndOf(witnessEnd(d), p, m)],
              [p \in Nat |-> Contents(none, witnessEnd(d), p, m)])
    BY <1>1, <1>3, ReadsCopies
  <2> QED
    BY <1>4, <2>1 DEF e
<1>7. RunTo(d, Cfg(Copies(m, W) \o L, o, s, w, m, r, t), z)
        <=> RunTo(d, Cfg(L, e[o], s, w, m, r, t), z)
  <2>1. Advances(d, Copies(m, W), e, none, L)
    BY <1>2, <1>6 DEF Reads
  <2>2. RunTo(d, Cfg(Copies(m, W) \o L, o, s, w, m, r, t), z)
          <=> RunTo(d, Cfg(L, e[o], s \o none[o], w, m, r, t), z)
    BY <2>1 DEF Advances
  <2> QED
    BY <1>5, <2>2
<1>8. e[o] \in Nat /\ o <= e[o]
  BY <1>6 DEF Reads
<1>9. RunTo(d, Cfg(FromWitnesses(Q), o, s, w, m, r, t), z)
        <=> RunTo(d, Cfg((IF w THEN Copies(m, W) ELSE <<>>) \o L, o, s, w, m, r, t), z)
  BY <1>2, PeelWitnesses DEF FromWitnesses, W, L
<1>10. CASE w
  BY <1>5, <1>7, <1>8, <1>9, <1>10 DEF witnessesEnd, L
<1>11. CASE ~w
  <2>1. <<>> \o L = L
    BY <1>2 DEF Plans
  <2> QED
    BY <1>9, <1>11, <2>1 DEF witnessesEnd, L
<1> QED
  BY <1>10, <1>11

\* Before the witnesses the reader is inside the data.
LEMMA WitnessesInside ==
  ASSUME NEW d, IsData(d), NEW Q \in Plans
  PROVE  Inside(d, FromWitnesses(Q))
<1>1. Len(d) \in Nat
  BY DEF IsData, IsSeq
<1>2. ASSUME NEW o \in Nat, NEW m \in Nat, NEW w \in BOOLEAN, NEW s \in Seq(Slices(d)),
             NEW r, NEW t, NEW z, RunTo(d, Cfg(FromWitnesses(Q), o, s, w, m, r, t), z)
      PROVE  o < Len(d)
  <2>1. /\ RunTo(d, Cfg(FromWitnesses(Q), o, s, w, m, r, t), z)
              <=> RunTo(d, Cfg(FromLock(Q), witnessesEnd(d, w, o, m), s, w, m, r, t), z)
        /\ witnessesEnd(d, w, o, m) \in Nat /\ o <= witnessesEnd(d, w, o, m)
    BY WitnessesPeel
  <2>2. Inside(d, FromLock(Q))
    BY <1>1, LockInside
  <2>3. witnessesEnd(d, w, o, m) < Len(d)
    BY <1>2, <2>1, <2>2 DEF Inside
  <2> QED
    BY <1>1, <2>1, <2>3
<1> QED
  BY <1>2 DEF Inside

\* What the outputs at o have in them, and where they end.
outputsEnd(d, o) == EndOf(outputEnd(d), o + 1, CountAt(d, o))
outputsIds(d, o) == <<Cut(d, o, 1)>> \o Contents(outputIds(d), outputEnd(d), o + 1, CountAt(d, o))

\* The outputs of a transaction and what is after them.
LEMMA OutputsPeel ==
  ASSUME NEW d, IsData(d), NEW Q \in Plans, NEW o \in Nat, NEW s \in Seq(Slices(d)),
         NEW w \in BOOLEAN, NEW m \in Nat, NEW r, NEW t, NEW z
  PROVE  /\ RunTo(d, Cfg(FromOutputs(Q), o, s, w, m, r, t), z)
              <=> RunTo(d, Cfg(FromWitnesses(Q), outputsEnd(d, o), s \o outputsIds(d, o), w, m,
                               r, t), z)
         /\ outputsEnd(d, o) \in Nat /\ o <= outputsEnd(d, o)
         /\ outputsIds(d, o) \in Seq(Slices(d))
<1> DEFINE end == [p \in Nat |-> EndOf(outputEnd(d), p + 1, CountAt(d, p))]
           ids == [p \in Nat |-> <<Cut(d, p, 1)>>
                                   \o Contents(outputIds(d), outputEnd(d), p + 1, CountAt(d, p))]
           L == FromWitnesses(Q)
<1>1. end[o] = outputsEnd(d, o) /\ ids[o] = outputsIds(d, o)
  BY DEF outputsEnd, outputsIds
<1>2. Reads(d, <<Count("outputs", TRUE)>>, end, ids)
  BY OutputsRead
<1>3. L \in Plans /\ Inside(d, L)
  BY FromAre, WitnessesInside
<1>4. <<Count("outputs", TRUE)>> \o L = FromOutputs(Q)
  BY DEF FromOutputs, Cons
<1> HIDE DEF end, ids, L
<1>5. Advances(d, <<Count("outputs", TRUE)>>, end, ids, L)
  BY <1>2, <1>3 DEF Reads
<1>6. RunTo(d, Cfg(FromOutputs(Q), o, s, w, m, r, t), z)
        <=> RunTo(d, Cfg(L, end[o], s \o ids[o], w, m, r, t), z)
  BY <1>4, <1>5 DEF Advances
<1>7. end[o] \in Nat /\ o <= end[o] /\ ids[o] \in Seq(Slices(d))
  BY <1>2 DEF Reads
<1> QED
  BY <1>1, <1>6, <1>7 DEF L

\* Before the outputs the reader is inside the data.
LEMMA OutputsInside ==
  ASSUME NEW d, IsData(d), NEW Q \in Plans
  PROVE  Inside(d, FromOutputs(Q))
<1>1. Len(d) \in Nat
  BY DEF IsData, IsSeq
<1>2. Reads(d, <<Count("outputs", TRUE)>>,
               [o \in Nat |-> EndOf(outputEnd(d), o + 1, CountAt(d, o))],
               [o \in Nat |-> <<Cut(d, o, 1)>>
                                \o Contents(outputIds(d), outputEnd(d), o + 1, CountAt(d, o))])
  BY OutputsRead
<1>3. FromWitnesses(Q) \in Plans /\ Inside(d, FromWitnesses(Q))
  BY FromAre, WitnessesInside
<1>4. <<Count("outputs", TRUE)>> \o FromWitnesses(Q) = FromOutputs(Q)
  BY DEF FromOutputs, Cons
<1>5. Inside(d, <<Count("outputs", TRUE)>> \o FromWitnesses(Q))
  BY <1>1, <1>2, <1>3, InsideBefore
<1> QED
  BY <1>4, <1>5

-----------------------------------------------------------------------------
(* The inputs of a transaction and its marker.                             *)

inputsEnd(d, o) == EndOf(inputEnd(d), o + 1, CountAt(d, o))
inputsIds(d, o) == <<Cut(d, o, 1)>> \o Contents(inputIds(d), inputEnd(d), o + 1, CountAt(d, o))

\* The inputs of a transaction and what is after them.
LEMMA InputsPeel ==
  ASSUME NEW d, IsData(d), NEW Q \in Plans, NEW o \in Nat, NEW s \in Seq(Slices(d)),
         NEW w \in BOOLEAN, NEW m, NEW r, NEW t, NEW z
  PROVE  /\ RunTo(d, Cfg(FromInputs(Q), o, s, w, m, r, t), z)
              <=> RunTo(d, Cfg(FromOutputs(Q), inputsEnd(d, o), s \o inputsIds(d, o), w,
                               CountAt(d, o), r, t), z)
         /\ inputsEnd(d, o) \in Nat /\ o <= inputsEnd(d, o)
         /\ inputsIds(d, o) \in Seq(Slices(d))
<1> DEFINE n == CountAt(d, o)
           end == [p \in Nat |-> EndOf(inputEnd(d), p, n)]
           ids == [p \in Nat |-> Contents(inputIds(d), inputEnd(d), p, n)]
           L == FromOutputs(Q)
           c == Cut(d, o, 1)
           v == Append(s, c)
<1>1. Len(d) \in Nat /\ n \in Nat /\ o + 1 \in Nat
  BY CountIs DEF IsData, IsSeq
<1>2. Reads(d, InputFields, inputEnd(d), inputIds(d))
  BY InputRead
<1>3. L \in Plans /\ Inside(d, L)
  BY FromAre, OutputsInside
<1>4. /\ c \in Slices(d) /\ <<c>> \in Seq(Slices(d))
      /\ v = s \o <<c>> /\ v \in Seq(Slices(d))
  <2>1. c \in Slices(d) /\ <<c>> \in Seq(Slices(d))
    BY CutIsOne
  <2> HIDE DEF c
  <2> QED
    BY <2>1, AppendIs
<1>5. end[o + 1] = inputsEnd(d, o) /\ inputsIds(d, o) = <<c>> \o ids[o + 1]
  BY <1>1 DEF inputsEnd, inputsIds
<1>6. RunTo(d, Cfg(FromInputs(Q), o, s, w, m, r, t), z)
        <=> o < Len(d) /\ RunTo(d, Cfg(Copies(n, InputFields) \o L, o + 1, v, w, n, r, t), z)
  <2>1. "inputs" \in Counts /\ Counted("inputs", n) = Copies(n, InputFields)
        /\ (IF "inputs" = "inputs" THEN n ELSE m) = n
    BY DEF Counts, Counted
  <2>2. RunTo(d, Cfg(Cons(Count("inputs", TRUE), L), o, s, w, m, r, t), z)
          <=> o < Len(d) /\ RunTo(d, Cfg(Counted("inputs", n) \o L, o + 1, v, w,
                IF "inputs" = "inputs" THEN n ELSE m, r, t), z)
    BY <1>3, <2>1, PeelCount
  <2> HIDE DEF n, v, L
  <2> QED
    BY <2>1, <2>2 DEF FromInputs, L
<1> HIDE DEF n, v, L, c, end, ids
<1>7. Reads(d, Copies(n, InputFields), end, ids)
  BY <1>1, <1>2, ReadsCopies DEF end, ids
<1>8. Advances(d, Copies(n, InputFields), end, ids, L)
  BY <1>3, <1>7 DEF Reads
<1>9. /\ end[o + 1] \in Nat /\ o + 1 <= end[o + 1] /\ ids[o + 1] \in Seq(Slices(d))
  BY <1>1, <1>7 DEF Reads
<1>10. RunTo(d, Cfg(Copies(n, InputFields) \o L, o + 1, v, w, n, r, t), z)
         <=> RunTo(d, Cfg(L, end[o + 1], v \o ids[o + 1], w, n, r, t), z)
  BY <1>1, <1>4, <1>8 DEF Advances
<1>11. /\ v \o ids[o + 1] = s \o inputsIds(d, o) /\ v \o ids[o + 1] \in Seq(Slices(d))
       /\ inputsIds(d, o) \in Seq(Slices(d))
  <2>1. <<c>> \o ids[o + 1] \in Seq(Slices(d)) /\ v \o ids[o + 1] \in Seq(Slices(d))
    BY <1>4, <1>9, JoinType
  <2>2. \A a, b \in Seq(Slices(d)) : (s \o a) \o b = s \o (a \o b)
    BY JoinOnce
  <2>3. (s \o <<c>>) \o ids[o + 1] = s \o (<<c>> \o ids[o + 1])
    BY <1>4, <1>9, <2>2, Zenon
  <2> QED
    BY <1>4, <1>5, <2>1, <2>3, Zenon
<1>12. RunTo(d, Cfg(L, end[o + 1], v \o ids[o + 1], w, n, r, t), z) => end[o + 1] < Len(d)
  BY <1>1, <1>3, <1>9, <1>11 DEF Inside
<1>13. /\ end[o + 1] < Len(d) => o < Len(d)
       /\ o <= end[o + 1]
  BY <1>1, <1>9
<1>14. RunTo(d, Cfg(FromInputs(Q), o, s, w, m, r, t), z)
         <=> RunTo(d, Cfg(L, end[o + 1], s \o inputsIds(d, o), w, n, r, t), z)
  BY <1>6, <1>10, <1>11, <1>12, <1>13, Zenon
<1> QED
  BY <1>5, <1>9, <1>11, <1>13, <1>14, Zenon DEF L, n

\* Before the inputs the reader is inside the data.
LEMMA InputsInside ==
  ASSUME NEW d, IsData(d), NEW Q \in Plans
  PROVE  Inside(d, FromInputs(Q))
<1>1. Len(d) \in Nat
  BY DEF IsData, IsSeq
<1>2. ASSUME NEW o \in Nat, NEW m \in Nat, NEW w \in BOOLEAN, NEW s \in Seq(Slices(d)),
             NEW r, NEW t, NEW z, RunTo(d, Cfg(FromInputs(Q), o, s, w, m, r, t), z)
      PROVE  o < Len(d)
  <2>1. /\ RunTo(d, Cfg(FromInputs(Q), o, s, w, m, r, t), z)
              <=> RunTo(d, Cfg(FromOutputs(Q), inputsEnd(d, o), s \o inputsIds(d, o), w,
                               CountAt(d, o), r, t), z)
        /\ inputsEnd(d, o) \in Nat /\ o <= inputsEnd(d, o)
        /\ inputsIds(d, o) \in Seq(Slices(d))
    BY InputsPeel
  <2>2. Inside(d, FromOutputs(Q)) /\ CountAt(d, o) \in Nat
    BY OutputsInside, CountIs
  <2>3. s \o inputsIds(d, o) \in Seq(Slices(d))
    BY <2>1, JoinType
  <2>4. inputsEnd(d, o) < Len(d)
    BY <1>2, <2>1, <2>2, <2>3 DEF Inside
  <2> QED
    BY <1>1, <2>1, <2>4
<1> QED
  BY <1>2 DEF Inside

\* Whether a marker and a flag are at o, and where the inputs are then.
Marked(d, o) == o + 1 \in DOMAIN d /\ d[o + 1] = << 0 >>
AfterMarker(d, o) == o + (IF Marked(d, o) THEN 2 ELSE 0)

\* The marker of a transaction and what is after it.
LEMMA MarkerPeels ==
  ASSUME NEW d, IsData(d), NEW Q \in Plans, NEW o \in Nat, NEW s \in Seq(Slices(d)),
         NEW w, NEW m \in Nat, NEW r, NEW t, NEW z
  PROVE  /\ RunTo(d, Cfg(FromMarker(Q), o, s, w, m, r, t), z)
              <=> RunTo(d, Cfg(FromInputs(Q), AfterMarker(d, o), s, Marked(d, o), m, r, t), z)
         /\ AfterMarker(d, o) \in Nat /\ o <= AfterMarker(d, o) /\ Marked(d, o) \in BOOLEAN
<1>1. Len(d) \in Nat /\ DOMAIN d = 1..Len(d)
  BY DEF IsData, IsSeq
<1>2. FromInputs(Q) \in Plans /\ Inside(d, FromInputs(Q))
  BY FromAre, InputsInside
<1>3. Marked(d, o) \in BOOLEAN
  BY DEF Marked
<1>4. AfterMarker(d, o) \in Nat /\ o <= AfterMarker(d, o)
  BY DEF AfterMarker
<1>5. RunTo(d, Cfg(FromInputs(Q), AfterMarker(d, o), s, Marked(d, o), m, r, t), z)
        => AfterMarker(d, o) < Len(d)
  BY <1>2, <1>3, <1>4 DEF Inside
<1>6. CASE Marked(d, o)
  <2>1. d[o + 1] = << 0 >> /\ AfterMarker(d, o) = o + 2 /\ Marked(d, o) = TRUE
    BY <1>6 DEF Marked, AfterMarker
  <2>2. RunTo(d, Cfg(Cons(Step("marker"), FromInputs(Q)), o, s, w, m, r, t), z)
          <=> o + 2 <= Len(d) /\ RunTo(d, Cfg(FromInputs(Q), o + 2, s, TRUE, m, r, t), z)
    BY <1>2, <2>1, PeelMarker
  <2>3. RunTo(d, Cfg(FromInputs(Q), o + 2, s, TRUE, m, r, t), z) => o + 2 <= Len(d)
    BY <1>1, <1>5, <2>1
  <2>4. RunTo(d, Cfg(FromMarker(Q), o, s, w, m, r, t), z)
          <=> RunTo(d, Cfg(FromInputs(Q), o + 2, s, TRUE, m, r, t), z)
    BY <2>2, <2>3, Zenon DEF FromMarker
  <2> QED
    BY <1>3, <1>4, <2>1, <2>4
<1>7. CASE ~Marked(d, o)
  <2>1. AfterMarker(d, o) = o /\ Marked(d, o) = FALSE
    BY <1>7 DEF AfterMarker, Marked
  <2>2. CASE d[o + 1] # << 0 >>
    <3>1. RunTo(d, Cfg(Cons(Step("marker"), FromInputs(Q)), o, s, w, m, r, t), z)
            <=> o + 1 <= Len(d) /\ RunTo(d, Cfg(FromInputs(Q), o, s, FALSE, m, r, t), z)
      BY <1>2, <2>2, PeelNoMarker
    <3>2. RunTo(d, Cfg(FromInputs(Q), o, s, FALSE, m, r, t), z) => o + 1 <= Len(d)
      <4>1. RunTo(d, Cfg(FromInputs(Q), o, s, FALSE, m, r, t), z) => o < Len(d)
        BY <1>5, <2>1, Zenon
      <4>2. o < Len(d) => o + 1 <= Len(d)
        BY <1>1
      <4> QED
        BY <4>1, <4>2, Zenon
    <3>3. RunTo(d, Cfg(FromMarker(Q), o, s, w, m, r, t), z)
            <=> RunTo(d, Cfg(FromInputs(Q), o, s, FALSE, m, r, t), z)
      BY <3>1, <3>2, Zenon DEF FromMarker
    <3> QED
      BY <1>3, <1>4, <2>1, <3>3
  <2>3. CASE d[o + 1] = << 0 >>
    <3>1. o + 1 > Len(d)
      BY <1>1, <1>7, <2>3 DEF Marked
    <3>2. RunTo(d, Cfg(Cons(Step("marker"), FromInputs(Q)), o, s, w, m, r, t), z)
            <=> o + 2 <= Len(d) /\ RunTo(d, Cfg(FromInputs(Q), o + 2, s, TRUE, m, r, t), z)
      BY <1>2, <2>3, PeelMarker
    <3>5. ~(o + 2 <= Len(d)) /\ ~(o < Len(d))
      BY <1>1, <3>1
    <3>3. ~RunTo(d, Cfg(FromMarker(Q), o, s, w, m, r, t), z)
      BY <3>2, <3>5, Zenon DEF FromMarker
    <3>4. ~RunTo(d, Cfg(FromInputs(Q), o, s, FALSE, m, r, t), z)
      BY <1>5, <2>1, <3>5, Zenon
    <3> QED
      BY <1>3, <1>4, <2>1, <3>3, <3>4
  <2> QED
    BY <2>2, <2>3
<1> QED
  BY <1>6, <1>7

-----------------------------------------------------------------------------
(* A transaction.                                                          *)

\* A tuple is its first element before the others.
LEMMA PrefixedIs ==
  ASSUME NEW C, NEW x \in C, NEW p \in Seq(C), NEW q \in Seq(C), Len(q) = Len(p) + 1,
         q[1] = x, \A i \in 1..Len(p) : q[i + 1] = p[i]
  PROVE  <<x>> \o p = q
<1> DEFINE a == <<x>> \o p
<1>1. <<x>> \in Seq(C) /\ Len(<<x>>) = 1 /\ <<x>>[1] = x /\ Len(p) \in Nat
  OBVIOUS
<1>2. /\ a \in Seq(C) /\ Len(a) = Len(<<x>>) + Len(p)
      /\ \A i \in 1..(Len(<<x>>) + Len(p)) :
           a[i] = IF i <= Len(<<x>>) THEN <<x>>[i] ELSE p[i - Len(<<x>>)]
  BY <1>1, ConcatProperties
<1> HIDE DEF a
<1>3. Len(a) = Len(q)
  BY <1>1, <1>2
<1>4. ASSUME NEW i \in 1..Len(a)
      PROVE  a[i] = q[i]
  <2>1. CASE i = 1
    BY <1>1, <1>2, <2>1
  <2>2. CASE i # 1
    <3>1. i - 1 \in 1..Len(p) /\ (i - 1) + 1 = i
      BY <1>1, <1>2, <2>2
    <3>2. a[i] = p[i - 1]
      BY <1>1, <1>2, <2>2
    <3> QED
      BY <3>1, <3>2
  <2> QED
    BY <2>1, <2>2
<1>5. a = q
  BY <1>2, <1>3, <1>4, SeqEqual
<1> QED
  BY <1>5 DEF a

\* A sequence before another is put before it field by field.
LEMMA ConsJoins ==
  ASSUME NEW f \in FieldSet, NEW P \in Plans, NEW Q \in Plans
  PROVE  Cons(f, P) \o Q = Cons(f, P \o Q)
<1>1. <<f>> \in Seq(FieldSet) /\ P \in Seq(FieldSet) /\ Q \in Seq(FieldSet)
  BY DEF Plans
<1>2. (<<f>> \o P) \o Q = <<f>> \o (P \o Q)
  BY <1>1, JoinOnce
<1> QED
  BY <1>2 DEF Cons

\* The fields of a transaction as they follow one another.
LEMMA TransactionFieldsAre ==
  ASSUME NEW Q \in Plans
  PROVE  TransactionFields \in Plans /\ TransactionFields \o Q = Cons(Fixed(Word), FromMarker(Q))
<1> DEFINE a == Fixed(Word)
           b == Step("marker")
           c == Count("inputs", TRUE)
           e == Count("outputs", TRUE)
           g == Step("witnesses")
           k == Step("transaction")
           p7 == <<k>>
           p6 == <<a, k>>
           p5 == <<g, a, k>>
           p4 == <<e, g, a, k>>
           p3 == <<c, e, g, a, k>>
           p2 == <<b, c, e, g, a, k>>
           p1 == <<a, b, c, e, g, a, k>>
<1>1. /\ a \in FieldSet /\ b \in FieldSet /\ c \in FieldSet /\ e \in FieldSet
      /\ g \in FieldSet /\ k \in FieldSet
  BY WidthsAre DEF Step, Fixed, Count, Field, FieldSet, Ops, Counts
<1>2. p1 = TransactionFields
  BY DEF TransactionFields
<1>3. FromMarker(Q) = Cons(b, Cons(c, Cons(e, Cons(g, Cons(a, Cons(k, Q))))))
  BY DEF FromMarker, FromInputs, FromOutputs, FromWitnesses, FromLock
<1> HIDE DEF a, b, c, e, g, k
<1>4. /\ p7 \in Plans /\ p6 \in Plans /\ p5 \in Plans /\ p4 \in Plans /\ p3 \in Plans
      /\ p2 \in Plans /\ p1 \in Plans
  BY <1>1 DEF Plans
<1>5. p6 = Cons(a, p7)
  BY <1>1, <1>4, PrefixedIs DEF Cons, Plans
<1>6. p5 = Cons(g, p6)
  BY <1>1, <1>4, PrefixedIs DEF Cons, Plans
<1>7. p4 = Cons(e, p5)
  BY <1>1, <1>4, PrefixedIs DEF Cons, Plans
<1>8. p3 = Cons(c, p4)
  BY <1>1, <1>4, PrefixedIs DEF Cons, Plans
<1>9. p2 = Cons(b, p3)
  BY <1>1, <1>4, PrefixedIs DEF Cons, Plans
<1>10. p1 = Cons(a, p2)
  BY <1>1, <1>4, PrefixedIs DEF Cons, Plans
<1>11. p7 \o Q = Cons(k, Q)
  BY DEF Cons
<1> HIDE DEF p1, p2, p3, p4, p5, p6, p7
<1>19. \A f \in FieldSet, P \in Plans : Cons(f, P) \o Q = Cons(f, P \o Q)
  BY ConsJoins
<1>12. p6 \o Q = Cons(a, p7 \o Q)
  BY <1>1, <1>4, <1>19, <1>5, Zenon
<1>13. p5 \o Q = Cons(g, p6 \o Q)
  BY <1>1, <1>4, <1>19, <1>6, Zenon
<1>14. p4 \o Q = Cons(e, p5 \o Q)
  BY <1>1, <1>4, <1>19, <1>7, Zenon
<1>15. p3 \o Q = Cons(c, p4 \o Q)
  BY <1>1, <1>4, <1>19, <1>8, Zenon
<1>16. p2 \o Q = Cons(b, p3 \o Q)
  BY <1>1, <1>4, <1>19, <1>9, Zenon
<1>17. p1 \o Q = Cons(a, p2 \o Q)
  BY <1>1, <1>4, <1>19, <1>10, Zenon
<1>18. p1 \o Q = Cons(a, FromMarker(Q))
  BY <1>3, <1>11, <1>12, <1>13, <1>14, <1>15, <1>16, <1>17, Zenon
<1> QED
  BY <1>2, <1>4, <1>18, Zenon DEF a

\* The parts of a transaction and its ID, as they are read.
LEMMA PartsAre ==
  ASSUME NEW d, IsData(d), NEW o \in Nat
  PROVE  /\ parts(d)[o].inputs = AfterMarker(d, o + Word)
         /\ parts(d)[o].outputs = inputsEnd(d, AfterMarker(d, o + Word))
         /\ parts(d)[o].lock
              = witnessesEnd(d, Marked(d, o + Word), outputsEnd(d, parts(d)[o].outputs),
                             CountAt(d, parts(d)[o].inputs))
<1> DEFINE inputs == o + Word + (IF IsSegwit(d, o) THEN 2 ELSE 0)
           outputs == EndOf(inputEnd(d), inputs + 1, CountAt(d, inputs))
           witnesses == EndOf(outputEnd(d), outputs + 1, CountAt(d, outputs))
           lock == IF IsSegwit(d, o)
                   THEN EndOf(witnessEnd(d), witnesses, CountAt(d, inputs)) ELSE witnesses
<1>1. parts(d)[o] = [inputs |-> inputs, outputs |-> outputs, lock |-> lock]
  BY DEF parts
<1>2. IsSegwit(d, o) <=> Marked(d, o + Word)
  BY DEF IsSegwit, Marked
<1>3. inputs = AfterMarker(d, o + Word)
  BY <1>2 DEF AfterMarker
<1> HIDE DEF inputs
<1>4. outputs = inputsEnd(d, inputs)
  BY DEF inputsEnd
<1> HIDE DEF outputs
<1>5. witnesses = outputsEnd(d, outputs)
  BY DEF outputsEnd
<1> HIDE DEF witnesses
<1>6. lock = witnessesEnd(d, Marked(d, o + Word), witnesses, CountAt(d, inputs))
  BY <1>2 DEF witnessesEnd
<1> HIDE DEF lock
<1> QED
  BY <1>1, <1>3, <1>4, <1>5, <1>6


\* The fields of a transaction are read to its end, with its ID as seen.
LEMMA TransactionPeels ==
  ASSUME NEW d, IsData(d), NEW Q \in Plans, NEW o \in Nat, NEW w, NEW m \in Nat, NEW r, NEW t, NEW z
  PROVE  RunTo(d, Cfg(TransactionFields \o Q, o, <<>>, w, m, r, t), z)
           <=> /\ transactionEnd(d)[o] <= Len(d)
               /\ RunTo(d, Cfg(Q, transactionEnd(d)[o], <<>>, Marked(d, o + Word),
                               CountAt(d, parts(d)[o].inputs), r,
                               Append(t, transactionId(d)[o])), z)
<1> DEFINE p == o + Word
           w1 == Marked(d, p)
           inputs == AfterMarker(d, p)
           n == CountAt(d, inputs)
           outputs == inputsEnd(d, inputs)
           witnesses == outputsEnd(d, outputs)
           lock == witnessesEnd(d, w1, witnesses, n)
           s1 == <<Cut(d, o, Word)>>
           s2 == s1 \o inputsIds(d, inputs)
           s3 == s2 \o outputsIds(d, outputs)
           id == Append(s3, Cut(d, lock, Word))
<1>1. /\ Len(d) \in Nat /\ Word \in Nat /\ p \in Nat /\ s1 \in Seq(Slices(d))
      /\ Append(<<>>, Cut(d, o, Word)) = s1
  <2>1. Len(d) \in Nat /\ Word \in Nat
    BY WidthsAre DEF IsData, IsSeq
  <2> QED
    BY <2>1, CutIs
<1>2. RunTo(d, Cfg(TransactionFields \o Q, o, <<>>, w, m, r, t), z)
        <=> p <= Len(d) /\ RunTo(d, Cfg(FromMarker(Q), p, s1, w, m, r, t), z)
  <2>1. /\ FromMarker(Q) \in Plans
        /\ TransactionFields \o Q = Cons(Field("fixed", Word, TRUE), FromMarker(Q))
    BY FromAre, TransactionFieldsAre DEF Fixed
  <2>2. RunTo(d, Cfg(Cons(Field("fixed", Word, TRUE), FromMarker(Q)), o, <<>>, w, m, r, t), z)
          <=> o + Word <= Len(d)
                /\ RunTo(d, Cfg(FromMarker(Q), o + Word, Append(<<>>, Cut(d, o, Word)), w, m,
                                 r, t), z)
    BY <1>1, <2>1, PeelFixed
  <2> QED
    BY <1>1, <2>1, <2>2, Zenon
<1> HIDE DEF p, s1
<1>3. /\ RunTo(d, Cfg(FromMarker(Q), p, s1, w, m, r, t), z)
           <=> RunTo(d, Cfg(FromInputs(Q), inputs, s1, w1, m, r, t), z)
      /\ inputs \in Nat /\ p <= inputs /\ w1 \in BOOLEAN
  BY <1>1, MarkerPeels
<1> HIDE DEF w1, inputs
<1>4. /\ RunTo(d, Cfg(FromInputs(Q), inputs, s1, w1, m, r, t), z)
           <=> RunTo(d, Cfg(FromOutputs(Q), outputs, s2, w1, n, r, t), z)
      /\ outputs \in Nat /\ inputs <= outputs /\ inputsIds(d, inputs) \in Seq(Slices(d))
  BY <1>1, <1>3, InputsPeel
<1>5. n \in Nat /\ s2 \in Seq(Slices(d))
  BY <1>1, <1>3, <1>4, CountIs, JoinType
<1> HIDE DEF n, outputs, s2
<1>6. /\ RunTo(d, Cfg(FromOutputs(Q), outputs, s2, w1, n, r, t), z)
           <=> RunTo(d, Cfg(FromWitnesses(Q), witnesses, s3, w1, n, r, t), z)
      /\ witnesses \in Nat /\ outputs <= witnesses /\ outputsIds(d, outputs) \in Seq(Slices(d))
  BY <1>3, <1>4, <1>5, OutputsPeel
<1>7. s3 \in Seq(Slices(d))
  BY <1>5, <1>6, JoinType
<1> HIDE DEF witnesses, s3
<1>8. /\ RunTo(d, Cfg(FromWitnesses(Q), witnesses, s3, w1, n, r, t), z)
           <=> RunTo(d, Cfg(FromLock(Q), lock, s3, w1, n, r, t), z)
      /\ lock \in Nat /\ witnesses <= lock
  BY <1>3, <1>5, <1>6, <1>7, WitnessesPeel
<1> HIDE DEF lock
<1>9. RunTo(d, Cfg(FromLock(Q), lock, s3, w1, n, r, t), z)
        <=> /\ lock + Word <= Len(d)
            /\ RunTo(d, Cfg(Q, lock + Word, <<>>, w1, n, r, Append(t, id)), z)
  BY <1>8, LockPeels
<1>10. lock + Word <= Len(d) => p <= Len(d)
  BY <1>1, <1>3, <1>4, <1>6, <1>8
<1>11. /\ parts(d)[o].inputs = inputs /\ parts(d)[o].outputs = outputs
       /\ parts(d)[o].lock = lock
  <2>1. /\ parts(d)[o].inputs = AfterMarker(d, o + Word)
        /\ parts(d)[o].outputs = inputsEnd(d, AfterMarker(d, o + Word))
        /\ parts(d)[o].lock
              = witnessesEnd(d, Marked(d, o + Word), outputsEnd(d, parts(d)[o].outputs),
                             CountAt(d, parts(d)[o].inputs))
    BY PartsAre
  <2> QED
    BY <2>1, Zenon DEF lock, witnesses, outputs, n, inputs, w1, p
<1>12. transactionEnd(d)[o] = lock + Word
  BY <1>11 DEF transactionEnd
<1>13. transactionId(d)[o] = id
  <2> DEFINE ci == Contents(inputIds(d), inputEnd(d), inputs + 1, n)
             co == Contents(outputIds(d), outputEnd(d), outputs + 1, CountAt(d, outputs))
             a == Cut(d, o, Word)
             b == Cut(d, inputs, 1)
             c == Cut(d, outputs, 1)
             e == Cut(d, lock, Word)
  <2>1. transactionId(d)[o] = <<a, b>> \o ci \o <<c>> \o co \o <<e>>
    BY <1>11 DEF transactionId, n
  <2>2. inputsIds(d, inputs) = <<b>> \o ci /\ outputsIds(d, outputs) = <<c>> \o co
    BY DEF inputsIds, outputsIds, n
  <2>3. /\ a \in Slices(d) /\ b \in Slices(d) /\ c \in Slices(d) /\ e \in Slices(d)
        /\ <<a>> \in Seq(Slices(d)) /\ <<b>> \in Seq(Slices(d)) /\ <<c>> \in Seq(Slices(d))
    <3>1. a \in Slices(d)
      BY <1>1, SlicesAre
    <3>2. b \in Slices(d)
      BY <1>3, CutIsOne
    <3>3. c \in Slices(d)
      BY <1>4, CutIsOne
    <3>4. e \in Slices(d)
      BY <1>1, <1>8, SlicesAre
    <3> HIDE DEF a, b, c, e
    <3> QED
      BY <3>1, <3>2, <3>3, <3>4
  <2>4. ci \in Seq(Slices(d))
    <3>1. inputIds(d) \in [Nat -> Seq(Slices(d))] /\ inputEnd(d) \in [Nat -> Nat]
      BY InputRead DEF Reads
    <3>2. inputs + 1 \in Nat
      BY <1>3
    <3> QED
      BY <1>5, <3>1, <3>2, ContentsGrow
  <2>5. co \in Seq(Slices(d))
    <3>1. outputIds(d) \in [Nat -> Seq(Slices(d))] /\ outputEnd(d) \in [Nat -> Nat]
      BY OutputRead DEF Reads
    <3>2. outputs + 1 \in Nat /\ CountAt(d, outputs) \in Nat
      BY <1>4, CountIs
    <3> QED
      BY <3>1, <3>2, ContentsGrow
  <2>6. s1 = <<a>>
    BY DEF s1
  <2> HIDE DEF a, b, c, e, ci, co
  <2>7. \A x, y, v \in Seq(Slices(d)) : (x \o y) \o v = x \o (y \o v)
    BY JoinOnce
  <2>8. <<a, b>> = <<a>> \o <<b>>
    BY <2>3, TwoAre
  <2>9. s2 = <<a, b>> \o ci
    <3>1. s2 = <<a>> \o (<<b>> \o ci)
      BY <2>2, <2>6 DEF s2
    <3>2. (<<a>> \o <<b>>) \o ci = <<a>> \o (<<b>> \o ci)
      BY <2>3, <2>4, <2>7, Zenon
    <3> QED
      BY <2>8, <3>1, <3>2, Zenon
  <2>10. s3 = (s2 \o <<c>>) \o co
    <3>1. s3 = s2 \o (<<c>> \o co)
      BY <2>2 DEF s3
    <3>2. (s2 \o <<c>>) \o co = s2 \o (<<c>> \o co)
      BY <1>5, <2>3, <2>5, <2>7, Zenon
    <3> QED
      BY <3>1, <3>2, Zenon
  <2>11. id = s3 \o <<e>>
    <3>1. Append(s3, e) = s3 \o <<e>>
      BY <1>7, <2>3, AppendIs
    <3> QED
      BY <3>1 DEF e
  <2> QED
    BY <2>1, <2>9, <2>10, <2>11, Zenon
<1> HIDE DEF id
<1>14. RunTo(d, Cfg(TransactionFields \o Q, o, <<>>, w, m, r, t), z)
         <=> /\ lock + Word <= Len(d)
             /\ RunTo(d, Cfg(Q, lock + Word, <<>>, w1, n, r, Append(t, id)), z)
  BY <1>2, <1>3, <1>4, <1>6, <1>8, <1>9, <1>10, Zenon
<1>15. w1 = Marked(d, o + Word) /\ n = CountAt(d, parts(d)[o].inputs)
  BY <1>11 DEF w1, p, n
<1> QED
  BY <1>12, <1>13, <1>14, <1>15, Zenon

-----------------------------------------------------------------------------
(* The transactions of a block.                                            *)

\* A transaction ends after it starts.
LEMMA TransactionEndIs ==
  ASSUME NEW d, IsData(d)
  PROVE  transactionEnd(d) \in [Nat -> Nat] /\ \A o \in Nat : o <= transactionEnd(d)[o]
<1>1. ASSUME NEW o \in Nat
      PROVE  parts(d)[o].lock + Word \in Nat /\ o <= parts(d)[o].lock + Word
  <2> DEFINE p == o + Word
             w == Marked(d, p)
             inputs == AfterMarker(d, p)
             n == CountAt(d, inputs)
             outputs == inputsEnd(d, inputs)
             witnesses == outputsEnd(d, outputs)
             lock == witnessesEnd(d, w, witnesses, n)
  <2>1. Word \in Nat /\ p \in Nat /\ o <= p
    BY WidthsAre
  <2>2. parts(d)[o].lock = lock
    BY PartsAre
  <2> HIDE DEF p
  <2>3. inputs \in Nat /\ p <= inputs
    BY <2>1 DEF AfterMarker
  <2>4. w \in BOOLEAN
    BY DEF Marked
  <2> HIDE DEF w, inputs
  <2>5. n \in Nat /\ inputs + 1 \in Nat
    BY <2>3, CountIs
  <2>6. outputs \in Nat /\ inputs <= outputs
    <3>1. inputEnd(d) \in [Nat -> Nat] /\ \A q \in Nat : q <= inputEnd(d)[q]
      BY InputRead DEF Reads
    <3>2. /\ EndOf(inputEnd(d), inputs + 1, n) \in Nat
          /\ inputs + 1 <= EndOf(inputEnd(d), inputs + 1, n)
      BY <2>5, <3>1, EndIsAfter
    <3> QED
      BY <2>3, <3>2 DEF inputsEnd, n
  <2> HIDE DEF n, outputs
  <2>7. witnesses \in Nat /\ outputs <= witnesses
    <3>1. outputEnd(d) \in [Nat -> Nat] /\ \A q \in Nat : q <= outputEnd(d)[q]
      BY OutputRead DEF Reads
    <3>2. CountAt(d, outputs) \in Nat /\ outputs + 1 \in Nat
      BY <2>6, CountIs
    <3>3. /\ EndOf(outputEnd(d), outputs + 1, CountAt(d, outputs)) \in Nat
          /\ outputs + 1 <= EndOf(outputEnd(d), outputs + 1, CountAt(d, outputs))
      BY <3>1, <3>2, EndIsAfter
    <3> QED
      BY <2>6, <3>3 DEF outputsEnd
  <2> HIDE DEF witnesses
  <2>8. lock \in Nat /\ witnesses <= lock
    <3>1. witnessEnd(d) \in [Nat -> Nat] /\ \A q \in Nat : q <= witnessEnd(d)[q]
      BY WitnessRead DEF Reads
    <3>2. /\ EndOf(witnessEnd(d), witnesses, n) \in Nat
          /\ witnesses <= EndOf(witnessEnd(d), witnesses, n)
      BY <2>5, <2>7, <3>1, EndIsAfter
    <3> QED
      BY <2>4, <2>7, <3>2 DEF witnessesEnd
  <2> HIDE DEF lock
  <2> QED
    BY <2>1, <2>2, <2>3, <2>6, <2>7, <2>8
<1>2. transactionEnd(d) = [o \in Nat |-> parts(d)[o].lock + Word]
  BY DEF transactionEnd
<1>3. \A o \in Nat : transactionEnd(d)[o] = parts(d)[o].lock + Word
  BY <1>2
<1> QED
  BY <1>1, <1>2, <1>3

\* The IDs of n transactions at o.
idsOf(d, o, n) == [i \in 1..n |-> transactionId(d)[Starts(transactionEnd(d), o)[i - 1]]]

\* The IDs of one more transaction.
LEMMA IdsGrow ==
  ASSUME NEW d, IsData(d), NEW o \in Nat, NEW n \in Nat
  PROVE  /\ idsOf(d, o, 0) = <<>>
         /\ idsOf(d, o, n + 1)
              = Append(idsOf(d, o, n), transactionId(d)[EndOf(transactionEnd(d), o, n)])
<1> DEFINE C == {transactionId(d)[p] : p \in Nat}
           st == Starts(transactionEnd(d), o)
           u == idsOf(d, o, n)
           v == idsOf(d, o, n + 1)
           x == transactionId(d)[st[n]]
<1>1. st \in [Nat -> Nat]
  BY TransactionEndIs, StartsIs
<1>2. idsOf(d, o, 0) = <<>>
  BY DEF idsOf
<1>3. u \in [1..n -> C] /\ v \in [1..(n + 1) -> C] /\ x \in C
  BY <1>1 DEF idsOf
<1>4. /\ \A i \in 1..n : u[i] = transactionId(d)[st[i - 1]]
      /\ \A i \in 1..(n + 1) : v[i] = transactionId(d)[st[i - 1]]
  BY DEF idsOf
<1>5. EndOf(transactionEnd(d), o, n) = st[n]
  BY DEF EndOf
<1> HIDE DEF C, u, v, x, st
<1>6. u \in Seq(C) /\ Len(u) = n /\ v \in Seq(C) /\ Len(v) = n + 1
  BY <1>3, IsASeq, LenProperties
<1>7. v[n + 1] = x
  <2>1. n + 1 \in 1..(n + 1) /\ (n + 1) - 1 = n
    OBVIOUS
  <2> QED
    BY <1>4, <2>1 DEF x
<1>8. \A i \in 1..n : v[i] = u[i]
  BY <1>4
<1>9. u \o <<x>> = v
  BY <1>3, <1>6, <1>7, <1>8, GrownIs
<1>10. u \o <<x>> = Append(u, x)
  BY <1>3, <1>6, AppendIs
<1> QED
  BY <1>2, <1>5, <1>9, <1>10 DEF u, v, x

\* What is read from Q on does not depend on what was seen of the transaction
\* before.
Settled(d, Q) ==
  \A o, m, m2 \in Nat : \A w, w2, r, t, z :
    RunTo(d, Cfg(Q, o, <<>>, w, m, r, t), z) <=> RunTo(d, Cfg(Q, o, <<>>, w2, m2, r, t), z)

\* Where no transaction is being read, what was left of the last one is unused.
LEMMA SettledHere ==
  ASSUME NEW d, NEW Q, Settled(d, Q), NEW o \in Nat, NEW m \in Nat, NEW m2 \in Nat,
         NEW w, NEW w2, NEW r, NEW t, NEW z
  PROVE  RunTo(d, Cfg(Q, o, <<>>, w, m, r, t), z) <=> RunTo(d, Cfg(Q, o, <<>>, w2, m2, r, t), z)
BY DEF Settled

\* At the end of the block nothing is.
LEMMA EndSettled ==
  ASSUME NEW d
  PROVE  Settled(d, EndPlan)
<1>1. ASSUME NEW o, NEW s, NEW w, NEW m, NEW r, NEW t, NEW z
      PROVE  RunTo(d, Cfg(EndPlan, o, s, w, m, r, t), z) <=> z = <<o, r, t>>
  <2> DEFINE c == Cfg(EndPlan, o, s, w, m, r, t)
  <2>1. c.plan = EndPlan /\ c.offset = o /\ c.root = r /\ c.txs = t
    BY DEF Cfg
  <2> HIDE DEF c
  <2>2. RunTo(d, c, z) <=> z = <<c.offset, c.root, c.txs>>
    BY <2>1, RunEnds
  <2> QED
    BY <2>1, <2>2 DEF c
<1> QED
  BY <1>1 DEF Settled

\* At the start of a transaction nothing is.
LEMMA TransactionSettled ==
  ASSUME NEW d, IsData(d), NEW Q \in Plans
  PROVE  Settled(d, TransactionFields \o Q)
BY TransactionPeels DEF Settled

\* The transactions of a block.
LEMMA TransactionsPeel ==
  ASSUME NEW d, IsData(d), NEW o \in Nat, o <= Len(d), NEW r, NEW z, NEW n \in Nat
  PROVE  \A Q \in Plans : Settled(d, Q) =>
           \A w : \A m \in Nat :
             RunTo(d, Cfg(Copies(n, TransactionFields) \o Q, o, <<>>, w, m, r, <<>>), z)
               <=> /\ EndOf(transactionEnd(d), o, n) <= Len(d)
                   /\ RunTo(d, Cfg(Q, EndOf(transactionEnd(d), o, n), <<>>, FALSE, 0, r,
                                   idsOf(d, o, n)), z)
<1> DEFINE F == TransactionFields
           e == transactionEnd(d)
           P(k) == \A Q \in Plans : Settled(d, Q) =>
                     \A w : \A m \in Nat :
                       RunTo(d, Cfg(Copies(k, F) \o Q, o, <<>>, w, m, r, <<>>), z)
                         <=> /\ EndOf(e, o, k) <= Len(d)
                             /\ RunTo(d, Cfg(Q, EndOf(e, o, k), <<>>, FALSE, 0, r,
                                              idsOf(d, o, k)), z)
           T == {k \in Nat : P(k)}
<1>1. e \in [Nat -> Nat] /\ \A p \in Nat : p <= e[p]
  BY TransactionEndIs
<1>2. F \in Plans /\ \A Q \in Plans : F \o Q \in Plans
  <2>1. F \in Plans
    <3>1. <<>> \in Plans
      BY DEF Plans
    <3> QED
      BY <3>1, TransactionFieldsAre
  <2> HIDE DEF F
  <2> QED
    BY <2>1, JoinType DEF Plans
<1>3. Len(d) \in Nat
  BY DEF IsData, IsSeq
<1> HIDE DEF F, e
<1>4. 0 \in T
  <2>1. Copies(0, F) = <<>>
    BY <1>2, CopiesGrow
  <2>2. EndOf(e, o, 0) = o /\ idsOf(d, o, 0) = <<>>
    BY <1>1, StartsIs, IdsGrow DEF EndOf
  <2>3. ASSUME NEW Q \in Plans, Settled(d, Q), NEW w, NEW m \in Nat
        PROVE  RunTo(d, Cfg(Copies(0, F) \o Q, o, <<>>, w, m, r, <<>>), z)
                 <=> /\ EndOf(e, o, 0) <= Len(d)
                     /\ RunTo(d, Cfg(Q, EndOf(e, o, 0), <<>>, FALSE, 0, r, idsOf(d, o, 0)), z)
    <3>1. <<>> \o Q = Q
      BY DEF Plans
    <3>2. 0 \in Nat
      OBVIOUS
    <3>3. RunTo(d, Cfg(Q, o, <<>>, w, m, r, <<>>), z)
            <=> RunTo(d, Cfg(Q, o, <<>>, FALSE, 0, r, <<>>), z)
      BY <2>3, <3>2, Zenon DEF Settled
    <3> QED
      BY <2>1, <2>2, <3>1, <3>3, Zenon
  <2> QED
    BY <2>3
<1>5. ASSUME NEW k \in Nat, P(k)
      PROVE  P(k + 1)
  <2>1. Copies(k + 1, F) = Copies(k, F) \o F /\ Copies(k, F) \in Plans
    BY <1>2, CopiesGrow
  <2>2. EndOf(e, o, k + 1) = e[EndOf(e, o, k)] /\ EndOf(e, o, k) \in Nat
    <3>1. EndOf(e, o, k + 1) = e[EndOf(e, o, k)]
      BY <1>1, StartsIs DEF EndOf
    <3> QED
      BY <1>1, <3>1, EndIs
  <2>3. idsOf(d, o, k + 1) = Append(idsOf(d, o, k), transactionId(d)[EndOf(e, o, k)])
    BY IdsGrow DEF e
  <2>4. ASSUME NEW Q \in Plans, Settled(d, Q), NEW w, NEW m \in Nat
        PROVE  RunTo(d, Cfg(Copies(k + 1, F) \o Q, o, <<>>, w, m, r, <<>>), z)
                 <=> /\ EndOf(e, o, k + 1) <= Len(d)
                     /\ RunTo(d, Cfg(Q, EndOf(e, o, k + 1), <<>>, FALSE, 0, r,
                                      idsOf(d, o, k + 1)), z)
    <3> DEFINE p == EndOf(e, o, k)
               w1 == Marked(d, p + Word)
               n1 == CountAt(d, parts(d)[p].inputs)
    <3>1. (Copies(k, F) \o F) \o Q = Copies(k, F) \o (F \o Q)
      <4>1. F \in Seq(FieldSet) /\ Q \in Seq(FieldSet) /\ Copies(k, F) \in Seq(FieldSet)
        BY <1>2, <2>1 DEF Plans
      <4> QED
        BY <4>1, JoinOnce
    <3>2. F \o Q \in Plans /\ Settled(d, F \o Q)
      BY <1>2, TransactionSettled DEF F
    <3>3. RunTo(d, Cfg(Copies(k, F) \o (F \o Q), o, <<>>, w, m, r, <<>>), z)
            <=> /\ p <= Len(d)
                /\ RunTo(d, Cfg(F \o Q, p, <<>>, FALSE, 0, r, idsOf(d, o, k)), z)
      BY <1>5, <2>4, <3>2, Zenon
    <3>4. p \in Nat /\ 0 \in Nat
      BY <2>2
    <3>5. n1 \in Nat /\ e[p] \in Nat /\ p <= e[p]
      <4>1. parts(d)[p].inputs = AfterMarker(d, p + Word)
        BY <3>4, PartsAre
      <4>2. AfterMarker(d, p + Word) \in Nat
        BY <3>4, WidthsAre DEF AfterMarker
      <4> HIDE DEF p
      <4>3. CountAt(d, AfterMarker(d, p + Word)) \in Nat
        BY <4>2, CountIs
      <4> QED
        BY <1>1, <3>4, <4>1, <4>3
    <3> HIDE DEF p, w1, n1
    <3>6. RunTo(d, Cfg(F \o Q, p, <<>>, FALSE, 0, r, idsOf(d, o, k)), z)
            <=> /\ e[p] <= Len(d)
                /\ RunTo(d, Cfg(Q, e[p], <<>>, w1, n1, r,
                                Append(idsOf(d, o, k), transactionId(d)[p])), z)
      BY <3>4, TransactionPeels DEF F, e, w1, n1
    <3>7. RunTo(d, Cfg(Q, e[p], <<>>, w1, n1, r, Append(idsOf(d, o, k), transactionId(d)[p])), z)
            <=> RunTo(d, Cfg(Q, e[p], <<>>, FALSE, 0, r,
                             Append(idsOf(d, o, k), transactionId(d)[p])), z)
      <4>1. e[p] \in Nat /\ n1 \in Nat /\ 0 \in Nat
        BY <3>5
      <4>2. \A w2, x : RunTo(d, Cfg(Q, e[p], <<>>, w1, n1, r, x), z)
                        <=> RunTo(d, Cfg(Q, e[p], <<>>, w2, 0, r, x), z)
        BY <2>4, <4>1, SettledHere
      <4> QED
        BY <4>2, Zenon
    <3>8. e[p] <= Len(d) => p <= Len(d)
      BY <1>3, <3>4, <3>5
    <3>9. RunTo(d, Cfg(Copies(k + 1, F) \o Q, o, <<>>, w, m, r, <<>>), z)
            <=> /\ e[p] <= Len(d)
                /\ RunTo(d, Cfg(Q, e[p], <<>>, FALSE, 0, r,
                                Append(idsOf(d, o, k), transactionId(d)[p])), z)
      BY <2>1, <3>1, <3>3, <3>6, <3>7, <3>8, Zenon
    <3> QED
      BY <2>2, <2>3, <3>9, Zenon DEF p
  <2> QED
    BY <2>4
<1> HIDE DEF P
<1>6. ASSUME NEW k \in T
      PROVE  k + 1 \in T
  BY <1>5
<1>7. T \in SUBSET Nat
  OBVIOUS
<1> HIDE DEF T
<1>8. n \in T
  BY <1>4, <1>6, <1>7, SetInduction
<1> QED
  BY <1>8, Zenon DEF T, P, F, e

-----------------------------------------------------------------------------
(* A block.                                                                *)

\* The fields of a block as they follow one another.
LEMMA BlockFieldsAre ==
  /\ EndPlan \in Plans /\ BlockFields \in Plans
  /\ BlockFields =
       Cons(Field("magic", Word, FALSE), Cons(Field("fixed", Word, FALSE),
       Cons(Field("bytes", Word, FALSE), Cons(Field("bytes", Wide, FALSE),
       Cons(Field("merkle", Wide, FALSE), Cons(Field("fixed", Word, FALSE),
       Cons(Field("bytes", Word, FALSE), Cons(Field("bytes", Word, FALSE),
       Cons(Step("header"), Cons(Count("transactions", FALSE), EndPlan))))))))))
<1> DEFINE a == Field("magic", Word, FALSE)
           b == Field("fixed", Word, FALSE)
           c == Field("bytes", Word, FALSE)
           e == Field("bytes", Wide, FALSE)
           g == Field("merkle", Wide, FALSE)
           h == Step("header")
           k == Count("transactions", FALSE)
           x == Step("block")
           p11 == <<x>>
           p10 == <<k, x>>
           p9 == <<h, k, x>>
           p8 == <<c, h, k, x>>
           p7 == <<c, c, h, k, x>>
           p6 == <<b, c, c, h, k, x>>
           p5 == <<g, b, c, c, h, k, x>>
           p4 == <<e, g, b, c, c, h, k, x>>
           p3 == <<c, e, g, b, c, c, h, k, x>>
           p2 == <<b, c, e, g, b, c, c, h, k, x>>
           p1 == <<a, b, c, e, g, b, c, c, h, k, x>>
<1>1. /\ a \in FieldSet /\ b \in FieldSet /\ c \in FieldSet /\ e \in FieldSet
      /\ g \in FieldSet /\ h \in FieldSet /\ k \in FieldSet /\ x \in FieldSet
  BY WidthsAre DEF Step, Fixed, Count, Field, FieldSet, Ops, Counts
<1>2. p1 = BlockFields /\ p11 = EndPlan
  BY DEF BlockFields, EndPlan, Header
<1> HIDE DEF a, b, c, e, g, h, k, x
<1>3. /\ p11 \in Plans /\ p10 \in Plans /\ p9 \in Plans /\ p8 \in Plans /\ p7 \in Plans
      /\ p6 \in Plans /\ p5 \in Plans /\ p4 \in Plans /\ p3 \in Plans /\ p2 \in Plans
      /\ p1 \in Plans
  BY <1>1 DEF Plans
<1>4. p10 = Cons(k, p11)
  BY <1>1, <1>3, TwoAre DEF Cons, Plans
<1>5. p9 = Cons(h, p10)
  BY <1>1, <1>3, PrefixedIs DEF Cons, Plans
<1>6. p8 = Cons(c, p9)
  BY <1>1, <1>3, PrefixedIs DEF Cons, Plans
<1>7. p7 = Cons(c, p8)
  BY <1>1, <1>3, PrefixedIs DEF Cons, Plans
<1>8. p6 = Cons(b, p7)
  BY <1>1, <1>3, PrefixedIs DEF Cons, Plans
<1>9. p5 = Cons(g, p6)
  BY <1>1, <1>3, PrefixedIs DEF Cons, Plans
<1>10. p4 = Cons(e, p5)
  BY <1>1, <1>3, PrefixedIs DEF Cons, Plans
<1>11. p3 = Cons(c, p4)
  BY <1>1, <1>3, PrefixedIs DEF Cons, Plans
<1>12. p2 = Cons(b, p3)
  BY <1>1, <1>3, PrefixedIs DEF Cons, Plans
<1>13. p1 = Cons(a, p2)
  BY <1>1, <1>3, PrefixedIs DEF Cons, Plans
<1> HIDE DEF p1, p2, p3, p4, p5, p6, p7, p8, p9, p10, p11
<1>14. BlockFields =
         Cons(a, Cons(b, Cons(c, Cons(e, Cons(g, Cons(b, Cons(c, Cons(c,
           Cons(h, Cons(k, EndPlan))))))))))
  BY <1>2, <1>4, <1>5, <1>6, <1>7, <1>8, <1>9, <1>10, <1>11, <1>12, <1>13, Zenon
<1> QED
  BY <1>2, <1>3, <1>14, Zenon DEF a, b, c, e, g, h, k

\* What is read of the block at o.
BlockRead(d, o) == <<blockEnd(d)[o], Cut(d, rootAt(o), Wide), Transactions(d, o)>>

\* The transactions of a block, with their count.
LEMMA CountedTransactionsPeel ==
  ASSUME NEW d, IsData(d), NEW o \in Nat, NEW w, NEW m \in Nat, NEW r, NEW z
  PROVE  LET n == CountAt(d, o)
             e == EndOf(transactionEnd(d), o + 1, n)
         IN /\ RunTo(d, Cfg(Cons(Count("transactions", FALSE), EndPlan), o, <<>>, w, m, r, <<>>), z)
                 <=> e <= Len(d) /\ z = <<e, r, idsOf(d, o + 1, n)>>
            /\ e \in Nat /\ o + 1 <= e
<1> DEFINE n == CountAt(d, o)
           e == EndOf(transactionEnd(d), o + 1, n)
           p == o + 1
           t == idsOf(d, p, n)
<1>1. Len(d) \in Nat /\ n \in Nat /\ p \in Nat /\ (o < Len(d) <=> p <= Len(d)) /\ 0 \in Nat
  BY CountIs DEF IsData, IsSeq
<1>2. EndPlan \in Plans
  BY BlockFieldsAre
<1>3. e \in Nat /\ p <= e
  <2>1. transactionEnd(d) \in [Nat -> Nat] /\ \A q \in Nat : q <= transactionEnd(d)[q]
    BY TransactionEndIs
  <2> HIDE DEF n
  <2> QED
    BY <1>1, <2>1, EndIsAfter
<1>4. RunTo(d, Cfg(Cons(Count("transactions", FALSE), EndPlan), o, <<>>, w, m, r, <<>>), z)
        <=> o < Len(d) /\ RunTo(d, Cfg(Copies(n, TransactionFields) \o EndPlan, p, <<>>, w, m, r,
                                        <<>>), z)
  <2>1. /\ "transactions" \in Counts /\ Counted("transactions", n) = Copies(n, TransactionFields)
        /\ (IF "transactions" = "inputs" THEN n ELSE m) = m
    BY DEF Counts, Counted
  <2>2. RunTo(d, Cfg(Cons(Count("transactions", FALSE), EndPlan), o, <<>>, w, m, r, <<>>), z)
          <=> o < Len(d) /\ RunTo(d, Cfg(Counted("transactions", n) \o EndPlan, p, <<>>, w,
                IF "transactions" = "inputs" THEN n ELSE m, r, <<>>), z)
    BY <1>2, <2>1, PeelCountAside
  <2> HIDE DEF n, p
  <2> QED
    BY <2>1, <2>2, Zenon
<1>5. RunTo(d, Cfg(EndPlan, e, <<>>, FALSE, 0, r, t), z) <=> z = <<e, r, t>>
  <2> DEFINE c == Cfg(EndPlan, e, <<>>, FALSE, 0, r, t)
  <2>1. c.plan = EndPlan /\ c.offset = e /\ c.root = r /\ c.txs = t
    BY DEF Cfg
  <2> HIDE DEF c, e, t
  <2>2. RunTo(d, c, z) <=> z = <<c.offset, c.root, c.txs>>
    BY <2>1, RunEnds
  <2> QED
    BY <2>1, <2>2 DEF c
<1> DEFINE Peeled ==
             RunTo(d, Cfg(Cons(Count("transactions", FALSE), EndPlan), o, <<>>, w, m, r, <<>>), z)
               <=> e <= Len(d) /\ z = <<e, r, t>>
<1>6. ASSUME p <= Len(d)
      PROVE  Peeled
  <2>1. Settled(d, EndPlan)
    BY EndSettled
  <2>2. RunTo(d, Cfg(Copies(n, TransactionFields) \o EndPlan, p, <<>>, w, m, r, <<>>), z)
          <=> e <= Len(d) /\ RunTo(d, Cfg(EndPlan, e, <<>>, FALSE, 0, r, t), z)
    <3>1. \A Q \in Plans : Settled(d, Q) =>
            \A v : \A l \in Nat :
              RunTo(d, Cfg(Copies(n, TransactionFields) \o Q, p, <<>>, v, l, r, <<>>), z)
                <=> /\ EndOf(transactionEnd(d), p, n) <= Len(d)
                    /\ RunTo(d, Cfg(Q, EndOf(transactionEnd(d), p, n), <<>>, FALSE, 0, r, t), z)
      <4> HIDE DEF n, p
      <4> QED
        BY <1>1, <1>6, TransactionsPeel
    <3> HIDE DEF n, p, t
    <3> QED
      BY <1>2, <2>1, <3>1, Zenon DEF p
  <2> HIDE DEF e, t, n, p
  <2> QED
    BY <1>1, <1>4, <1>5, <1>6, <2>2, Zenon
<1>7. ASSUME ~(p <= Len(d))
      PROVE  Peeled
  <2>1. ~(e <= Len(d))
    <3> HIDE DEF e, p
    <3> QED
      BY <1>1, <1>3, <1>7
  <2> HIDE DEF e, t, n, p
  <2> QED
    BY <1>1, <1>4, <1>7, <2>1, Zenon
<1>8. Peeled /\ e \in Nat /\ p <= e
  <2> HIDE DEF Peeled, e, p
  <2> QED
    BY <1>3, <1>6, <1>7
<1> QED
  BY <1>8

\* The fields of a block are read to its end if all of it is there and it starts
\* with the magic bytes, and then what is read is what the block says.
LEMMA BlockPeels ==
  ASSUME NEW d, IsData(d), NEW o \in Nat, NEW s, NEW w, NEW m \in Nat, NEW r, NEW z
  PROVE  RunTo(d, Cfg(BlockFields, o, s, w, m, r, <<>>), z)
           <=> IsComplete(d, o) /\ z = BlockRead(d, o)
<1> DEFINE o0 == o
           o1 == o0 + Word
           o2 == o1 + Word
           o3 == o2 + Word
           o4 == o3 + Wide
           o5 == o4 + Wide
           o6 == o5 + Word
           o7 == o6 + Word
           o8 == o7 + Word
           q9 == Cons(Count("transactions", FALSE), EndPlan)
           q8 == Cons(Step("header"), q9)
           q7 == Cons(Field("bytes", Word, FALSE), q8)
           q6 == Cons(Field("bytes", Word, FALSE), q7)
           q5 == Cons(Field("fixed", Word, FALSE), q6)
           q4 == Cons(Field("merkle", Wide, FALSE), q5)
           q3 == Cons(Field("bytes", Wide, FALSE), q4)
           q2 == Cons(Field("bytes", Word, FALSE), q3)
           q1 == Cons(Field("fixed", Word, FALSE), q2)
           q0 == Cons(Field("magic", Word, FALSE), q1)
           top == Cut(d, o4, Wide)
           n == CountAt(d, o8)
           e == EndOf(transactionEnd(d), o8 + 1, n)
           Run(q, p, y, x) == RunTo(d, Cfg(q, p, y, w, m, x, <<>>), z)
<1>1. /\ Len(d) \in Nat /\ Word \in Nat /\ Wide \in Nat
      /\ BlockFields = q0
  BY WidthsAre, BlockFieldsAre DEF IsData, IsSeq
<1>2. /\ o0 \in Nat /\ o1 \in Nat /\ o2 \in Nat /\ o3 \in Nat /\ o4 \in Nat
      /\ o5 \in Nat /\ o6 \in Nat /\ o7 \in Nat /\ o8 \in Nat
      /\ o4 = rootAt(o) /\ o8 = transactionsAt(o)
  BY <1>1 DEF rootAt, transactionsAt
<1>3. \A f \in FieldSet, P \in Plans : Cons(f, P) \in Plans
  BY ConsIs
<1>4. /\ Field("magic", Word, FALSE) \in FieldSet /\ Field("fixed", Word, FALSE) \in FieldSet
      /\ Field("bytes", Word, FALSE) \in FieldSet /\ Field("bytes", Wide, FALSE) \in FieldSet
      /\ Field("merkle", Wide, FALSE) \in FieldSet
      /\ Step("header") \in FieldSet /\ Count("transactions", FALSE) \in FieldSet
  BY <1>1 DEF Step, Count, Field, FieldSet, Ops, Counts
<1>5. q9 \in Plans
  BY <1>3, <1>4, BlockFieldsAre
<1> HIDE DEF q9
<1>6. q8 \in Plans
  BY <1>3, <1>4, <1>5
<1> HIDE DEF q8
<1>7. q7 \in Plans
  BY <1>3, <1>4, <1>6
<1> HIDE DEF q7
<1>8. q6 \in Plans
  BY <1>3, <1>4, <1>7
<1> HIDE DEF q6
<1>9. q5 \in Plans
  BY <1>3, <1>4, <1>8
<1> HIDE DEF q5
<1>10. q4 \in Plans
  BY <1>3, <1>4, <1>9
<1> HIDE DEF q4
<1>11. q3 \in Plans
  BY <1>3, <1>4, <1>10
<1> HIDE DEF q3
<1>12. q2 \in Plans
  BY <1>3, <1>4, <1>11
<1> HIDE DEF q2
<1>13. q1 \in Plans
  BY <1>3, <1>4, <1>12
<1> HIDE DEF q1
<1>14. Run(q0, o0, s, r) <=> (o0 + Word <= Len(d) /\ HasMagic(d, o0)) /\ Run(q1, o0 + Word, s, r)
  BY <1>1, <1>2, <1>13, PeelMagic DEF q0
<1>15. Run(q1, o1, s, r) <=> o1 + Word <= Len(d) /\ Run(q2, o1 + Word, s, r)
  BY <1>1, <1>2, <1>12, PeelFixedAside DEF q1
<1>16. Run(q2, o2, s, r) <=> o2 + Word < Len(d) /\ Run(q3, o2 + Word, s, r)
  BY <1>1, <1>2, <1>11, PeelBytesAside DEF q2
<1>17. Run(q3, o3, s, r) <=> o3 + Wide < Len(d) /\ Run(q4, o3 + Wide, s, r)
  BY <1>1, <1>2, <1>10, PeelBytesAside DEF q3
<1>18. Run(q4, o4, s, r) <=> o4 + Wide < Len(d) /\ Run(q5, o4 + Wide, s, top)
  BY <1>1, <1>2, <1>9, PeelMerkle DEF q4
<1>19. Run(q5, o5, s, top) <=> o5 + Word <= Len(d) /\ Run(q6, o5 + Word, s, top)
  BY <1>1, <1>2, <1>8, PeelFixedAside DEF q5
<1>20. Run(q6, o6, s, top) <=> o6 + Word < Len(d) /\ Run(q7, o6 + Word, s, top)
  BY <1>1, <1>2, <1>7, PeelBytesAside DEF q6
<1>21. Run(q7, o7, s, top) <=> o7 + Word < Len(d) /\ Run(q8, o7 + Word, s, top)
  BY <1>1, <1>2, <1>6, PeelBytesAside DEF q7
<1>22. Run(q8, o8, s, top) <=> TRUE /\ Run(q9, o8, <<>>, top)
  BY <1>2, <1>5, PeelHeader DEF q8
<1>23. /\ Run(q9, o8, <<>>, top) <=> e <= Len(d) /\ z = <<e, top, idsOf(d, o8 + 1, n)>>
       /\ e \in Nat /\ o8 + 1 <= e
  <2> DEFINE l == o8
  <2>1. l \in Nat
    BY <1>2
  <2> HIDE DEF l, top
  <2>2. /\ RunTo(d, Cfg(Cons(Count("transactions", FALSE), EndPlan), l, <<>>, w, m, top, <<>>), z)
             <=> EndOf(transactionEnd(d), l + 1, CountAt(d, l)) <= Len(d)
                   /\ z = <<EndOf(transactionEnd(d), l + 1, CountAt(d, l)), top,
                            idsOf(d, l + 1, CountAt(d, l))>>
        /\ EndOf(transactionEnd(d), l + 1, CountAt(d, l)) \in Nat
        /\ l + 1 <= EndOf(transactionEnd(d), l + 1, CountAt(d, l))
    BY <2>1, CountedTransactionsPeel
  <2> QED
    BY <2>2, Zenon DEF q9, l
<1>24. e <= Len(d) =>
         /\ o0 + Word <= Len(d) /\ o1 + Word <= Len(d) /\ o2 + Word < Len(d) /\ o3 + Wide < Len(d)
         /\ o4 + Wide < Len(d) /\ o5 + Word <= Len(d) /\ o6 + Word < Len(d) /\ o7 + Word < Len(d)
  <2> HIDE DEF e
  <2> QED
    BY <1>1, <1>2, <1>23
<1>25. Run(q0, o0, s, r) <=> e <= Len(d) /\ HasMagic(d, o0) /\ z = <<e, top, idsOf(d, o8 + 1, n)>>
  <2> HIDE DEF e, n, Run, top, q0
  <2> QED
    BY <1>14, <1>15, <1>16, <1>17, <1>18, <1>19, <1>20, <1>21, <1>22, <1>23, <1>24, Zenon
<1>26. blockEnd(d)[o] = e
  BY <1>2 DEF blockEnd
<1>27. idsOf(d, o8 + 1, n) = Transactions(d, o)
  BY <1>2 DEF idsOf, Transactions
<1>28. top = Cut(d, rootAt(o), Wide)
  BY <1>2
<1> HIDE DEF e, n, top, q0
<1> QED
  BY <1>1, <1>25, <1>26, <1>27, <1>28, Zenon DEF IsComplete, BlockRead

-----------------------------------------------------------------------------
(* The plan: what a reader with p.err set comes to is a test of it, or nothing
   is left that can fail.                                                  *)

Stops == {"header", "transaction"}

\* The fields of a plan before the last two.
Inner ==
  {f \in FieldSet : /\ f.op \notin {"block", "transactions"}
                    /\ f.op = "magic" => f.n = Word
                    /\ f.op \in Counts => f.n = 1}

Rest == {EndPlan, Cons(Count("transactions", FALSE), EndPlan)}

Stopping(u) == \E b \in Seq(Inner) : \E op \in Stops : u = b \o <<Step(op)>>

\* A plan: whatever may fail in it is followed by a test of p.err.
PlannedStop(p) == \E u : \E v \in Rest : Stopping(u) /\ p = u \o v
Planned(p) == PlannedStop(p) \/ p \in Rest

\* The fields of a plan before its end.
LEMMA InnerAre ==
  /\ Inner \subseteq FieldSet /\ Rest \subseteq Plans
  /\ \A op \in Stops : Step(op) \in Inner /\ <<Step(op)>> \in Seq(Inner)
  /\ Seq(Inner) \subseteq Seq(FieldSet)
<1>1. Inner \subseteq FieldSet
  BY DEF Inner
<1>2. Rest \subseteq Plans
  <2>1. EndPlan \in Plans
    BY BlockFieldsAre
  <2>2. Count("transactions", FALSE) \in FieldSet
    BY FieldIs DEF Count, FieldSet, Ops, Counts
  <2>3. Cons(Count("transactions", FALSE), EndPlan) \in Plans
    BY <2>1, <2>2, ConsIs
  <2> QED
    BY <2>1, <2>3 DEF Rest
<1>3. ASSUME NEW op \in Stops
      PROVE  Step(op) \in Inner /\ <<Step(op)>> \in Seq(Inner)
  <2>1. Step(op) \in Inner
    BY DEF Stops, Step, Inner, FieldSet, Ops, Counts
  <2> QED
    BY <2>1
<1>4. Seq(Inner) \subseteq Seq(FieldSet)
  BY <1>1
<1> QED
  BY <1>1, <1>2, <1>3, <1>4

\* The first element of a sequence that starts with another.
LEMMA HeadTailOfJoin ==
  ASSUME NEW C, NEW a \in Seq(C), a # <<>>, NEW b \in Seq(C)
  PROVE  /\ a \o b # <<>> /\ Head(a \o b) = Head(a) /\ Tail(a \o b) = Tail(a) \o b
         /\ Head(a) \in C /\ Tail(a) \in Seq(C)
<1>1. Head(a) \in C /\ Tail(a) \in Seq(C)
  BY HeadTailProperties
<1>2. a \o b # <<>> /\ Head(a \o b) = Head(a)
  OBVIOUS
<1>3. Tail(a \o b) = Tail(a) \o b
  OBVIOUS
<1> QED
  BY <1>1, <1>2, <1>3

\* Fields before fields that end with a test.
LEMMA StoppingBefore ==
  ASSUME NEW A \in Seq(Inner), NEW u, Stopping(u)
  PROVE  Stopping(A \o u) /\ u \in Seq(Inner)
<1>1. PICK b \in Seq(Inner) : \E op \in Stops : u = b \o <<Step(op)>>
  BY DEF Stopping
<1>2. PICK op \in Stops : u = b \o <<Step(op)>>
  BY <1>1
<1>3. <<Step(op)>> \in Seq(Inner)
  BY InnerAre
<1>4. A \o (b \o <<Step(op)>>) = (A \o b) \o <<Step(op)>> /\ A \o b \in Seq(Inner)
  BY <1>3, JoinOnce, JoinType
<1>5. Stopping(A \o u)
  BY <1>2, <1>4 DEF Stopping
<1> QED
  BY <1>2, <1>3, <1>5, JoinType

\* Joining lists of fields is associative.
LEMMA JoinFields ==
  \A x, y, w \in Seq(FieldSet) : x \o (y \o w) = (x \o y) \o w
BY JoinOnce

\* What follows the first field of a plan that can still fail.
LEMMA PlannedStopIs ==
  ASSUME NEW p, PlannedStop(p)
  PROVE  /\ p \in Plans /\ p # <<>> /\ Head(p) \in Inner
         /\ Head(p).op \in Stops => Planned(Tail(p))
         /\ Head(p).op \notin Stops =>
              PlannedStop(Tail(p)) /\ \A A \in Seq(Inner) : PlannedStop(A \o Tail(p))
<1>1. PICK u : \E v \in Rest : Stopping(u) /\ p = u \o v
  BY DEF PlannedStop
<1>2. PICK v \in Rest : Stopping(u) /\ p = u \o v
  BY <1>1
<1>3. PICK b \in Seq(Inner) : \E op \in Stops : u = b \o <<Step(op)>>
  BY <1>2 DEF Stopping
<1>4. PICK op \in Stops : u = b \o <<Step(op)>>
  BY <1>3
<1>5. /\ Step(op) \in Inner /\ <<Step(op)>> \in Seq(Inner) /\ <<Step(op)>> # <<>>
      /\ Head(<<Step(op)>>) = Step(op) /\ Tail(<<Step(op)>>) = <<>>
      /\ Step(op).op = op
  BY InnerAre DEF Step
<1>6. v \in Seq(FieldSet) /\ b \in Seq(FieldSet) /\ <<Step(op)>> \in Seq(FieldSet)
      /\ u \in Seq(FieldSet)
  <2>1. v \in Seq(FieldSet) /\ b \in Seq(FieldSet) /\ <<Step(op)>> \in Seq(FieldSet)
    BY <1>5, InnerAre DEF Plans
  <2> QED
    BY <1>4, <2>1, JoinType
<1>7. p \in Plans
  BY <1>2, <1>6, JoinType DEF Plans
<1>8. CASE b = <<>>
  <2>1. u = <<Step(op)>>
    BY <1>4, <1>6, <1>8
  <2>2. p # <<>> /\ Head(p) = Step(op) /\ Tail(p) = <<>> \o v
    BY <1>2, <1>5, <1>6, <2>1, HeadTailOfJoin
  <2>3. Tail(p) = v
    BY <1>6, <2>2
  <2>4. Planned(Tail(p)) /\ Head(p).op \in Stops /\ Head(p) \in Inner
    BY <1>2, <1>4, <1>5, <2>2, <2>3 DEF Planned
  <2> QED
    BY <1>7, <2>2, <2>4
<1>9. CASE b # <<>>
  <2> DEFINE q == Tail(b) \o <<Step(op)>>
  <2>1. Head(b) \in Inner /\ Tail(b) \in Seq(Inner)
    BY <1>9, HeadTailProperties
  <2>2. u # <<>> /\ Head(u) = Head(b) /\ Tail(u) = q
    BY <1>4, <1>6, <1>9, HeadTailOfJoin
  <2>4. Stopping(q)
    BY <2>1 DEF Stopping
  <2> HIDE DEF q
  <2>31. /\ u \o v # <<>> /\ Head(u \o v) = Head(u) /\ Tail(u \o v) = Tail(u) \o v
         /\ Head(u) \in FieldSet /\ Tail(u) \in Seq(FieldSet)
    BY <1>6, <2>2, HeadTailOfJoin
  <2>3. p # <<>> /\ Head(p) = Head(u) /\ Tail(p) = q \o v
    BY <1>2, <2>2, <2>31
  <2>5. PlannedStop(Tail(p))
    BY <2>3, <2>4 DEF PlannedStop
  <2>6. ASSUME NEW A \in Seq(Inner)
        PROVE  PlannedStop(A \o Tail(p))
    <3>1. Stopping(A \o q) /\ q \in Seq(Inner)
      BY <2>4, StoppingBefore
    <3>2. A \in Seq(FieldSet) /\ q \in Seq(FieldSet)
      BY <3>1, InnerAre
    <3>3. v \in Seq(FieldSet)
      BY <1>6
    <3>4. A \o (q \o v) = (A \o q) \o v
      BY <3>2, <3>3, JoinFields, ZenonT(60)
    <3> QED
      BY <2>3, <3>1, <3>4 DEF PlannedStop
  <2>7. Planned(Tail(p))
    BY <2>5 DEF Planned
  <2> QED
    BY <1>7, <2>1, <2>2, <2>3, <2>5, <2>6, <2>7
<1> QED
  BY <1>8, <1>9

\* What is counted can fail and is inside a transaction.
LEMMA CountedInner ==
  ASSUME NEW n \in Nat
  PROVE  /\ TransactionFields \in Seq(Inner)
         /\ \A what \in Counts \ {"transactions"} : Counted(what, n) \in Seq(Inner)
         /\ Copies(n, <<Count("witnesses of input", FALSE)>>) \in Seq(Inner)
<1>1. /\ \A k \in Nat : Fixed(k) \in Inner /\ Bytes(k) \in Inner /\ Header(k) \in Inner
      /\ \A what \in Counts \ {"transactions"}, b \in BOOLEAN : Count(what, b) \in Inner
      /\ \A op \in {"marker", "witnesses", "transaction"} : Step(op) \in Inner
  BY DEF Inner, Fixed, Bytes, Header, Field, Count, Step, FieldSet, Ops, Counts
<1>2. /\ Word \in Nat /\ Wide \in Nat /\ Amount \in Nat
      /\ {"inputs", "outputs", "script", "item", "witnesses of input"}
           \subseteq Counts \ {"transactions"}
  BY WidthsAre DEF Counts
<1>11. /\ \A a \in Inner : <<a>> \in Seq(Inner)
       /\ \A a, b \in Inner : <<a, b>> \in Seq(Inner)
       /\ \A a, b, c, e \in Inner : <<a, b, c, e>> \in Seq(Inner)
       /\ \A a, b, c, e, f, g, h \in Inner : <<a, b, c, e, f, g, h>> \in Seq(Inner)
  OBVIOUS
<1>12. /\ Fixed(Word) \in Inner /\ Fixed(Amount) \in Inner
       /\ Bytes(Wide) \in Inner /\ Bytes(Word) \in Inner
  BY <1>1, <1>2
<1>13. /\ Bytes(n) \in Inner /\ Header(n) \in Inner
       /\ Step("marker") \in Inner /\ Step("witnesses") \in Inner /\ Step("transaction") \in Inner
  BY <1>1
<1>14. /\ Count("inputs", TRUE) \in Inner /\ Count("outputs", TRUE) \in Inner
       /\ Count("script", TRUE) \in Inner /\ Count("item", FALSE) \in Inner
       /\ Count("witnesses of input", FALSE) \in Inner
  BY <1>1, <1>2, Zenon
<1>3. TransactionFields \in Seq(Inner)
  BY <1>11, <1>12, <1>13, <1>14, Zenon DEF TransactionFields
<1>4. InputFields \in Seq(Inner) /\ OutputFields \in Seq(Inner)
  BY <1>11, <1>12, <1>14, Zenon DEF InputFields, OutputFields
<1>5. /\ <<Count("item", FALSE)>> \in Seq(Inner)
      /\ <<Count("witnesses of input", FALSE)>> \in Seq(Inner)
      /\ <<Bytes(n)>> \in Seq(Inner) /\ <<Header(n)>> \in Seq(Inner)
  BY <1>11, <1>13, <1>14, Zenon
<1>6. \A F \in Seq(Inner) : Copies(n, F) \in Seq(Inner)
  BY CopiesType
<1>7. ASSUME NEW what \in Counts \ {"transactions"}
      PROVE  Counted(what, n) \in Seq(Inner)
  <2>1. what \in {"inputs", "outputs", "script", "item", "witnesses of input"}
    BY DEF Counts
  <2>2. CASE what = "inputs"
    BY <1>4, <1>6, <2>2 DEF Counted
  <2>3. CASE what = "outputs"
    BY <1>4, <1>6, <2>3 DEF Counted
  <2>4. CASE what = "script"
    BY <1>5, <2>4 DEF Counted
  <2>5. CASE what = "item"
    BY <1>5, <2>5 DEF Counted
  <2>6. CASE what = "witnesses of input"
    BY <1>5, <1>6, <2>6 DEF Counted
  <2> QED
    BY <2>1, <2>2, <2>3, <2>4, <2>5, <2>6
<1> QED
  BY <1>3, <1>5, <1>6, <1>7

\* The plans in which no test of p.err is left.
LEMMA RestIs ==
  ASSUME NEW v \in Rest
  PROVE  /\ v \in Plans /\ v # <<>>
         /\ v = EndPlan => Head(v).op = "block" /\ Tail(v) = <<>>
         /\ v # EndPlan => Head(v) = Count("transactions", FALSE) /\ Tail(v) = EndPlan
<1>1. EndPlan \in Plans
  BY BlockFieldsAre
<1>2. CASE v = EndPlan
  BY <1>1, <1>2 DEF EndPlan, Step
<1>3. CASE v # EndPlan
  <2>1. v = Cons(Count("transactions", FALSE), EndPlan)
    BY <1>3 DEF Rest
  <2>2. Count("transactions", FALSE) \in FieldSet
    BY DEF Count, FieldSet, Ops, Counts
  <2> QED
    BY <1>1, <1>3, <2>1, <2>2, ConsIs
<1> QED
  BY <1>2, <1>3

\* What a plan says of its first field.
LEMMA PlannedIs ==
  ASSUME NEW p, Planned(p)
  PROVE  /\ p \in Plans /\ p # <<>> /\ Head(p) \in FieldSet
         /\ p # EndPlan => Head(p).op # "block"
         /\ Head(p).op = "transactions" => Tail(p) = EndPlan
         /\ Head(p).op = "magic" => Head(p).n = Word
         /\ Head(p).op \in Counts => Head(p).n = 1
         /\ p = EndPlan \/ Head(p).op = "transactions" \/ PlannedStop(p)
<1>1. CASE PlannedStop(p)
  <2>1. p \in Plans /\ p # <<>> /\ Head(p) \in Inner
    BY <1>1, PlannedStopIs
  <2> QED
    BY <1>1, <2>1 DEF Inner
<1>2. CASE p \in Rest
  <2>1. /\ p \in Plans /\ p # <<>>
        /\ p = EndPlan => Head(p).op = "block" /\ Tail(p) = <<>>
        /\ p # EndPlan => Head(p) = Count("transactions", FALSE) /\ Tail(p) = EndPlan
    BY <1>2, RestIs
  <2>2. Head(p) \in FieldSet
    BY <2>1, HeadTailProperties DEF Plans
  <2>3. /\ Count("transactions", FALSE).op = "transactions"
        /\ Count("transactions", FALSE).n = 1
    BY DEF Count
  <2>4. CASE p = EndPlan
    BY <2>1, <2>2, <2>4 DEF Counts
  <2>5. CASE p # EndPlan
    BY <2>1, <2>2, <2>3, <2>5 DEF Counts
  <2> QED
    BY <2>4, <2>5
<1> QED
  BY <1>1, <1>2 DEF Planned

\* A field before a plan.
LEMMA ConsPlanned ==
  ASSUME NEW f \in Inner, NEW p, PlannedStop(p)
  PROVE  PlannedStop(Cons(f, p))
<1>1. PICK u : \E v \in Rest : Stopping(u) /\ p = u \o v
  BY DEF PlannedStop
<1>2. PICK v \in Rest : Stopping(u) /\ p = u \o v
  BY <1>1
<1>3. <<f>> \in Seq(Inner)
  OBVIOUS
<1>4. Stopping(<<f>> \o u) /\ u \in Seq(Inner)
  BY <1>2, <1>3, StoppingBefore
<1>5. /\ <<f>> \in Seq(FieldSet) /\ u \in Seq(FieldSet) /\ v \in Seq(FieldSet)
  BY <1>3, <1>4, InnerAre DEF Plans
<1>6. <<f>> \o (u \o v) = (<<f>> \o u) \o v
  BY <1>5, JoinOnce
<1> QED
  BY <1>2, <1>4, <1>6 DEF PlannedStop, Cons

\* The fields of a block are a plan.
LEMMA BlockFieldsPlanned == PlannedStop(BlockFields)
<1>1. /\ Field("magic", Word, FALSE) \in Inner /\ Field("fixed", Word, FALSE) \in Inner
      /\ Field("bytes", Word, FALSE) \in Inner /\ Field("bytes", Wide, FALSE) \in Inner
      /\ Field("merkle", Wide, FALSE) \in Inner
  BY WidthsAre DEF Field, Inner, FieldSet, Ops, Counts
<1> DEFINE v == Cons(Count("transactions", FALSE), EndPlan)
<1>2. v \in Rest
  BY DEF Rest
<1> HIDE DEF v
<1>3. PlannedStop(Cons(Step("header"), v))
  <2>1. <<>> \in Seq(Inner) /\ "header" \in Stops /\ <<Step("header")>> \in Seq(Inner)
    BY InnerAre DEF Stops
  <2>2. <<Step("header")>> = <<>> \o <<Step("header")>>
    BY <2>1
  <2>3. Stopping(<<Step("header")>>)
    BY <2>1, <2>2 DEF Stopping
  <2> QED
    BY <1>2, <2>3 DEF PlannedStop, Cons
<1> QED
  BY <1>1, <1>3, ConsPlanned, BlockFieldsAre DEF v

\* The transactions of a block are a plan.
LEMMA TransactionsPlanned ==
  ASSUME NEW n \in Nat
  PROVE  Planned(Copies(n, TransactionFields) \o EndPlan)
<1>1. TransactionFields \in Seq(Inner)
  BY CountedInner
<1>2. EndPlan \in Rest /\ EndPlan \in Seq(FieldSet)
  BY BlockFieldsAre DEF Rest, Plans
<1>3. CASE n = 0
  <2>1. Copies(n, TransactionFields) = <<>>
    BY <1>1, <1>3, CopiesType
  <2>2. Copies(n, TransactionFields) \o EndPlan = EndPlan
    BY <1>2, <2>1
  <2> QED
    BY <1>2, <2>2 DEF Planned
<1>4. CASE n # 0
  <2> DEFINE k == n - 1
             F == TransactionFields
             b == <<Fixed(Word), Step("marker"), Count("inputs", TRUE), Count("outputs", TRUE),
                    Step("witnesses"), Fixed(Word)>>
             s == Copies(k, F)
  <2>1. k \in Nat /\ n = k + 1
    BY <1>4
  <2>2. s \in Seq(Inner) /\ Copies(n, F) = s \o F
    <3> HIDE DEF k, F
    <3> QED
      BY <1>1, <2>1, CopiesType DEF F
  <2>3. b \in Seq(Inner) /\ F = b \o <<Step("transaction")>>
    <3>1. /\ Fixed(Word) \in Inner /\ Step("marker") \in Inner
          /\ Count("inputs", TRUE) \in Inner /\ Count("outputs", TRUE) \in Inner
          /\ Step("witnesses") \in Inner /\ Step("transaction") \in Inner
      BY WidthsAre DEF Fixed, Field, Count, Step, Inner, FieldSet, Ops, Counts
    <3>2. \A a, c, e, f, g \in Inner : <<a, c, e, f, g, a>> \in Seq(Inner)
      OBVIOUS
    <3>4. b \in Seq(Inner)
      BY <3>1, <3>2, Zenon
    <3> DEFINE x1 == Fixed(Word)
               x2 == Step("marker")
               x3 == Count("inputs", TRUE)
               x4 == Count("outputs", TRUE)
               x5 == Step("witnesses")
               x6 == Step("transaction")
    <3>6. F = <<x1, x2, x3, x4, x5, x1, x6>> /\ b = <<x1, x2, x3, x4, x5, x1>>
      BY DEF TransactionFields
    <3> HIDE DEF F, b, x1, x2, x3, x4, x5, x6
    <3>7. F = b \o <<x6>>
      BY <3>6
    <3>5. F = b \o <<Step("transaction")>>
      BY <3>7 DEF x6
    <3> QED
      BY <3>4, <3>5
  <2> HIDE DEF b, s
  <2>4. "transaction" \in Stops
    BY DEF Stops
  <2>5. Stopping(F)
    BY <2>3, <2>4 DEF Stopping
  <2>6. Stopping(Copies(n, F))
    <3> HIDE DEF F
    <3> QED
      BY <2>2, <2>5, StoppingBefore
  <2> QED
    BY <1>2, <2>6 DEF PlannedStop, Planned
<1> QED
  BY <1>3, <1>4

-----------------------------------------------------------------------------
(* The reader in a block of the data.                                      *)

\* From c, what the reader has of the block at b, it gets to the end of the
\* block exactly if all of the block is there.
Leads(d, b, c) ==
  /\ c.offset \in Nat
  /\ \A z : RunTo(d, c, z) <=> IsComplete(d, b) /\ z = BlockRead(d, b)
  /\ HasMagic(d, b) \/ (c.plan = BlockFields /\ c.offset = b)

\* A block ends after it starts.
LEMMA BlockEndIs ==
  ASSUME NEW d, IsData(d)
  PROVE  blockEnd(d) \in [Nat -> Nat] /\ \A o \in Nat : o < blockEnd(d)[o]
<1>1. ASSUME NEW o \in Nat
      PROVE  LET end == EndOf(transactionEnd(d), transactionsAt(o) + 1,
                              CountAt(d, transactionsAt(o)))
             IN end \in Nat /\ o < end
  <2> DEFINE p == transactionsAt(o)
             e == EndOf(transactionEnd(d), p + 1, CountAt(d, p))
  <2>1. p \in Nat /\ o <= p
    BY WidthsAre DEF transactionsAt
  <2>2. e \in Nat /\ p + 1 <= e
    <3>1. transactionEnd(d) \in [Nat -> Nat] /\ \A q \in Nat : q <= transactionEnd(d)[q]
      BY TransactionEndIs
    <3>2. CountAt(d, p) \in Nat /\ p + 1 \in Nat
      <4> HIDE DEF p
      <4> QED
        BY <2>1, CountIs
    <3> HIDE DEF p
    <3> QED
      BY <3>1, <3>2, EndIsAfter
  <2> HIDE DEF e, p
  <2>3. e \in Nat /\ o < e
    BY <2>1, <2>2
  <2> QED
    BY <2>3 DEF e, p
<1> QED
  BY <1>1 DEF blockEnd

\* The reader sets out for the block at o.
LEMMA BlockLeads ==
  ASSUME NEW d, IsData(d), NEW o \in Nat, NEW s, NEW w, NEW m \in Nat, NEW r
  PROVE  Leads(d, o, Cfg(BlockFields, o, s, w, m, r, <<>>))
<1> DEFINE c == Cfg(BlockFields, o, s, w, m, r, <<>>)
<1>1. c.offset = o /\ c.plan = BlockFields
  BY DEF Cfg
<1>2. ASSUME NEW z
      PROVE  RunTo(d, c, z) <=> IsComplete(d, o) /\ z = BlockRead(d, o)
  BY BlockPeels
<1> HIDE DEF c
<1>3. Leads(d, o, c)
  BY <1>1, <1>2 DEF Leads
<1> QED
  BY <1>3 DEF c

\* A block starts with the magic bytes.
LEMMA BlockFieldsHead ==
  /\ BlockFields # EndPlan
  /\ Head(BlockFields).op = "magic" /\ Head(BlockFields).n = Word
<1>1. PlannedStop(BlockFields) /\ Planned(BlockFields)
  BY BlockFieldsPlanned DEF Planned
<1>2. Head(BlockFields) = Field("magic", Word, FALSE)
  BY DEF BlockFields
<1>3. Head(BlockFields).op = "magic" /\ Head(BlockFields).n = Word
  BY <1>2 DEF Field
<1>4. Head(EndPlan).op = "block"
  BY DEF EndPlan, Step
<1> QED
  BY <1>3, <1>4

\* Where the reader cannot go on, the block is not all there.
LEMMA LeadsFails ==
  ASSUME NEW d, NEW b, NEW c, Leads(d, b, c), c.plan # EndPlan, ~Allowed(d, c)
  PROVE  /\ ~IsComplete(d, b)
         /\ HasMagic(d, b) \/ (c.offset = b /\ Op(c) = "magic")
<1>1. RunTo(d, c, BlockRead(d, b)) <=> Allowed(d, c) /\ RunTo(d, After(d, c), BlockRead(d, b))
  BY RunPeels
<1>2. RunTo(d, c, BlockRead(d, b)) <=> IsComplete(d, b)
  BY DEF Leads
<1> QED
  BY <1>1, <1>2, BlockFieldsHead DEF Leads, Op

\* At the end of its plan the reader has read the block.
LEMMA LeadsEnds ==
  ASSUME NEW d, NEW b, NEW c, Leads(d, b, c), c.plan = EndPlan
  PROVE  /\ IsComplete(d, b)
         /\ c.offset = blockEnd(d)[b] /\ c.root = Cut(d, rootAt(b), Wide)
         /\ c.txs = Transactions(d, b)
<1> DEFINE z == <<c.offset, c.root, c.txs>>
<1>1. RunTo(d, c, z)
  BY RunEnds
<1>2. IsComplete(d, b) /\ z = BlockRead(d, b)
  BY <1>1 DEF Leads
<1> QED
  BY <1>2 DEF BlockRead

\* A step leaves a plan, at an offset.
LEMMA AfterIs ==
  ASSUME NEW d, IsData(d), NEW c, c.plan # EndPlan, Planned(c.plan), c.inputLen \in Nat,
         c.offset \in Nat, Allowed(d, c)
  PROVE  /\ Planned(After(d, c).plan) /\ After(d, c).inputLen \in Nat
         /\ After(d, c).offset \in Nat
<1> DEFINE p == c.plan
           f == Head(c.plan)
           q == Tail(c.plan)
           n == CountAt(d, c.offset)
           e == After(d, c)
<1>1. /\ p \in Plans /\ p # <<>> /\ f \in FieldSet /\ f.op # "block"
      /\ f.op = "transactions" => q = EndPlan
      /\ f.op = "transactions" \/ PlannedStop(p)
  BY PlannedIs
<1>2. n \in Nat
  BY CountIs
<1>3. f.op = "transactions" \/ (/\ q \in Seq(FieldSet)
                                /\ f.op \in Stops => Planned(q)
                                /\ f.op \notin Stops =>
                                     Planned(q) /\ \A A \in Seq(Inner) : Planned(A \o q))
  <2>1. q \in Seq(FieldSet)
    BY <1>1, HeadTailProperties DEF Plans
  <2>2. CASE PlannedStop(p)
    <3>1. /\ f.op \in Stops => Planned(q)
          /\ f.op \notin Stops => PlannedStop(q) /\ \A A \in Seq(Inner) : PlannedStop(A \o q)
      BY <2>2, PlannedStopIs
    <3> QED
      BY <2>1, <3>1 DEF Planned
  <2> QED
    BY <1>1, <2>1, <2>2
<1>4. f.n \in Nat /\ Word \in Nat
  BY <1>1, WidthsAre DEF FieldSet
<1>5. CASE f.op \in {"fixed", "bytes", "merkle", "magic"}
  <2>1. e.plan = q /\ e.inputLen = c.inputLen
    BY <1>5 DEF After, Op, Cfg
  <2>2. e.offset = c.offset + f.n \/ e.offset = c.offset + Word
    BY <1>5 DEF After, Op, Cfg
  <2>3. Planned(q)
    BY <1>3, <1>5 DEF Stops
  <2> HIDE DEF f, q
  <2> QED
    BY <1>4, <2>1, <2>2, <2>3
<1>6. CASE f.op \in Counts
  <2>1. e.plan = Counted(f.op, n) \o q /\ e.offset = c.offset + 1
    BY <1>6 DEF After, Op, Cfg, Counts
  <2>2. e.inputLen = n \/ e.inputLen = c.inputLen
    BY <1>6 DEF After, Op, Cfg, Counts
  <2>3. Planned(Counted(f.op, n) \o q)
    <3>1. CASE f.op = "transactions"
      <4>1. Counted(f.op, n) = Copies(n, TransactionFields)
        BY <3>1 DEF Counted
      <4> HIDE DEF n, q, f
      <4> QED
        BY <1>1, <1>2, <3>1, <4>1, TransactionsPlanned
    <3>2. CASE f.op # "transactions"
      <4>1. f.op \in Counts \ {"transactions"} /\ f.op \notin Stops
        BY <1>6, <3>2 DEF Counts, Stops
      <4> HIDE DEF n, q, f
      <4>2. Counted(f.op, n) \in Seq(Inner)
        BY <1>2, <4>1, CountedInner
      <4> QED
        BY <1>3, <4>1, <4>2
    <3> QED
      BY <3>1, <3>2
  <2> HIDE DEF f, q, n
  <2> QED
    BY <1>2, <2>1, <2>2, <2>3
<1>7. CASE f.op = "marker"
  <2>1. e.plan = q /\ e.inputLen = c.inputLen /\ (e.offset = c.offset + 2 \/ e.offset = c.offset)
    BY <1>7 DEF After, Op, Cfg, Counts
  <2>2. Planned(q)
    BY <1>3, <1>7 DEF Stops
  <2> HIDE DEF f, q
  <2> QED
    BY <2>1, <2>2
<1>8. CASE f.op = "witnesses"
  <2> DEFINE A == IF c.segwit THEN Copies(c.inputLen, <<Count("witnesses of input", FALSE)>>)
                  ELSE <<>>
  <2>1. e.plan = A \o q /\ e.inputLen = c.inputLen /\ e.offset = c.offset
    BY <1>8 DEF After, Op, Cfg, Counts
  <2>2. A \in Seq(Inner)
    <3>1. Copies(c.inputLen, <<Count("witnesses of input", FALSE)>>) \in Seq(Inner)
      BY CountedInner
    <3>2. <<>> \in Seq(Inner)
      OBVIOUS
    <3> QED
      BY <3>1, <3>2, Zenon
  <2> HIDE DEF A, f, q
  <2>3. Planned(A \o q)
    BY <1>3, <1>8, <2>2 DEF Stops
  <2> QED
    BY <2>1, <2>3
<1>9. CASE f.op \in Stops
  <2>1. e.plan = q /\ e.inputLen = c.inputLen /\ e.offset = c.offset
    BY <1>9 DEF After, Op, Cfg, Counts, Stops
  <2>2. Planned(q)
    BY <1>3, <1>9 DEF Stops
  <2> HIDE DEF f, q
  <2> QED
    BY <2>1, <2>2
<1>10. f.op \in Counts \cup {"fixed", "bytes", "merkle", "magic", "marker", "witnesses"} \cup Stops
  BY <1>1 DEF FieldSet, Ops, Stops
<1> QED
  BY <1>5, <1>6, <1>7, <1>8, <1>9, <1>10

\* A step that reads what is there leads on.
LEMMA LeadsOn ==
  ASSUME NEW d, IsData(d), NEW b, NEW c, Leads(d, b, c), c.plan # EndPlan, Planned(c.plan),
         c.inputLen \in Nat, Allowed(d, c)
  PROVE  Leads(d, b, After(d, c))
<1> DEFINE e == After(d, c)
<1>1. e.offset \in Nat
  BY AfterIs DEF Leads
<1>2. ASSUME NEW z
      PROVE  RunTo(d, e, z) <=> IsComplete(d, b) /\ z = BlockRead(d, b)
  <2>1. RunTo(d, c, z) <=> RunTo(d, e, z)
    BY RunGoesOn DEF Moves
  <2>2. RunTo(d, c, z) <=> IsComplete(d, b) /\ z = BlockRead(d, b)
    BY DEF Leads
  <2> QED
    BY <2>1, <2>2
<1>3. HasMagic(d, b)
  <2>1. CASE c.plan = BlockFields /\ c.offset = b
    <3>1. Op(c) = "magic" /\ Head(c.plan).n = Word
      BY <2>1, BlockFieldsHead DEF Op
    <3>2. Cut(d, c.offset, Head(c.plan).n) = MagicBytes
      BY <3>1 DEF Allowed, Counts
    <3> QED
      BY <2>1, <3>1, <3>2 DEF HasMagic
  <2> QED
    BY <2>1 DEF Leads
<1> HIDE DEF e
<1>4. Leads(d, b, e)
  BY <1>1, <1>2, <1>3 DEF Leads
<1> QED
  BY <1>4 DEF e

-----------------------------------------------------------------------------
(* The steps of the reader that read what is there.                        *)

Here == Cfg(plan, offset, seen, segwit, inputLen, root, txs)

\* The reader reads what is there.
Proceeds ==
  /\ Allowed(data, Here) /\ Here' = After(data, Here)
  /\ status' = "reading" /\ err' = err
  /\ UNCHANGED <<file, boffset, blocks>>

\* What the reader has, in its variables.
LEMMA HereIs ==
  /\ Here.plan = plan /\ Here.offset = offset /\ Here.seen = seen /\ Here.segwit = segwit
  /\ Here.inputLen = inputLen /\ Here.root = root /\ Here.txs = txs
  /\ Op(Here) = Head(plan).op
BY DEF Here, Cfg, Op

\* Fixed-width fields, bytes and the Merkle root.
LEMMA FieldProceeds ==
  ASSUME readField
  PROVE  Proceeds
<1> DEFINE f == Head(plan)
<1>1. /\ status = "reading" /\ plan # <<>> /\ f.op \in {"fixed", "bytes", "merkle"}
      /\ \/ f.op = "fixed" /\ offset + f.n <= Len(data)
         \/ f.op # "fixed" /\ offset + f.n < Len(data)
  BY DEF readField, At
<1>2. Allowed(data, Here)
  BY <1>1, HereIs DEF Allowed
<1>3. Value = Cut(data, offset, f.n)
  BY DEF Value, Cut
<1>4. Here' = After(data, Here)
  BY <1>1, <1>3 DEF readField, Seen, Here, After, Op, Cfg
<1> QED
  BY <1>1, <1>2, <1>4 DEF Proceeds, readField

\* The magic bytes.
LEMMA MagicProceeds ==
  ASSUME checkMagic, Value = MagicBytes
  PROVE  Proceeds
<1> DEFINE f == Head(plan)
<1>1. /\ status = "reading" /\ plan # <<>> /\ f.op = "magic" /\ offset + Word <= Len(data)
      /\ Cut(data, offset, f.n) = MagicBytes
  BY DEF checkMagic, At, Value, Cut
<1>2. Allowed(data, Here)
  BY <1>1, HereIs DEF Allowed
<1>4. Here' = After(data, Here)
  BY <1>1 DEF checkMagic, txVars, blockVars, Here, After, Op, Cfg
<1> QED
  BY <1>1, <1>2, <1>4 DEF Proceeds, checkMagic, blockVars

\* A count.
LEMMA CountProceeds ==
  ASSUME varInt, IsData(data), offset \in Nat, Head(plan).n = 1
  PROVE  Proceeds
<1> DEFINE f == Head(plan)
<1>1. /\ status = "reading" /\ plan # <<>> /\ f.op \in Counts /\ offset < Len(data)
  BY DEF varInt, At
<1>2. Allowed(data, Here)
  BY <1>1, HereIs DEF Allowed
<1>3. Value = Cut(data, offset, f.n) /\ Size(Value[1]) = CountAt(data, offset)
  <2>1. DOMAIN data = 1..Len(data) /\ Len(data) \in Nat
    BY DEF IsData, IsSeq
  <2>2. offset + 1 \in DOMAIN data
    BY <1>1, <2>1
  <2>3. Value[1] = data[offset + 1]
    BY DEF Value
  <2> QED
    BY <2>2, <2>3 DEF Value, Cut, CountAt
<1>4. Here' = After(data, Here)
  BY <1>1, <1>3 DEF varInt, Seen, blockVars, Here, After, Op, Cfg, Counts
<1> QED
  BY <1>1, <1>2, <1>4 DEF Proceeds, varInt, blockVars

\* A marker, or none.
LEMMA MarkerProceeds ==
  ASSUME readMarker, ~err, status' = status, IsData(data), offset \in Nat
  PROVE  Proceeds
<1> DEFINE f == Head(plan)
<1>1. /\ status = "reading" /\ plan # <<>> /\ f.op = "marker"
      /\ \/ /\ offset + 2 <= Len(data) /\ data[offset + 1] = << 0 >>
            /\ segwit' = TRUE /\ offset' = offset + 2
         \/ /\ offset + 1 <= Len(data) /\ data[offset + 1] # << 0 >>
            /\ segwit' = FALSE /\ offset' = offset
      /\ plan' = Tail(plan) /\ UNCHANGED <<file, boffset, err, inputLen, seen, root, txs, blocks>>
  BY DEF readMarker, At, blockVars
<1>2. Allowed(data, Here)
  BY <1>1, HereIs DEF Allowed
<1>4. Here' = After(data, Here)
  BY <1>1 DEF Here, After, Op, Cfg, Counts
<1> QED
  BY <1>1, <1>2, <1>4 DEF Proceeds

\* The witnesses.
LEMMA WitnessesProceed ==
  ASSUME readWitnesses, ~err
  PROVE  Proceeds
<1> DEFINE f == Head(plan)
<1>1. /\ status = "reading" /\ plan # <<>> /\ f.op = "witnesses"
      /\ plan' = (IF segwit THEN Copies(inputLen, <<Count("witnesses of input", FALSE)>>)
                  ELSE <<>>) \o Tail(plan)
      /\ UNCHANGED <<file, offset, boffset, err, segwit, inputLen, seen, root, txs, blocks,
                     status>>
  BY DEF readWitnesses, At, txVars, blockVars
<1>2. Allowed(data, Here)
  BY <1>1, HereIs DEF Allowed
<1>4. Here' = After(data, Here)
  BY <1>1 DEF Here, After, Op, Cfg, Counts
<1> QED
  BY <1>1, <1>2, <1>4 DEF Proceeds

\* The tests of p.err.
LEMMA TestsProceed ==
  ASSUME endHeader \/ endTransaction, ~err
  PROVE  Proceeds
<1> DEFINE f == Head(plan)
<1>1. CASE endHeader
  <2>1. /\ status = "reading" /\ plan # <<>> /\ f.op = "header"
        /\ plan' = Tail(plan) /\ seen' = <<>>
        /\ UNCHANGED <<file, offset, boffset, err, segwit, inputLen, root, txs, blocks, status>>
    BY <1>1 DEF endHeader, At, blockVars
  <2>2. Allowed(data, Here)
    BY <2>1, HereIs DEF Allowed
  <2>3. Here' = After(data, Here)
    BY <2>1 DEF Here, After, Op, Cfg, Counts
  <2> QED
    BY <2>1, <2>2, <2>3 DEF Proceeds
<1>2. CASE endTransaction
  <2>1. /\ status = "reading" /\ plan # <<>> /\ f.op = "transaction"
        /\ plan' = Tail(plan) /\ seen' = <<>> /\ txs' = Append(txs, seen)
        /\ UNCHANGED <<file, offset, boffset, err, segwit, inputLen, root, blocks, status>>
    BY <1>2 DEF endTransaction, At
  <2>2. Allowed(data, Here)
    BY <2>1, HereIs DEF Allowed
  <2>3. Here' = After(data, Here)
    BY <2>1 DEF Here, After, Op, Cfg, Counts
  <2> QED
    BY <2>1, <2>2, <2>3 DEF Proceeds
<1> QED
  BY <1>1, <1>2

-----------------------------------------------------------------------------
(* The invariant of the reader.                                            *)

\* The data of a file.
LEMMA FileIsData ==
  ASSUME NEW f \in Files
  PROVE  /\ IsData(unxor(f.key, f.raw)) /\ Len(unxor(f.key, f.raw)) = Len(f.raw)
         /\ Len(f.raw) \in Nat
<1> DEFINE d == unxor(f.key, f.raw)
           n == Len(f.raw)
<1>1. n \in Nat /\ f.raw = [i \in 1..n |-> f.raw[i]] /\ \A i \in 1..n : Size(d[i]) \in Nat
  BY CellsAssumption
<1>2. DOMAIN f.raw = 1..n
  BY <1>1
<1>3. d = [i \in 1..n |-> xor(f.key, f.raw[i])]
  BY <1>2 DEF unxor
<1>4. d = [i \in 1..n |-> d[i]]
  BY <1>3
<1> HIDE DEF d, n
<1>5. IsSeq(d) /\ Len(d) = n
  BY <1>1, <1>4, FunctionIsSeq
<1>6. IsData(d)
  BY <1>1, <1>5 DEF IsData
<1> QED
  BY <1>1, <1>5, <1>6 DEF d, n

\* Where the blocks end that have been returned.
ReadTo == BlocksEnd(data, Len(blocks))

\* The blocks that have been returned are the first ones of the file.
HasRead ==
  /\ file \in Files /\ Len(blocks) \in Nat
  /\ HasBlocks(data, Len(blocks)) /\ blocks = BlocksOf(data, Len(blocks))

\* Between two blocks, and in the next one.
Between == plan = <<>> /\ ~err /\ offset = ReadTo /\ inputLen \in Nat

Within ==
  /\ boffset = ReadTo /\ ReadTo < Len(data)
  /\ Planned(plan) /\ inputLen \in Nat
  /\ err => PlannedStop(plan) /\ ~IsComplete(data, boffset)
  /\ ~err => Leads(data, boffset, Here)

\* Why the reader has stopped.
IsDone == status = "done" /\ isEndOfFile(file.raw, ReadTo) /\ ~IsBlock(data, ReadTo)
IsRefused == status = "error" /\ ~isEndOfFile(file.raw, ReadTo) /\ ~IsBlock(data, ReadTo)
IsBeyond ==
  /\ status = "panicked" /\ ReadTo < Len(data) /\ ~IsBlock(data, ReadTo)
  /\ HasMagic(data, ReadTo) \/ ReadTo + Word > Len(data)

\* The blocks returned are the first ones of the file, and the reader stops only
\* where none follows.
FileInv ==
  \/ status = "none"
  \/ /\ HasRead
     /\ \/ status = "reading" /\ (Between \/ Within)
        \/ IsDone \/ IsRefused \/ IsBeyond

\* The offsets at which the blocks of the file end.
LEMMA ReadToIs ==
  ASSUME HasRead
  PROVE  /\ IsData(data) /\ Len(data) = Len(file.raw) /\ Len(data) \in Nat
         /\ ReadTo \in Nat
         /\ \A n \in Nat : BlocksEnd(data, n) \in Nat /\ BlocksEnd(data, 0) = 0
                           /\ BlocksEnd(data, n + 1) = blockEnd(data)[BlocksEnd(data, n)]
                           /\ BlocksEnd(data, n) < blockEnd(data)[BlocksEnd(data, n)]
<1>1. IsData(data) /\ Len(data) = Len(file.raw) /\ Len(data) \in Nat
  BY FileIsData DEF HasRead, data
<1>2. blockEnd(data) \in [Nat -> Nat] /\ \A o \in Nat : o < blockEnd(data)[o]
  BY <1>1, BlockEndIs
<1> DEFINE st == Starts(blockEnd(data), 0)
<1>3. st \in [Nat -> Nat] /\ st[0] = 0 /\ \A k \in Nat : st[k + 1] = blockEnd(data)[st[k]]
  BY <1>2, StartsIs
<1>4. \A n : BlocksEnd(data, n) = st[n]
  BY DEF BlocksEnd, EndOf
<1> HIDE DEF st
<1>5. ASSUME NEW n \in Nat
      PROVE  /\ BlocksEnd(data, n) \in Nat /\ BlocksEnd(data, 0) = 0
             /\ BlocksEnd(data, n + 1) = blockEnd(data)[BlocksEnd(data, n)]
             /\ BlocksEnd(data, n) < blockEnd(data)[BlocksEnd(data, n)]
  BY <1>2, <1>3, <1>4
<1> QED
  BY <1>1, <1>5 DEF ReadTo, HasRead

\* No block before the end of the data is missed.
LEMMA NotBlock ==
  ASSUME NEW d, NEW o, ~IsComplete(d, o)
  PROVE  ~IsBlock(d, o)
BY DEF IsBlock

\* Only the end of a block adds to what has been read.
LEMMA StaysRead ==
  ASSUME HasRead, UNCHANGED <<file, blocks>>
  PROVE  data' = data /\ ReadTo' = ReadTo /\ HasRead'
BY DEF HasRead, ReadTo, data

\* Reading what is there keeps the reader on its way.
LEMMA ProceedsWithin ==
  ASSUME HasRead, Within, ~err, Proceeds
  PROVE  status' = "reading" /\ Within' /\ HasRead'
<1>1. data' = data /\ ReadTo' = ReadTo /\ HasRead'
  BY StaysRead DEF Proceeds
<1>2. /\ IsData(data) /\ Planned(plan) /\ Leads(data, boffset, Here) /\ inputLen \in Nat
      /\ Allowed(data, Here) /\ Here' = After(data, Here) /\ status' = "reading" /\ ~err'
      /\ boffset' = boffset
  BY ReadToIs DEF Within, Proceeds
<1>3. /\ Here.plan = plan /\ Here.inputLen = inputLen
      /\ Here'.plan = plan' /\ Here'.inputLen = inputLen'
  BY DEF Here, Cfg
<1>4. plan # EndPlan
  <2>1. Op(Here) # "block"
    BY <1>2 DEF Allowed, Counts
  <2> QED
    BY <1>3, <2>1, NotEnd
<1> DEFINE c == Here
<1>5. /\ c.plan # EndPlan /\ Planned(c.plan) /\ c.inputLen \in Nat /\ c.offset \in Nat
      /\ Leads(data, boffset, c) /\ Allowed(data, c)
  BY <1>2, <1>3, <1>4 DEF Leads
<1> HIDE DEF c
<1>6. Planned(After(data, c).plan) /\ After(data, c).inputLen \in Nat
  BY <1>2, <1>5, AfterIs
<1>7. Leads(data, boffset, After(data, c))
  BY <1>2, <1>5, LeadsOn
<1>8. Planned(plan') /\ inputLen' \in Nat /\ Leads(data', boffset', Here')
  BY <1>1, <1>2, <1>3, <1>6, <1>7 DEF c
<1> QED
  BY <1>1, <1>2, <1>8 DEF Within

-----------------------------------------------------------------------------
(* Every step keeps the invariant.                                         *)

\* Where something is missing the reader panics or sets p.err.
LEMMA FailsWithin ==
  ASSUME HasRead, Within, ~err, plan # EndPlan, ~Allowed(data, Here)
  PROVE  /\ ~IsComplete(data, ReadTo) /\ boffset = ReadTo
         /\ HasMagic(data, ReadTo) \/ (offset = ReadTo /\ Head(plan).op = "magic")
<1> DEFINE c == Here
<1>1. c.plan # EndPlan /\ Leads(data, boffset, c) /\ ~Allowed(data, c) /\ boffset = ReadTo
  BY HereIs DEF Within
<1> HIDE DEF c
<1>2. /\ ~IsComplete(data, boffset)
      /\ HasMagic(data, boffset) \/ (c.offset = boffset /\ Op(c) = "magic")
  BY <1>1, LeadsFails
<1> QED
  BY <1>1, <1>2, HereIs DEF c

\* The loop of read begins a block, or is done.
LEMMA StartsWithin ==
  ASSUME HasRead, Between, status = "reading", nextBlock
  PROVE  FileInv'
<1>1. data' = data /\ ReadTo' = ReadTo /\ HasRead'
  BY StaysRead DEF nextBlock, blockVars
<1>2. IsData(data) /\ ReadTo \in Nat /\ Len(data) = Len(file.raw) /\ Len(data) \in Nat
  BY ReadToIs
<1>3. CASE offset < Len(data)
  <2>1. /\ plan' = BlockFields /\ boffset' = offset /\ offset' = offset /\ txs' = <<>>
        /\ UNCHANGED <<err, seen, segwit, inputLen, root, status>>
    BY <1>2, <1>3 DEF nextBlock, txVars, Between
  <2>2. Here' = Cfg(BlockFields, offset, seen, segwit, inputLen, root, <<>>)
    BY <2>1 DEF Here, Cfg
  <2>3. Leads(data, offset, Cfg(BlockFields, offset, seen, segwit, inputLen, root, <<>>))
    BY <1>2, BlockLeads DEF Between
  <2>4. Planned(BlockFields)
    BY BlockFieldsPlanned DEF Planned
  <2>5. Within'
    BY <1>1, <1>3, <2>1, <2>2, <2>3, <2>4 DEF Within, Between
  <2> QED
    BY <1>1, <2>1, <2>5 DEF FileInv
<1>4. CASE ~(offset < Len(data))
  <2>1. status' = "done" /\ file' = file
    BY <1>4 DEF nextBlock
  <2>2. ~IsBlock(data, ReadTo)
    <3>1. blockEnd(data)[ReadTo] \in Nat /\ ReadTo < blockEnd(data)[ReadTo]
      BY <1>2, BlockEndIs
    <3> QED
      BY <1>2, <1>4, <3>1 DEF Between, IsBlock, IsComplete
  <2>3. isEndOfFile(file.raw, ReadTo)
    <3>1. (ReadTo + 1)..Len(file.raw) = {}
      BY <1>2, <1>4 DEF Between
    <3> QED
      BY <3>1 DEF isEndOfFile
  <2>4. IsDone'
    BY <1>1, <2>1, <2>2, <2>3 DEF IsDone, isEndOfFile
  <2> QED
    BY <1>1, <2>4 DEF FileInv
<1> QED
  BY <1>3, <1>4

\* Stop, where no block is.
LEMMA StopsRightly ==
  ASSUME HasRead, UNCHANGED <<file, blocks>>, boffset = ReadTo, Stop, ~IsBlock(data, ReadTo)
  PROVE  FileInv'
<1>1. data' = data /\ ReadTo' = ReadTo /\ HasRead'
  BY StaysRead
<1>2. CASE isEndOfFile(file.raw, ReadTo)
  <2>1. IsDone'
    BY <1>1, <1>2 DEF IsDone, Stop, isEndOfFile
  <2> QED
    BY <1>1, <2>1 DEF FileInv
<1>3. CASE ~isEndOfFile(file.raw, ReadTo)
  <2>1. IsRefused'
    BY <1>1, <1>3 DEF IsRefused, Stop, isEndOfFile
  <2> QED
    BY <1>1, <2>1 DEF FileInv
<1> QED
  BY <1>2, <1>3

\* Once p.err is set, the fields up to the next test of it are passed over.
LEMMA ErrorStops ==
  ASSUME HasRead, Within, err, status = "reading", Next
  PROVE  FileInv'
<1>1. /\ PlannedStop(plan) /\ ~IsComplete(data, boffset) /\ boffset = ReadTo
      /\ ~IsBlock(data, ReadTo)
  BY NotBlock DEF Within
<1>2. /\ plan # <<>> /\ Head(plan) \in Inner
      /\ Head(plan).op \notin Stops => PlannedStop(Tail(plan)) /\ Planned(Tail(plan))
  BY <1>1, PlannedStopIs DEF Planned
<1>3. Head(plan).op # "block"
  BY <1>2 DEF Inner
<1>4. ASSUME /\ Head(plan).op \notin Stops /\ plan' = Tail(plan)
             /\ UNCHANGED <<file, boffset, err, inputLen, blocks, status>>
      PROVE  FileInv'
  <2>1. data' = data /\ ReadTo' = ReadTo /\ HasRead'
    BY <1>4, StaysRead
  <2>2. Within'
    BY <1>1, <1>2, <1>4, <2>1 DEF Within
  <2> QED
    BY <1>4, <2>1, <2>2 DEF FileInv
<1>5. CASE skipField
  BY <1>4, <1>5 DEF skipField, At, Readers, Counts, Stops, txVars, blockVars
<1>6. CASE readMarker
  BY <1>4, <1>6 DEF readMarker, At, Stops, blockVars
<1>7. CASE readWitnesses
  <2>1. Tail(plan) \in Seq(FieldSet)
    <3>1. plan \in Plans /\ plan # <<>>
      BY <1>1, PlannedStopIs
    <3> QED
      BY <3>1, HeadTailProperties DEF Plans
  <2>2. <<>> \o Tail(plan) = Tail(plan)
    BY <2>1
  <2> QED
    BY <1>4, <1>7, <2>2 DEF readWitnesses, At, Stops, txVars, blockVars
<1>8. CASE endHeader
  BY <1>1, <1>8, StopsRightly DEF endHeader, blockVars
<1>9. CASE endTransaction
  BY <1>1, <1>9, StopsRightly DEF endTransaction
<1>10. CASE nextBlock
  BY <1>2, <1>10 DEF nextBlock
<1>11. CASE endBlock
  BY <1>3, <1>11 DEF endBlock, At
<1>12. ~(readBeyond \/ readTooFar \/ readField \/ checkMagic \/ varInt)
  BY DEF readBeyond, readTooFar, readField, checkMagic, varInt
<1> QED
  BY <1>5, <1>6, <1>7, <1>8, <1>9, <1>10, <1>11, <1>12 DEF Next

\* A read beyond the data.
LEMMA PanicsRightly ==
  ASSUME HasRead, Within, ~err, plan # EndPlan, ~Allowed(data, Here),
         Head(plan).op = "magic" => offset + Word > Len(data),
         UNCHANGED <<file, blocks>>, status' = "panicked"
  PROVE  FileInv'
<1>1. data' = data /\ ReadTo' = ReadTo /\ HasRead'
  BY StaysRead
<1>2. /\ ~IsComplete(data, ReadTo) /\ ReadTo < Len(data)
      /\ HasMagic(data, ReadTo) \/ (offset = ReadTo /\ Head(plan).op = "magic")
  BY FailsWithin DEF Within
<1>3. IsBeyond'
  BY <1>1, <1>2, NotBlock DEF IsBeyond
<1> QED
  BY <1>1, <1>3 DEF FileInv

\* p.err is set: the bytes are missing or are not the magic ones.
LEMMA ErrsRightly ==
  ASSUME HasRead, Within, ~err, plan # EndPlan, ~Allowed(data, Here),
         PlannedStop(plan), Head(plan).op \notin Stops,
         status = "reading", plan' = Tail(plan), err' = TRUE,
         UNCHANGED <<file, boffset, inputLen, blocks, status>>
  PROVE  FileInv'
<1>1. data' = data /\ ReadTo' = ReadTo /\ HasRead'
  BY StaysRead
<1>2. ~IsComplete(data, boffset) /\ boffset = ReadTo
  BY FailsWithin
<1>3. PlannedStop(Tail(plan)) /\ Planned(Tail(plan))
  BY PlannedStopIs DEF Planned
<1>4. Within'
  BY <1>1, <1>2, <1>3 DEF Within
<1> QED
  BY <1>1, <1>4 DEF FileInv

\* The end of a block: it is the next one of the file, or the reader stops.
LEMMA BlockEndsRightly ==
  ASSUME HasRead, Within, ~err, status = "reading", endBlock
  PROVE  FileInv'
<1>1. /\ IsData(data) /\ ReadTo \in Nat
      /\ BlocksEnd(data, Len(blocks) + 1) = blockEnd(data)[ReadTo]
  BY ReadToIs DEF HasRead, ReadTo
<1>2. Head(plan).op = "block" /\ boffset = ReadTo /\ ReadTo < Len(data) /\ plan = EndPlan
  BY PlannedIs DEF Within, endBlock, At
<1>3. /\ IsComplete(data, ReadTo)
      /\ offset = blockEnd(data)[ReadTo] /\ root = Cut(data, rootAt(ReadTo), Wide)
      /\ txs = Transactions(data, ReadTo)
  <2> DEFINE c == Here
  <2>1. Leads(data, ReadTo, c) /\ c.plan = EndPlan
    BY <1>2, HereIs DEF Within
  <2> HIDE DEF c
  <2>2. /\ IsComplete(data, ReadTo)
        /\ c.offset = blockEnd(data)[ReadTo] /\ c.root = Cut(data, rootAt(ReadTo), Wide)
        /\ c.txs = Transactions(data, ReadTo)
    BY <2>1, LeadsEnds
  <2> QED
    BY <2>2, HereIs DEF c
<1>4. IsBlock(data, ReadTo) <=> txs # <<>> /\ RootMatches(txs)
  BY <1>3 DEF IsBlock, RootMatches
<1>5. CASE txs # <<>> /\ RootMatches(txs)
  <2> DEFINE k == Len(blocks)
             d == data
             st == Starts(blockEnd(d), 0)
  <2>1. /\ blocks' = Append(blocks, txs) /\ plan' = Tail(plan)
        /\ UNCHANGED <<file, offset, boffset, err, inputLen, status>>
    BY <1>5 DEF endBlock, txVars
  <2>2. data' = data
    BY <2>1 DEF data
  <2>3. k \in Nat /\ ReadTo = st[k]
    BY DEF HasRead, ReadTo, BlocksEnd, EndOf
  <2>4. HasBlocks(d, k) /\ IsBlock(d, st[k]) /\ txs = Transactions(d, st[k])
    BY <1>3, <1>4, <1>5, <2>3 DEF HasRead
  <2>5. blocks = BlocksOf(d, k)
    BY DEF HasRead
  <2> HIDE DEF k, d, st
  <2>6. HasBlocks(d, k + 1)
    <3> SUFFICES ASSUME NEW i \in 1..(k + 1)
                 PROVE  IsBlock(d, st[i - 1])
      BY DEF HasBlocks, st
    <3>1. CASE i \in 1..k
      BY <2>4, <3>1 DEF HasBlocks, st
    <3>2. CASE i = k + 1
      <4>1. i - 1 = k
        BY <2>3, <3>2
      <4> QED
        BY <2>4, <4>1
    <3> QED
      BY <2>3, <3>1, <3>2
  <2>7. Append(blocks, txs) = BlocksOf(d, k + 1) /\ Len(Append(blocks, txs)) = k + 1
    <3> DEFINE T == {Transactions(d, st[i - 1]) : i \in 1..(k + 1)}
               f == [i \in 1..(k + 1) |-> Transactions(d, st[i - 1])]
    <3>1. \A i \in 1..k : i \in 1..(k + 1)
      BY <2>3
    <3>2. blocks = [i \in 1..k |-> Transactions(d, st[i - 1])] /\ Len(blocks) = k
      BY <2>5 DEF BlocksOf, st, k
    <3>3. blocks \in Seq(T)
      <4>1. \A i \in 1..k : Transactions(d, st[i - 1]) \in T
        BY <3>1
      <4> HIDE DEF T
      <4> QED
        BY <2>3, <3>2, <4>1, IsASeq
    <3>4. txs \in T
      <4>1. k + 1 \in 1..(k + 1) /\ (k + 1) - 1 = k
        BY <2>3
      <4> QED
        BY <2>4, <4>1
    <3> HIDE DEF T
    <3>5. /\ Append(blocks, txs) \in Seq(T) /\ Len(Append(blocks, txs)) = k + 1
          /\ \A i \in 1..k : Append(blocks, txs)[i] = blocks[i]
          /\ Append(blocks, txs)[k + 1] = txs
      <4>1. /\ Append(blocks, txs) \in Seq(T) /\ Len(Append(blocks, txs)) = Len(blocks) + 1
            /\ \A i \in 1..Len(blocks) : Append(blocks, txs)[i] = blocks[i]
            /\ Append(blocks, txs)[Len(blocks) + 1] = txs
        BY <3>3, <3>4, AppendProperties
      <4> QED
        BY <3>2, <4>1
    <3>6. ASSUME NEW i \in 1..(k + 1)
          PROVE  Append(blocks, txs)[i] = Transactions(d, st[i - 1])
      <4>0. i \in 1..k \/ (i = k + 1 /\ i - 1 = k)
        BY <2>3
      <4>1. CASE i \in 1..k
        BY <3>2, <3>5, <4>1
      <4>2. CASE i = k + 1 /\ i - 1 = k
        BY <2>4, <3>5, <4>2
      <4> QED
        BY <4>0, <4>1, <4>2
    <3>7. Append(blocks, txs) = f
      <4>1. Append(blocks, txs) = [i \in 1..(k + 1) |-> Append(blocks, txs)[i]]
        BY <3>5, LenProperties
      <4> QED
        BY <3>6, <4>1
    <3>8. f = BlocksOf(d, k + 1)
      BY DEF BlocksOf, st
    <3> QED
      BY <3>5, <3>7, <3>8
  <2>8. HasRead'
    BY <2>1, <2>2, <2>3, <2>6, <2>7 DEF HasRead, d
  <2>9. ReadTo' = offset'
    BY <1>1, <1>3, <2>1, <2>2, <2>7 DEF ReadTo, k, d
  <2>10. plan' = <<>>
    BY <1>2, <2>1 DEF EndPlan
  <2>11. Between'
    <3>1. inputLen \in Nat
      BY DEF Within
    <3> QED
      BY <2>1, <2>9, <2>10, <3>1 DEF Between
  <2> QED
    BY <2>1, <2>8, <2>11 DEF FileInv
<1>6. CASE txs # <<>> /\ ~RootMatches(txs)
  BY <1>2, <1>4, <1>6, StopsRightly DEF endBlock
<1>7. CASE txs = <<>>
  <2>1. status' = "panicked" /\ UNCHANGED <<file, blocks>>
    BY <1>7 DEF endBlock
  <2>2. data' = data /\ ReadTo' = ReadTo /\ HasRead'
    BY <2>1, StaysRead
  <2>3. IsBeyond'
    BY <1>2, <1>3, <1>4, <1>7, <2>1, <2>2 DEF IsBeyond, IsComplete
  <2> QED
    BY <2>2, <2>3 DEF FileInv
<1> QED
  BY <1>5, <1>6, <1>7

\* A field that is not all there is not read.
LEMMA TooShort ==
  ASSUME NEW d, NEW c, Len(d) \in Nat, c.offset \in Nat, Head(c.plan).n \in Nat,
         \/ /\ Op(c) \in {"fixed", "magic"} \cup Counts
            /\ c.offset + Head(c.plan).n > Len(d)
            /\ Op(c) = "magic" => Head(c.plan).n = Word
            /\ Op(c) \in Counts => Head(c.plan).n = 1
         \/ /\ Op(c) \in {"bytes", "merkle"}
            /\ c.offset + Head(c.plan).n >= Len(d)
  PROVE  ~Allowed(d, c)
<1> DEFINE o == c.offset
           n == Head(c.plan).n
           L == Len(d)
           x == Op(c)
<1>0. /\ o \in Nat /\ n \in Nat /\ L \in Nat
      /\ x \in {"fixed", "magic"} \cup Counts => o + n > L
      /\ x \in Counts => n = 1
      /\ x \in {"bytes", "merkle"} => o + n >= L
  <2> HIDE DEF o, n, L, x
  <2> QED
    BY DEF o, n, L, x, Counts
<1>1. CASE Op(c) = "fixed"
  BY <1>1 DEF Allowed, Counts
<1>2. CASE Op(c) = "magic"
  BY <1>2 DEF Allowed, Counts
<1>3. CASE Op(c) \in Counts
  <2>1. ~(o < L)
    <3>1. x \in Counts
      BY <1>3
    <3> HIDE DEF o, n, L, x
    <3> QED
      BY <1>0, <3>1
  <2>2. Op(c) \notin {"fixed", "bytes", "merkle", "magic", "marker", "witnesses", "header",
                      "transaction"}
    BY <1>3 DEF Counts
  <2> QED
    BY <2>1, <2>2 DEF Allowed
<1>4. CASE Op(c) \in {"bytes", "merkle"}
  <2>1. ~(o + n < L)
    <3>1. x \in {"bytes", "merkle"}
      BY <1>4
    <3> HIDE DEF o, n, L, x
    <3> QED
      BY <1>0, <3>1
  <2>2. Op(c) \notin Counts \cup {"fixed", "magic", "marker", "witnesses", "header", "transaction"}
    BY <1>4 DEF Counts
  <2> QED
    BY <2>1, <2>2 DEF Allowed
<1> QED
  BY <1>1, <1>2, <1>3, <1>4

\* A step in a block, while nothing was missing.
LEMMA StepsWithin ==
  ASSUME HasRead, Within, ~err, status = "reading", Next
  PROVE  FileInv'
<1>1. /\ IsData(data) /\ Len(data) \in Nat
      /\ Planned(plan) /\ Leads(data, boffset, Here) /\ offset \in Nat
  BY ReadToIs, HereIs DEF Within, Leads
<1>2. /\ plan # <<>> /\ Head(plan) \in FieldSet
      /\ plan # EndPlan => Head(plan).op # "block"
      /\ Head(plan).op = "magic" => Head(plan).n = Word
      /\ Head(plan).op \in Counts => Head(plan).n = 1
      /\ plan = EndPlan \/ Head(plan).op = "transactions" \/ PlannedStop(plan)
  BY <1>1, PlannedIs
<1>3. plan = EndPlan => Head(plan).op = "block"
  BY DEF EndPlan, Step
<1>4. Head(plan).n \in Nat /\ Word \in Nat
  BY <1>2, WidthsAre DEF FieldSet
<1>5. ASSUME Proceeds
      PROVE  FileInv'
  BY <1>5, ProceedsWithin DEF FileInv
<1>6. CASE nextBlock
  BY <1>2, <1>6 DEF nextBlock
<1>7. CASE skipField
  BY <1>7 DEF skipField
<1>8. CASE readBeyond
  <2>1. /\ Head(plan).op \in {"fixed", "magic"} \cup Counts
        /\ offset + Head(plan).n > Len(data)
        /\ status' = "panicked" /\ UNCHANGED <<file, blocks>>
    BY <1>8 DEF readBeyond, At, blockVars
  <2>2. plan # EndPlan
    BY <1>3, <2>1 DEF Counts
  <2>3. ~Allowed(data, Here)
    BY <1>1, <1>2, <1>4, <2>1, HereIs, TooShort
  <2> QED
    BY <1>2, <2>1, <2>2, <2>3, PanicsRightly
<1>9. CASE readTooFar
  <2>1. /\ Head(plan).op \in {"bytes", "merkle"}
        /\ offset + Head(plan).n >= Len(data)
        /\ err' = TRUE /\ plan' = Tail(plan)
        /\ UNCHANGED <<file, boffset, inputLen, blocks, status>>
    BY <1>9 DEF readTooFar, At, txVars, blockVars
  <2>2. plan # EndPlan /\ PlannedStop(plan) /\ Head(plan).op \notin Stops
    BY <1>2, <1>3, <2>1 DEF Stops
  <2>3. ~Allowed(data, Here)
    BY <1>1, <1>4, <2>1, HereIs, TooShort
  <2> QED
    BY <2>1, <2>2, <2>3, ErrsRightly
<1>10. CASE readField
  BY <1>5, <1>10, FieldProceeds
<1>11. CASE checkMagic
  <2>1. CASE Value = MagicBytes
    BY <1>5, <1>11, <2>1, MagicProceeds
  <2>2. CASE Value # MagicBytes
    <3>1. /\ Head(plan).op = "magic" /\ err' = TRUE /\ plan' = Tail(plan)
          /\ UNCHANGED <<file, boffset, inputLen, blocks, status>>
      BY <1>11, <2>2 DEF checkMagic, At, txVars, blockVars
    <3>2. plan # EndPlan /\ PlannedStop(plan) /\ Head(plan).op \notin Stops
      BY <1>2, <1>3, <3>1 DEF Stops
    <3>3. Cut(data, offset, Head(plan).n) # MagicBytes
      BY <2>2 DEF Value, Cut
    <3>4. ~Allowed(data, Here)
      BY <3>1, <3>3, HereIs DEF Allowed, Counts
    <3> QED
      BY <3>1, <3>2, <3>4, ErrsRightly
  <2> QED
    BY <2>1, <2>2
<1>12. CASE varInt
  <2>1. Head(plan).op \in Counts
    BY <1>12 DEF varInt, At
  <2>2. Proceeds
    BY <1>1, <1>2, <1>12, <2>1, CountProceeds
  <2> QED
    BY <1>5, <2>2
<1>13. CASE readMarker
  <2>1. CASE status' = status
    BY <1>1, <1>5, <1>13, <2>1, MarkerProceeds
  <2>2. CASE status' # status
    <3>1. /\ Head(plan).op = "marker" /\ status' = "panicked" /\ UNCHANGED <<file, blocks>>
          /\ offset + 1 > Len(data) \/ (offset + 1 = Len(data) /\ data[offset + 1] = << 0 >>)
      BY <1>13, <2>2 DEF readMarker, At, blockVars
    <3>2. plan # EndPlan
      BY <1>3, <3>1
    <3>3. ~Allowed(data, Here)
      <4> DEFINE c == Here
      <4>1. Op(c) = "marker" /\ c.offset = offset
        BY <3>1, HereIs
      <4> HIDE DEF c
      <4>2. ~Allowed(data, c)
        BY <1>1, <3>1, <4>1 DEF Allowed, Counts
      <4> QED
        BY <4>2 DEF c
    <3> QED
      BY <3>1, <3>2, <3>3, PanicsRightly
  <2> QED
    BY <2>1, <2>2
<1>14. CASE readWitnesses
  BY <1>5, <1>14, WitnessesProceed
<1>15. CASE endHeader \/ endTransaction
  BY <1>5, <1>15, TestsProceed
<1>16. CASE endBlock
  BY <1>16, BlockEndsRightly
<1> QED
  BY <1>6, <1>7, <1>8, <1>9, <1>10, <1>11, <1>12, <1>13, <1>14, <1>15, <1>16 DEF Next

\* The invariant holds before anything is read.
LEMMA FileInvStarts == FileInit \/ TreeInit => FileInv
<1>1. CASE TreeInit
  BY <1>1 DEF TreeInit, FileInv
<1>2. CASE FileInit
  <2>1. /\ file \in Files /\ blocks = <<>> /\ Len(blocks) = 0 /\ plan = <<>> /\ ~err
        /\ offset = 0 /\ inputLen = 0 /\ status = "reading"
    BY <1>2 DEF FileInit, Init
  <2>2. HasBlocks(data, 0) /\ BlocksOf(data, 0) = <<>>
    BY DEF HasBlocks, BlocksOf
  <2>3. HasRead
    BY <2>1, <2>2 DEF HasRead
  <2>4. ReadTo = 0
    BY <2>1, <2>3, ReadToIs DEF ReadTo
  <2>5. Between
    BY <2>1, <2>4 DEF Between
  <2> QED
    BY <2>1, <2>3, <2>5 DEF FileInv
<1> QED
  BY <1>1, <1>2

\* Every step of the reader, and of the loop beside it, keeps the invariant.
LEMMA FileInvSteps ==
  ASSUME FileInv, [FileNext \/ TreeNext]_<<vars, treeVars>>
  PROVE  FileInv'
<1>1. CASE FileNext
  <2>1. Next /\ status = "reading"
    BY <1>1 DEF FileNext, Next, nextBlock, skipField, readBeyond, readTooFar, readField,
                checkMagic, varInt, readMarker, readWitnesses, endHeader, endTransaction,
                endBlock, At
  <2>2. HasRead /\ (Between \/ Within)
    BY <2>1 DEF FileInv, IsDone, IsRefused, IsBeyond
  <2>3. CASE Between
    <3>1. nextBlock
      BY <2>1, <2>3 DEF Between, Next, nextBlock, skipField, readBeyond, readTooFar, readField,
                        checkMagic, varInt, readMarker, readWitnesses, endHeader,
                        endTransaction, endBlock, At
    <3> QED
      BY <2>1, <2>2, <2>3, <3>1, StartsWithin
  <2>4. CASE Within /\ err
    BY <2>1, <2>2, <2>4, ErrorStops
  <2>5. CASE Within /\ ~err
    BY <2>1, <2>2, <2>5, StepsWithin
  <2> QED
    BY <2>2, <2>3, <2>4, <2>5
<1>2. CASE TreeNext \/ UNCHANGED <<vars, treeVars>>
  <2>1. UNCHANGED <<file, offset, boffset, err, plan, segwit, inputLen, seen, root, txs, blocks,
                    status>>
    BY <1>2 DEF TreeNext, vars, txVars, blockVars
  <2>2. data' = data /\ Here' = Here
    BY <2>1 DEF data, Here, Cfg
  <2>3. ReadTo' = ReadTo
    BY <2>1, <2>2 DEF ReadTo
  <2> QED
    BY <2>1, <2>2, <2>3
       DEF FileInv, HasRead, Between, Within, IsDone, IsRefused, IsBeyond, isEndOfFile
<1> QED
  BY <1>1, <1>2

\* The reader returns blocks of the file only, in order and one after the other,
\* and stops only where no further block is (blkdat.go:259-312).
THEOREM FileInvHolds == BlocksSpec => []FileInv
BY FileInvStarts, FileInvSteps, PTL DEF BlocksSpec

\* Where the blocks of an undamaged file end, the reader has as many.
LEMMA StopsAtEnd ==
  ASSUME HasRead, NEW n \in Nat, HasBlocks(data, n), ~IsBlock(data, ReadTo),
         ~IsBlock(data, BlocksEnd(data, n))
  PROVE  n = Len(blocks)
<1> DEFINE k == Len(blocks)
           d == data
           st == Starts(blockEnd(d), 0)
<1>1. k \in Nat /\ HasBlocks(d, k) /\ ReadTo = st[k] /\ BlocksEnd(d, n) = st[n]
  BY DEF HasRead, ReadTo, BlocksEnd, EndOf
<1>2. /\ \A i \in 1..k : IsBlock(d, st[i - 1])
      /\ \A i \in 1..n : IsBlock(d, st[i - 1])
  BY <1>1 DEF HasBlocks
<1> HIDE DEF k, d, st
<1>3. CASE n < k
  <2>1. n + 1 \in 1..k /\ (n + 1) - 1 = n
    BY <1>1, <1>3
  <2>2. IsBlock(d, st[n])
    BY <1>2, <2>1
  <2> QED
    BY <1>1, <2>2 DEF d
<1>4. CASE k < n
  <2>1. k + 1 \in 1..n /\ (k + 1) - 1 = k
    BY <1>1, <1>4
  <2>2. IsBlock(d, st[k])
    BY <1>2, <2>1
  <2> QED
    BY <1>1, <2>2 DEF d
<1>5. n = k
  BY <1>1, <1>3, <1>4 DEF k
<1> QED
  BY <1>5 DEF k

\* The reader looks for the zeros in the file as it is on the disk.
LEMMA ZerosAre ==
  ASSUME NEW f, Len(f.raw) \in Nat, NEW o \in Nat
  PROVE  IsZeros(f, o) <=> isEndOfFile(f.raw, o)
BY DEF IsZeros, isEndOfFile

\* An undamaged file: its chain, and after it padding.
LEMMA WholeFile ==
  ASSUME HasRead, file.whole
  PROVE  LET n == Len(file.chain)
             e == BlocksEnd(data, n)
         IN /\ n \in Nat /\ HasBlocks(data, n) /\ file.chain = BlocksOf(data, n)
            /\ isEndOfFile(file.raw, e) /\ ~IsBlock(data, e)
            /\ e = Len(data) \/ (e + Word <= Len(data) /\ ~HasMagic(data, e))
<1> DEFINE n == Len(file.chain)
           e == BlocksEnd(data, n)
<1>1. /\ n \in Nat /\ HasBlocks(data, n) /\ file.chain = BlocksOf(data, n)
      /\ IsPadding(file, e)
  BY FilesAssumption DEF HasRead, data
<1>2. /\ isEndOfFile(file.raw, e)
      /\ e = Len(data) \/ (e + Word <= Len(data) /\ ~HasMagic(data, e))
  <2>1. Len(data) = Len(file.raw) /\ Len(file.raw) \in Nat /\ e \in Nat
    BY <1>1, ReadToIs
  <2> HIDE DEF e
  <2> QED
    BY <1>1, <2>1, ZerosAre DEF IsPadding, data
<1>3. ~IsBlock(data, e)
  <2>1. e \in Nat /\ e < blockEnd(data)[e] /\ Len(data) \in Nat
    BY <1>1, ReadToIs
  <2>2. blockEnd(data)[e] \in Nat
    BY <2>1, BlockEndIs, ReadToIs
  <2> HIDE DEF e
  <2> QED
    BY <1>2, <2>1, <2>2 DEF IsBlock, IsComplete
<1> QED
  BY <1>1, <1>2, <1>3

\* A file of whole blocks is read to its end (blkdat.go:259-271, 507-533).
THEOREM WholeFilesReadHolds == BlocksSpec => []WholeFilesRead
<1>1. ASSUME FileInv
      PROVE  WholeFilesRead
  <2> SUFFICES ASSUME file.whole, IsRefused \/ IsBeyond, HasRead
               PROVE  FALSE
    BY <1>1 DEF WholeFilesRead, FileInv, IsDone, IsRefused, IsBeyond
  <2> DEFINE n == Len(file.chain)
             e == BlocksEnd(data, n)
  <2>1. /\ n \in Nat /\ HasBlocks(data, n)
        /\ isEndOfFile(file.raw, e) /\ ~IsBlock(data, e)
        /\ e = Len(data) \/ (e + Word <= Len(data) /\ ~HasMagic(data, e))
    BY WholeFile
  <2>2. ~IsBlock(data, ReadTo)
    BY DEF IsRefused, IsBeyond
  <2>3. n = Len(blocks)
    BY <2>1, <2>2, StopsAtEnd
  <2>4. e = ReadTo
    BY <2>3 DEF ReadTo
  <2>5. ReadTo \in Nat /\ Len(data) \in Nat /\ Word \in Nat
    BY ReadToIs, WidthsAre
  <2> HIDE DEF e
  <2> QED
    BY <2>1, <2>4, <2>5 DEF IsRefused, IsBeyond
<1> QED
  BY <1>1, FileInvHolds, PTL

\* What is returned without an error is the chain of an undamaged file: a torn or
\* forged block never passes and never hides the blocks (blkdat.go:252-312).
THEOREM ReadsTheChainHolds == BlocksSpec => []ReadsTheChain
<1>1. ASSUME FileInv
      PROVE  ReadsTheChain
  <2> SUFFICES ASSUME IsDone, HasRead
               PROVE  file.whole /\ blocks = file.chain
    BY <1>1 DEF ReadsTheChain, FileInv, IsDone, IsRefused, IsBeyond
  <2>1. ~IsBlock(data, ReadTo) /\ isEndOfFile(file.raw, ReadTo)
    BY DEF IsDone
  <2>2. CASE file.whole
    <3> DEFINE n == Len(file.chain)
    <3>1. /\ n \in Nat /\ HasBlocks(data, n) /\ file.chain = BlocksOf(data, n)
          /\ ~IsBlock(data, BlocksEnd(data, n))
      BY <2>2, WholeFile
    <3>2. n = Len(blocks)
      BY <2>1, <3>1, StopsAtEnd
    <3> QED
      BY <2>2, <3>1, <3>2 DEF HasRead
  <2>3. CASE ~file.whole
    <3>1. PICK n \in 0..Len(file.raw) :
            /\ HasBlocks(data, n)
            /\ ~IsBlock(data, BlocksEnd(data, n))
            /\ ~IsZeros(file, BlocksEnd(data, n))
      BY <2>3, FilesAssumption DEF HasRead, data
    <3>2. ReadTo \in Nat /\ Len(file.raw) \in Nat
      BY ReadToIs
    <3>3. n \in Nat
      BY <3>1, <3>2
    <3>4. n = Len(blocks)
      BY <2>1, <3>1, <3>3, StopsAtEnd
    <3> QED
      BY <2>1, <3>1, <3>2, <3>4, ZerosAre DEF ReadTo
  <2> QED
    BY <2>2, <2>3
<1> QED
  BY <1>1, FileInvHolds, PTL
=============================================================================
