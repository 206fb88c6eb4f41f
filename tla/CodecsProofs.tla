---------------------------- MODULE CodecsProofs ----------------------------
(***************************************************************************)
(* Theorems about the sequential codecs of module Codecs, for every base   *)
(* and whatever they are given: numbers as bytes, scripts, paths of keys,  *)
(* heights, and the IDs and signatures of transactions.                    *)
(***************************************************************************)
EXTENDS Codecs, Induction, SequenceTheorems

LEMMA BaseIsPositive == Base \in Nat \ {0} /\ Byte \subseteq Nat /\ 0 \in Byte
BY OpcodesAssumption DEF Byte

LEMMA BytesAreNumbers ==
  ASSUME NEW b \in Seq(Byte)
  PROVE  b \in Seq(Nat)
<1>1. b \in [1..Len(b) -> Byte] /\ Len(b) \in Nat
  OBVIOUS
<1>2. b \in [1..Len(b) -> Nat]
  BY <1>1, BaseIsPositive
<1> QED
  BY <1>1, <1>2

-----------------------------------------------------------------------------
(* Numbers as bytes.                                                       *)

LEMMA Euclid ==
  \A a \in Nat, b \in Nat \ {0} :
    a \div b \in Nat /\ a % b \in 0..(b - 1) /\ a = (a \div b) * b + (a % b)
<1> SUFFICES ASSUME NEW a \in Nat, NEW b \in Nat \ {0}
             PROVE  a \div b \in Nat /\ a % b \in 0..(b - 1) /\ a = (a \div b) * b + (a % b)
  OBVIOUS
<1>1. a \div b \in Nat /\ a % b \in 0..(b - 1)
  OBVIOUS
<1>2. a = b * (a \div b) + (a % b)
  OBVIOUS
<1>3. \A q \in Nat : b * q = q * b
  OBVIOUS
<1> QED
  BY <1>1, <1>2, <1>3

\* The quotient of a number below a product is below the other factor.
LEMMA SmallQuotient ==
  \A n, p \in Nat, b \in Nat \ {0} : n < b * p => n \div b < p
<1> SUFFICES ASSUME NEW n \in Nat, NEW p \in Nat, NEW b \in Nat \ {0}, n < b * p,
                    NEW q \in Nat, NEW r \in Nat, n = q * b + r, p <= q
             PROVE  FALSE
  BY Euclid
<1>1. PICK d \in Nat : q = p + d
  <2>1. q - p \in Nat /\ q = p + (q - p)
    OBVIOUS
  <2> QED
    BY <2>1
<1>2. (p + d) * b = p * b + d * b
  OBVIOUS
<1>3. d * b \in Nat /\ p * b \in Nat /\ p * b = b * p
  OBVIOUS
<1>4. \A x, y, z \in Nat : x + y + r < x => FALSE
  OBVIOUS
<1> QED
  BY <1>1, <1>2, <1>3, <1>4

LEMMA PowerIs ==
  /\ Power \in [0..8 -> Nat]
  /\ Power[0] = 1
  /\ \A w \in 1..8 : Power[w] = Base * Power[w - 1]
<1> DEFINE step == [x \in Nat \X (1..8) |-> Base * x[1]]
           Solves(f) == f = [w \in 0..8 |-> IF w = 0 THEN 1 ELSE Base * f[w - 1]]
<1>1. step \in [Nat \X (1..8) -> Nat]
  BY BaseIsPositive
<1>2. PICK f : RecursiveOnNumbers(f, 8, Nat, 1, step)
  <2> HIDE DEF step
  <2> QED
    BY <1>1, RecursionOnNumbers
<1>3. f \in [0..8 -> Nat] /\ \A w \in 0..8 : f[w] = IF w = 0 THEN 1 ELSE step[<<f[w - 1], w>>]
  BY <1>2 DEF RecursiveOnNumbers
<1>4. \A w \in 1..8 : f[w] = Base * f[w - 1]
  <2> SUFFICES ASSUME NEW w \in 1..8
               PROVE  f[w] = Base * f[w - 1]
    OBVIOUS
  <2>1. w - 1 \in 0..8 /\ w # 0 /\ w \in 0..8
    OBVIOUS
  <2>2. f[w] = step[<<f[w - 1], w>>] /\ f[w - 1] \in Nat
    BY <1>3, <2>1
  <2> QED
    BY <2>2
<1>5. Solves(f)
  BY <1>3, <1>4
<1>6. Power = CHOOSE g : Solves(g)
  BY DEF Power
<1>7. Solves(Power)
  <2> HIDE DEF Solves
  <2> QED
    BY <1>5, <1>6
<1> HIDE DEF step
<1>8. \A w \in 0..8 : Power[w] = IF w = 0 THEN 1 ELSE Base * Power[w - 1]
  BY <1>7
<1>9. \A w \in 0..8 : Power[w] \in Nat
  <2> DEFINE T == {w \in 0..8 : Power[w] \in Nat}
  <2>1. 0 \in T
    BY <1>8
  <2>2. \A w \in T : w < 8 => w + 1 \in T
    BY <1>8, BaseIsPositive
  <2>3. T \in SUBSET (0..8)
    OBVIOUS
  <2> HIDE DEF T
  <2>4. \A w \in 0..8 : w \in T
    BY <2>1, <2>2, <2>3, SetInductionUpTo
  <2> QED
    BY <2>4 DEF T
<1> QED
  BY <1>7, <1>8, <1>9

\* What n leaves when it is divided i times.
Quotients(q, n, w) ==
  /\ q \in [0..w -> Nat]
  /\ q[0] = n
  /\ \A i \in 1..w : q[i] = q[i - 1] \div Base

LEMMA LittleEndianIs ==
  ASSUME NEW n \in Nat, NEW w \in Nat
  PROVE  \E q : Quotients(q, n, w) /\ LittleEndian(n, w) = [i \in 1..w |-> q[i - 1] % Base]
<1> DEFINE step == [x \in Nat \X (1..w) |-> x[1] \div Base]
           Solves(f) == f = [i \in 0..w |-> IF i = 0 THEN n ELSE f[i - 1] \div Base]
           quotient == CHOOSE f : Solves(f)
<1>1. step \in [Nat \X (1..w) -> Nat]
  BY BaseIsPositive, Euclid
<1>2. PICK f : RecursiveOnNumbers(f, w, Nat, n, step)
  <2> HIDE DEF step
  <2> QED
    BY <1>1, RecursionOnNumbers
<1>3. f \in [0..w -> Nat] /\ \A i \in 0..w : f[i] = IF i = 0 THEN n ELSE step[<<f[i - 1], i>>]
  BY <1>2 DEF RecursiveOnNumbers
<1>4. \A i \in 1..w : f[i] = f[i - 1] \div Base
  <2> SUFFICES ASSUME NEW i \in 1..w
               PROVE  f[i] = f[i - 1] \div Base
    OBVIOUS
  <2>1. i - 1 \in 0..w /\ i # 0 /\ i \in 0..w
    OBVIOUS
  <2>2. f[i] = step[<<f[i - 1], i>>] /\ f[i - 1] \in Nat
    BY <1>3, <2>1
  <2> QED
    BY <2>2
<1>5. Solves(f)
  <2> HIDE DEF step
  <2>1. \A i \in 0..w : f[i] = IF i = 0 THEN n ELSE f[i - 1] \div Base
    <3>1. f[0] = n
      <4>1. 0 \in 0..w
        OBVIOUS
      <4> QED
        BY <1>3, <4>1
    <3>2. \A i \in 0..w : i # 0 => i \in 1..w
      OBVIOUS
    <3> QED
      BY <1>4, <3>1, <3>2
  <2>2. f = [i \in 0..w |-> f[i]]
    BY <1>3
  <2> QED
    BY <2>1, <2>2
<1>6. Solves(quotient)
  <2> HIDE DEF Solves
  <2> QED
    BY <1>5
<1>7. LittleEndian(n, w) = [i \in 1..w |-> quotient[i - 1] % Base]
  BY DEF LittleEndian
<1> HIDE DEF quotient, step
<1>8. \A i \in 0..w : quotient[i] = IF i = 0 THEN n ELSE quotient[i - 1] \div Base
  BY <1>6
<1>9. \A i \in 0..w : quotient[i] \in Nat
  <2> DEFINE T == {i \in 0..w : quotient[i] \in Nat}
  <2>1. 0 \in T
    BY <1>8
  <2>2. ASSUME NEW i \in T, i < w
        PROVE  i + 1 \in T
    <3>1. i + 1 \in 0..w /\ i + 1 # 0 /\ i + 1 - 1 = i /\ quotient[i] \in Nat
      BY <2>2
    <3>2. quotient[i + 1] = quotient[i] \div Base
      BY <1>8, <3>1
    <3>3. quotient[i] \div Base \in Nat
      BY <3>1, BaseIsPositive, Euclid
    <3> QED
      BY <3>1, <3>2, <3>3
  <2>3. T \in SUBSET (0..w)
    OBVIOUS
  <2> HIDE DEF T
  <2>4. \A i \in 0..w : i \in T
    BY <2>1, <2>2, <2>3, SetInductionUpTo
  <2> QED
    BY <2>4 DEF T
<1>10. Quotients(quotient, n, w)
  <2>1. quotient = [i \in 0..w |-> quotient[i]]
    BY <1>6
  <2>2. quotient \in [0..w -> Nat]
    BY <1>9, <2>1
  <2> QED
    BY <1>8, <2>2 DEF Quotients
<1> QED
  BY <1>7, <1>10

\* The number of the last i of the bytes b.
Sums(s, b) ==
  /\ s \in [0..Len(b) -> Nat]
  /\ s[0] = 0
  /\ \A i \in 1..Len(b) : s[i] = s[i - 1] * Base + b[Len(b) + 1 - i]

LEMMA NumberIs ==
  ASSUME NEW b \in Seq(Nat)
  PROVE  \E s : Sums(s, b) /\ Number(b) = s[Len(b)]
<1> DEFINE w == Len(b)
           step == [x \in Nat \X (1..w) |-> x[1] * Base + b[w + 1 - x[2]]]
           Solves(f) == f = [i \in 0..w |-> IF i = 0 THEN 0 ELSE f[i - 1] * Base + b[w + 1 - i]]
           sum == CHOOSE f : Solves(f)
<1>1. w \in Nat
  OBVIOUS
<1>2. ASSUME NEW i \in 1..w
      PROVE  b[w + 1 - i] \in Nat
  <2>1. w + 1 - i \in 1..w
    BY <1>1
  <2> QED
    BY <2>1
<1>3. \A n \in Nat, i \in 1..w : n * Base + b[w + 1 - i] \in Nat
  BY <1>2, BaseIsPositive
<1>4. step \in [Nat \X (1..w) -> Nat]
  BY <1>3
<1>5. Number(b) = sum[w]
  BY DEF Number
<1> HIDE DEF w
<1>6. PICK f : RecursiveOnNumbers(f, w, Nat, 0, step)
  <2> HIDE DEF step
  <2> QED
    BY <1>1, <1>4, RecursionOnNumbers
<1>7. f \in [0..w -> Nat] /\ \A i \in 0..w : f[i] = IF i = 0 THEN 0 ELSE step[<<f[i - 1], i>>]
  BY <1>6 DEF RecursiveOnNumbers
<1>8. \A i \in 1..w : f[i] = f[i - 1] * Base + b[w + 1 - i]
  <2> SUFFICES ASSUME NEW i \in 1..w
               PROVE  f[i] = f[i - 1] * Base + b[w + 1 - i]
    OBVIOUS
  <2>1. i - 1 \in 0..w /\ i # 0 /\ i \in 0..w
    BY <1>1
  <2>2. f[i] = step[<<f[i - 1], i>>] /\ f[i - 1] \in Nat
    BY <1>7, <2>1
  <2> QED
    BY <2>2
<1>9. Solves(f)
  <2> HIDE DEF step
  <2>1. \A i \in 0..w : f[i] = IF i = 0 THEN 0 ELSE f[i - 1] * Base + b[w + 1 - i]
    <3>1. f[0] = 0
      <4>1. 0 \in 0..w
        BY <1>1
      <4> QED
        BY <1>7, <4>1
    <3>2. \A i \in 0..w : i # 0 => i \in 1..w
      BY <1>1
    <3> QED
      BY <1>8, <3>1, <3>2
  <2>2. f = [i \in 0..w |-> f[i]]
    BY <1>7
  <2> QED
    BY <2>1, <2>2
<1>10. Solves(sum)
  <2> HIDE DEF Solves
  <2> QED
    BY <1>9
<1> HIDE DEF sum, step
<1>11. \A i \in 0..w : sum[i] = IF i = 0 THEN 0 ELSE sum[i - 1] * Base + b[w + 1 - i]
  BY <1>10
<1>12. \A i \in 0..w : sum[i] \in Nat
  <2> DEFINE T == {i \in 0..w : sum[i] \in Nat}
  <2>1. 0 \in T
    BY <1>1, <1>11
  <2>2. ASSUME NEW i \in T, i < w
        PROVE  i + 1 \in T
    <3>1. i + 1 \in 1..w /\ i + 1 # 0 /\ i + 1 - 1 = i /\ sum[i] \in Nat
      BY <1>1, <2>2
    <3>2. sum[i + 1] = sum[i] * Base + b[w + 1 - (i + 1)]
      BY <1>1, <1>11, <3>1
    <3>3. sum[i] * Base + b[w + 1 - (i + 1)] \in Nat
      BY <1>3, <3>1
    <3> QED
      BY <1>1, <3>1, <3>2, <3>3
  <2>3. T \in SUBSET (0..w)
    OBVIOUS
  <2> HIDE DEF T
  <2>4. \A i \in 0..w : i \in T
    BY <1>1, <2>1, <2>2, <2>3, SetInductionUpTo
  <2> QED
    BY <2>4 DEF T
<1>13. Sums(sum, b)
  <2>1. sum = [i \in 0..w |-> sum[i]]
    BY <1>10
  <2>2. sum \in [0..w -> Nat]
    BY <1>12, <2>1
  <2>3. sum[0] = 0 /\ \A i \in 1..w : sum[i] = sum[i - 1] * Base + b[w + 1 - i]
    BY <1>1, <1>11
  <2> QED
    BY <2>2, <2>3 DEF Sums, w
<1> QED
  BY <1>5, <1>13 DEF w

LEMMA LittleEndianType ==
  ASSUME NEW n \in Nat, NEW w \in Nat
  PROVE  LittleEndian(n, w) \in Seq(Byte) /\ Len(LittleEndian(n, w)) = w
<1>1. PICK q : Quotients(q, n, w) /\ LittleEndian(n, w) = [i \in 1..w |-> q[i - 1] % Base]
  BY LittleEndianIs
<1>2. ASSUME NEW i \in 1..w
      PROVE  q[i - 1] % Base \in Byte
  <2>1. q[i - 1] \in Nat
    BY <1>1 DEF Quotients
  <2> QED
    BY <2>1, BaseIsPositive, Euclid DEF Byte
<1>3. LittleEndian(n, w) \in [1..w -> Byte]
  BY <1>1, <1>2
<1> QED
  BY <1>3

\* What is written in bytes enough is read back.
LEMMA NumberOfLittleEndian ==
  ASSUME NEW n \in Nat, NEW w \in 0..8, n < Power[w]
  PROVE  Number(LittleEndian(n, w)) = n
<1> DEFINE b == LittleEndian(n, w)
<1>1. PICK q : Quotients(q, n, w) /\ b = [i \in 1..w |-> q[i - 1] % Base]
  <2>1. w \in Nat
    OBVIOUS
  <2> QED
    BY <2>1, LittleEndianIs
<1>2. b \in Seq(Nat) /\ Len(b) = w
  <2>1. w \in Nat
    OBVIOUS
  <2>2. b \in Seq(Byte) /\ Len(b) = w
    BY <2>1, LittleEndianType
  <2> HIDE DEF b
  <2>3. b \in Seq(Nat)
    BY <2>2, BytesAreNumbers
  <2> QED
    BY <2>2, <2>3
<1> HIDE DEF b
<1>3. PICK s : Sums(s, b) /\ Number(b) = s[w]
  BY <1>2, NumberIs
<1>4. q \in [0..w -> Nat] /\ q[0] = n /\ \A i \in 1..w : q[i] = q[i - 1] \div Base
  BY <1>1 DEF Quotients
<1>5. \A i \in 0..w : q[i] < Power[w - i]
  <2> DEFINE T == {i \in 0..w : q[i] < Power[w - i]}
  <2>1. 0 \in T
    BY <1>4
  <2>2. ASSUME NEW i \in T, i < w
        PROVE  i + 1 \in T
    <3>1. i + 1 \in 1..w /\ i + 1 - 1 = i /\ q[i] \in Nat /\ q[i] < Power[w - i]
      BY <1>4, <2>2
    <3>2. w - i \in 1..8 /\ w - i - 1 \in 0..8 /\ w - i - 1 = w - (i + 1)
      BY <2>2
    <3>3. Power[w - i] = Base * Power[w - (i + 1)] /\ Power[w - (i + 1)] \in Nat
      BY <3>2, PowerIs
    <3>4. q[i] \div Base < Power[w - (i + 1)]
      BY <3>1, <3>3, BaseIsPositive, SmallQuotient
    <3>5. q[i + 1] = q[i] \div Base
      BY <1>4, <3>1
    <3> QED
      BY <3>1, <3>4, <3>5
  <2>3. T \in SUBSET (0..w) /\ w \in Nat
    OBVIOUS
  <2> HIDE DEF T
  <2>4. \A i \in 0..w : i \in T
    BY <2>1, <2>2, <2>3, SetInductionUpTo
  <2> QED
    BY <2>4 DEF T
<1>6. q[w] = 0
  <2>1. q[w] < Power[w - w] /\ w - w = 0 /\ q[w] \in Nat
    BY <1>4, <1>5
  <2> QED
    BY <2>1, PowerIs
<1>7. /\ s[0] = 0
      /\ \A i \in 1..w : s[i] = s[i - 1] * Base + b[w + 1 - i]
  BY <1>2, <1>3 DEF Sums
<1>8. \A i \in 0..w : s[i] = q[w - i]
  <2> DEFINE T == {i \in 0..w : s[i] = q[w - i]}
  <2>1. 0 \in T
    BY <1>6, <1>7
  <2>2. ASSUME NEW i \in T, i < w
        PROVE  i + 1 \in T
    <3> DEFINE j == w - i
    <3>1. j \in 1..w /\ j - 1 = w - (i + 1) /\ j - 1 \in 0..w /\ w + 1 - (i + 1) = j
      BY <2>2
    <3>2. i + 1 \in 1..w /\ i + 1 - 1 = i /\ s[i] = q[j]
      BY <2>2
    <3> HIDE DEF j
    <3>3. s[i + 1] = q[j] * Base + b[j]
      BY <1>7, <3>1, <3>2
    <3>4. q[j - 1] \in Nat /\ q[j] = q[j - 1] \div Base /\ b[j] = q[j - 1] % Base
      BY <1>1, <1>4, <3>1
    <3>5. q[j - 1] = (q[j - 1] \div Base) * Base + (q[j - 1] % Base)
      BY <3>4, BaseIsPositive, Euclid
    <3>6. s[i + 1] = q[j - 1]
      BY <3>3, <3>4, <3>5
    <3> QED
      BY <3>1, <3>2, <3>6
  <2>3. T \in SUBSET (0..w) /\ w \in Nat
    OBVIOUS
  <2> HIDE DEF T
  <2>4. \A i \in 0..w : i \in T
    BY <2>1, <2>2, <2>3, SetInductionUpTo
  <2> QED
    BY <2>4 DEF T
<1>9. s[w] = n
  <2>1. w \in 0..w /\ w - w = 0
    OBVIOUS
  <2> QED
    BY <1>4, <1>8, <2>1
<1> QED
  BY <1>3, <1>9 DEF b

-----------------------------------------------------------------------------
(* Scripts.                                                                *)

\* What Encode writes for an instruction.
Code(x) == IF x.Data = <<>> THEN <<x.Opcode>> ELSE size(Len(x.Data)) \o x.Data

Codes(s) == [i \in 1..Len(s) |-> Code(s[i])]

LEMMA NumberType ==
  ASSUME NEW b \in Seq(Byte)
  PROVE  Number(b) \in Nat
<1>1. b \in Seq(Nat) /\ Len(b) \in Nat
  BY BytesAreNumbers
<1>2. PICK s : Sums(s, b) /\ Number(b) = s[Len(b)]
  BY <1>1, NumberIs
<1> QED
  BY <1>1, <1>2 DEF Sums

\* The four sizes of a size.
LEMMA SizeIs ==
  ASSUME NEW n \in Nat
  PROVE  \/ n < OP_PUSHDATA1 /\ size(n) = <<n>>
         \/ n >= OP_PUSHDATA1 /\ n < Base /\ size(n) = <<OP_PUSHDATA1, n>>
         \/ n >= Base /\ n < Power[2] /\ size(n) = <<OP_PUSHDATA2>> \o LittleEndian(n, 2)
         \/ n >= Power[2] /\ n >= Base /\ size(n) = <<OP_PUSHDATA4>> \o LittleEndian(n, 4)
<1>1. Base \in Nat /\ OP_PUSHDATA1 \in Nat /\ OP_PUSHDATA1 < Base
  BY OpcodesAssumption
<1>2. Power[2] \in Nat /\ Base <= Power[2]
  <2>1. Power[2] = Base * Power[1] /\ Power[1] = Base * Power[0] /\ Power[0] = 1
    BY PowerIs
  <2>2. Base * Base \in Nat /\ Base <= Base * Base
    BY <1>1
  <2> QED
    BY <1>1, <2>1, <2>2
<1>3. CASE n < OP_PUSHDATA1
  BY <1>1, <1>2, <1>3 DEF size
<1>4. CASE n >= OP_PUSHDATA1 /\ n < Base
  BY <1>1, <1>2, <1>4 DEF size
<1>5. CASE n >= Base /\ n < Power[2]
  BY <1>1, <1>2, <1>5 DEF size
<1>6. CASE n >= Power[2]
  BY <1>1, <1>2, <1>6 DEF size
<1> QED
  BY <1>1, <1>2, <1>3, <1>4, <1>5, <1>6

LEMMA SizeType ==
  ASSUME NEW n \in Nat
  PROVE  size(n) \in Seq(Byte) /\ size(n) # <<>>
<1>1. LittleEndian(n, 2) \in Seq(Byte) /\ LittleEndian(n, 4) \in Seq(Byte)
  BY LittleEndianType
<1>2. OP_PUSHDATA1 \in Byte /\ OP_PUSHDATA2 \in Byte /\ OP_PUSHDATA4 \in Byte
  BY OpcodesAssumption DEF Byte
<1>3. n < Base => n \in Byte
  BY OpcodesAssumption DEF Byte
<1>4. n < OP_PUSHDATA1 => n < Base
  BY OpcodesAssumption
<1>5. \A b \in Byte : <<b>> \in Seq(Byte) /\ Len(<<b>>) = 1
  OBVIOUS
<1>6. \A b \in Byte, t \in Seq(Byte) : <<b>> \o t \in Seq(Byte) /\ <<b>> \o t # <<>>
  <2> SUFFICES ASSUME NEW b \in Byte, NEW t \in Seq(Byte)
               PROVE  <<b>> \o t \in Seq(Byte) /\ <<b>> \o t # <<>>
    OBVIOUS
  <2>1. Len(<<b>> \o t) = 1 + Len(t) /\ <<b>> \o t \in Seq(Byte) /\ Len(t) \in Nat
    BY <1>5, ConcatProperties, LenProperties
  <2>2. Len(<<>>) = 0
    OBVIOUS
  <2> QED
    BY <2>1, <2>2
<1>7. CASE n < OP_PUSHDATA1 /\ size(n) = <<n>>
  BY <1>3, <1>4, <1>7
<1>8. CASE n < Base /\ size(n) = <<OP_PUSHDATA1, n>>
  BY <1>2, <1>3, <1>8
<1>9. CASE size(n) = <<OP_PUSHDATA2>> \o LittleEndian(n, 2)
  BY <1>1, <1>2, <1>6, <1>9
<1>10. CASE size(n) = <<OP_PUSHDATA4>> \o LittleEndian(n, 4)
  BY <1>1, <1>2, <1>6, <1>10
<1> QED
  BY SizeIs, <1>7, <1>8, <1>9, <1>10

LEMMA CodeType ==
  ASSUME NEW x \in Instruction
  PROVE  Code(x) \in Seq(Byte)
<1>1. x.Opcode \in Byte /\ x.Data \in Seq(Byte)
  BY DEF Instruction
<1>2. Len(x.Data) \in Nat
  BY <1>1
<1>3. size(Len(x.Data)) \in Seq(Byte)
  BY <1>2, SizeType
<1> QED
  BY <1>1, <1>3, ConcatProperties DEF Code

LEMMA CodesType ==
  ASSUME NEW s \in Seq(Instruction)
  PROVE  /\ Codes(s) \in Seq(Seq(Byte)) /\ Len(Codes(s)) = Len(s)
         /\ \A i \in 1..Len(s) : Codes(s)[i] = Code(s[i])
         /\ Encode(s) = FlattenSeq(Codes(s))
<1>1. Len(s) \in Nat /\ DOMAIN s = 1..Len(s) /\ \A i \in 1..Len(s) : s[i] \in Instruction
  BY ElementOfSeq, LenProperties
<1>2. \A i \in 1..Len(s) : Code(s[i]) \in Seq(Byte)
  BY <1>1, CodeType
<1>3. Codes(s) \in [1..Len(s) -> Seq(Byte)]
  BY <1>2 DEF Codes
<1>4. Codes(s) \in Seq(Seq(Byte)) /\ Len(Codes(s)) = Len(s)
  BY <1>1, <1>3, IsASeq, LenProperties
<1>5. Encode(s) = FlattenSeq(Codes(s))
  BY <1>1 DEF Encode, Codes, Code
<1> QED
  BY <1>4, <1>5 DEF Codes

\* What sequences are when they are joined.
LEMMA FlattenIs ==
  ASSUME NEW C, NEW s \in Seq(Seq(C))
  PROVE  \E f : Joins(f, s, C) /\ FlattenSeq(s) = f[Len(s)]
BY FlattenedIs DEF FlattenSeq, Flattened

LEMMA EncodeType ==
  ASSUME NEW s \in Seq(Instruction)
  PROVE  Encode(s) \in Seq(Byte)
<1>1. Codes(s) \in Seq(Seq(Byte)) /\ Encode(s) = FlattenSeq(Codes(s))
  BY CodesType
<1>2. PICK f : Joins(f, Codes(s), Byte) /\ FlattenSeq(Codes(s)) = f[Len(Codes(s))]
  BY <1>1, FlattenIs
<1>3. Len(Codes(s)) \in Nat
  BY <1>1, LenProperties
<1> QED
  BY <1>1, <1>2, <1>3 DEF Joins

\* Decode is between two bytes of the script, and ends behind the last.
ReaderInv ==
  /\ data \in Seq(Byte)
  /\ offset \in 0..Len(data)
  /\ pc \in {"decode", "done", "error"}
  /\ pc = "done" => offset = Len(data)

LEMMA ReaderStarts ==
  ASSUME Init
  PROVE  ReaderInv
<1>1. data \in Seq(Byte)
  BY EncodeType, ScriptsAssumption DEF Init
<1> QED
  BY <1>1, LenProperties DEF Init, ReaderInv

\* The bytes of a size are in the script if they are within bounds.
LEMMA SizeIsRead ==
  ASSUME ReaderInv, offset < Len(data), NEW skip \in Nat, NEW used \in 0..skip,
         offset + 1 + skip <= Len(data)
  PROVE  Bytes(offset + 1, used) \in Seq(Byte) /\ Number(Bytes(offset + 1, used)) \in Nat
<1>1. data \in Seq(Byte) /\ offset \in Nat /\ Len(data) \in Nat
  BY LenProperties DEF ReaderInv
<1>2. \A i \in (offset + 1 + 1)..(offset + 1 + used) : data[i] \in Byte
  <2>1. \A i \in (offset + 1 + 1)..(offset + 1 + used) : i \in 1..Len(data)
    BY <1>1
  <2> QED
    BY <1>1, <2>1, ElementOfSeq
<1>3. Bytes(offset + 1, used) \in Seq(Byte)
  <2>1. offset + 1 + 1 \in Int /\ offset + 1 + used \in Int
    BY <1>1
  <2> QED
    BY <1>2, <2>1, SubSeqProperties DEF Bytes
<1> QED
  BY <1>3, NumberType

LEMMA ReadPushStays ==
  ASSUME ReaderInv, readPush
  PROVE  ReaderInv'
<1> DEFINE opcode == data[offset + 1]
           s == SizeBytes(opcode)
           n == IF opcode < OP_PUSHDATA1 THEN opcode ELSE Number(Bytes(offset + 1, s.used))
           body == offset + 1 + s.skip
<1>1. /\ data' = data /\ offset < Len(data) /\ pc = "decode"
      /\ \/ ~withinBounds(offset + 1, s.skip) /\ Fails
         \/ withinBounds(offset + 1, s.skip) /\ ~withinBounds(body, n) /\ Fails
         \/ /\ withinBounds(offset + 1, s.skip) /\ withinBounds(body, n)
            /\ offset' = body + n /\ pc' = pc
  BY DEF readPush, withinBounds, Inside
<1>2. data \in Seq(Byte) /\ offset \in Nat /\ Len(data) \in Nat
  BY LenProperties DEF ReaderInv
<1>3. opcode \in Nat
  <2>1. offset + 1 \in 1..Len(data)
    BY <1>1, <1>2
  <2>2. data[offset + 1] \in Byte
    BY <1>2, <2>1, ElementOfSeq
  <2> QED
    BY <2>2, BaseIsPositive
<1>4. s.skip \in Nat /\ s.used \in 0..s.skip
  BY DEF SizeBytes
<1>5. CASE Fails
  BY <1>1, <1>5 DEF Fails, ReaderInv
<1>6. CASE /\ withinBounds(offset + 1, s.skip) /\ withinBounds(body, n)
           /\ offset' = body + n /\ pc' = pc
  <2>1. Number(Bytes(offset + 1, s.used)) \in Nat
    <3> HIDE DEF s
    <3> QED
      BY <1>1, <1>4, <1>6, SizeIsRead DEF withinBounds
  <2>2. n \in Nat
    BY <1>3, <2>1
  <2> HIDE DEF n, s
  <2>3. offset' \in 0..Len(data)
    BY <1>2, <1>4, <1>6, <2>2 DEF withinBounds
  <2> QED
    BY <1>1, <1>2, <1>6, <2>3 DEF ReaderInv
<1> QED
  BY <1>1, <1>5, <1>6

LEMMA ReaderSteps ==
  ASSUME ReaderInv, [Next]_vars
  PROVE  ReaderInv'
<1>1. CASE UNCHANGED vars
  BY <1>1 DEF vars, ReaderInv
<1>2. CASE readOpcode
  <2>1. data \in Seq(Byte) /\ offset \in Nat /\ Len(data) \in Nat
    BY LenProperties DEF ReaderInv
  <2> QED
    BY <1>2, <2>1 DEF readOpcode, ReaderInv
<1>3. CASE endDecode
  <2>1. data \in Seq(Byte) /\ offset \in Nat /\ Len(data) \in Nat
    BY LenProperties DEF ReaderInv
  <2> QED
    BY <1>3, <2>1 DEF endDecode, ReaderInv
<1> QED
  BY <1>1, <1>2, <1>3, ReadPushStays DEF Next

\* Decode looks at no byte beyond the script and uses every one of them, for any
\* bytes (script.go:89-155).
THEOREM ScriptReadsInsideHolds == CodecsSpec => []ScriptReadsInside
<1> DEFINE I == codec = "script" => ReaderInv
<1>1. CodecsInit => I
  BY ReaderStarts DEF CodecsInit, ScriptInit, OthersInit
<1>2. I /\ [CodecsNext]_allVars => I'
  <2>1. CASE UNCHANGED allVars
    BY <2>1, ReaderSteps DEF allVars, scriptVars, vars
  <2>2. CASE CodecsNext
    BY <2>2, ReaderSteps DEF CodecsNext, ScriptNext, Of
  <2> QED
    BY <2>1, <2>2
<1>3. I => ScriptReadsInside
  <2>1. data \in Seq(Byte) => Len(data) \in Nat
    BY LenProperties
  <2> QED
    BY <2>1 DEF ReaderInv, ScriptReadsInside, ReadsInside
<1> QED
  BY <1>1, <1>2, <1>3, PTL DEF CodecsSpec

-----------------------------------------------------------------------------
(* Paths of keys.                                                          *)

Summed(c) == IF c.hardened THEN c.n + FirstHardenedChild ELSE c.n

\* The components that are left are the last of the path; a key of Thunder's is
\* that of the sums of the others.
PathInv ==
  /\ given \in Paths
  /\ got \in Seq(Int) /\ text \in Seq(Path!Component)
  /\ Len(got) + Len(text) = Len(given.path)
  /\ \A j \in 1..Len(text) : text[j] = given.path[Len(got) + j]
  /\ pc = "derived" => text = <<>>
  /\ given.wallet = "ed25519" =>
       \A i \in 1..Len(got) : got[i] = Summed(given.path[i])

\* A hardened index in 32 bits that Thunder's wallet derives has not wrapped.
LEMMA HardenedSum ==
  ASSUME NEW c \in Path!Component, c.n \in Path!Uint32,
         FirstHardenedChild \in Nat \ {0}
  PROVE  /\ Path!index(c) \in Int
         /\ Path!Derives("ed25519", Path!index(c)) => Path!index(c) = Summed(c)
<1> DEFINE F == FirstHardenedChild
<1>1. c.n \in 0..(2 * F - 1) /\ F \in Nat \ {0} /\ 2 * F \in Nat \ {0} /\ c.hardened \in BOOLEAN
  BY DEF Path!Uint32, Path!Component
<1>2. CASE c.hardened /\ c.n < F
  <2>1. c.n + F \in 0..(2 * F - 1)
    BY <1>1, <1>2
  <2>2. (c.n + F) % (2 * F) = c.n + F
    BY <1>1, <2>1
  <2> QED
    BY <1>1, <1>2, <2>2 DEF Path!index, Summed
<1>3. CASE c.hardened /\ ~(c.n < F)
  <2>1. (c.n + F) % (2 * F) = c.n - F
    BY <1>1, <1>3
  <2>2. c.n - F < F /\ c.n - F \in Int
    BY <1>1, <1>3
  <2> QED
    BY <1>1, <1>3, <2>1, <2>2 DEF Path!index, Path!Derives
<1>4. CASE ~c.hardened
  BY <1>1, <1>4 DEF Path!index, Summed
<1> QED
  BY <1>1, <1>2, <1>3, <1>4

LEMMA PathStarts ==
  ASSUME Path!Init
  PROVE  PathInv
BY CodecsAssumption DEF Path!PathsAssumption, Path!Init, PathInv

LEMMA PathSteps ==
  ASSUME PathInv, [Path!Next]_(Path!vars)
  PROVE  PathInv'
<1>1. CASE UNCHANGED Path!vars
  BY <1>1 DEF Path!vars, PathInv
<1>2. CASE Path!parseFails \/ Path!deriveFails
  BY <1>2 DEF Path!parseFails, Path!deriveFails, PathInv
<1>3. CASE Path!DeriveKeyAtPath
  BY <1>3 DEF Path!DeriveKeyAtPath, PathInv
<1>4. CASE Path!derive
  <2> DEFINE c == Head(text)
  <2>1. /\ text # <<>> /\ c.n \in Path!Uint32 /\ Path!Derives(given.wallet, Path!index(c))
        /\ got' = Append(got, Path!index(c)) /\ text' = Tail(text)
        /\ given' = given /\ pc' = pc /\ pc = "derive"
    BY <1>4 DEF Path!derive
  <2>2. c \in Path!Component /\ c = text[1] /\ Len(text) \in Nat \ {0}
    <3>1. text \in Seq(Path!Component) /\ text # <<>>
      BY <2>1 DEF PathInv
    <3>2. Len(text) \in Nat \ {0} /\ Head(text) = text[1]
      BY <3>1
    <3>3. text[1] \in Path!Component
      BY <3>1, <3>2, ElementOfSeq
    <3> QED
      BY <3>2, <3>3
  <2>3. c = given.path[Len(got) + 1]
    BY <2>2 DEF PathInv
  <2>4. FirstHardenedChild \in Nat \ {0}
    BY CodecsAssumption DEF Path!PathsAssumption
  <2>5. /\ Path!index(c) \in Int
        /\ given.wallet = "ed25519" => Path!index(c) = Summed(c)
    BY <2>1, <2>2, <2>4, HardenedSum
  <2> HIDE DEF c
  <2>6. /\ got' \in Seq(Int) /\ Len(got') = Len(got) + 1
        /\ \A i \in 1..Len(got) : got'[i] = got[i]
        /\ got'[Len(got) + 1] = Path!index(c)
    BY <2>1, <2>5 DEF PathInv
  <2>7. /\ text' \in Seq(Path!Component) /\ Len(text') = Len(text) - 1
        /\ \A j \in 1..Len(text') : text'[j] = text[j + 1]
    BY <2>1 DEF PathInv
  <2>8. \A j \in 1..Len(text') : text'[j] = given'.path[Len(got') + j]
    BY <2>1, <2>6, <2>7 DEF PathInv
  <2>9. given'.wallet = "ed25519" => \A i \in 1..Len(got') : got'[i] = Summed(given'.path[i])
    BY <2>1, <2>3, <2>5, <2>6 DEF PathInv
  <2>10. Len(got') + Len(text') = Len(given'.path)
    <3>1. Len(got) \in Nat /\ Len(text) \in Nat /\ Len(got) + Len(text) = Len(given.path)
      BY DEF PathInv
    <3>2. Len(got') + Len(text') = Len(got) + Len(text)
      BY <2>6, <2>7, <3>1
    <3>3. given'.path = given.path
      BY <2>1
    <3> QED
      BY <3>1, <3>2, <3>3
  <2> QED
    BY <2>1, <2>6, <2>7, <2>8, <2>9, <2>10 DEF PathInv
<1> QED
  BY <1>1, <1>2, <1>3, <1>4 DEF Path!Next

-----------------------------------------------------------------------------
(* The codecs side by side.                                                *)

\* Thunder's wallet derives no key under another number than that of its path, for
\* a path of any length and any width of an index (bip380.go:92-107,
\* bip32ed25519.go:30-33).
THEOREM ThunderKeysKeptHolds == CodecsSpec => []ThunderKeysKept
<1> DEFINE I == codec = "path" => PathInv
<1>1. CodecsInit => I
  BY PathStarts DEF CodecsInit, ScriptInit, OthersInit
<1>2. I /\ [CodecsNext]_allVars => I'
  <2>1. CASE UNCHANGED allVars
    BY <2>1, PathSteps DEF allVars, codecVars, Path!vars
  <2>2. CASE CodecsNext
    BY <2>2, PathSteps DEF CodecsNext, ScriptNext, Of
  <2> QED
    BY <2>1, <2>2
<1>3. I => ThunderKeysKept
  <2>1. ASSUME codec = "path", PathInv
        PROVE  Path!ThunderKeysKept
    <3>1. pc = "derived" => Len(text) = 0
      BY <2>1 DEF PathInv
    <3> QED
      BY <2>1, <3>1 DEF PathInv, Path!ThunderKeysKept, Summed
  <2> QED
    BY <2>1 DEF ThunderKeysKept
<1> QED
  BY <1>1, <1>2, <1>3, PTL DEF CodecsSpec

-----------------------------------------------------------------------------
(* Heights.                                                                *)

From(i) == given.blocks[i].slices[1].from

\* Of every block the bytes of its height are as they were read, and what was
\* returned of it is its height.
HeightInv ==
  /\ given \in Buffers
  /\ text \in Seq(Nat) /\ Len(text) = Len(given.bytes)
  /\ DOMAIN got = DOMAIN given.blocks
  /\ \A i \in DOMAIN given.blocks :
       /\ \A k \in (From(i) + 1)..(From(i) + 1 + given.bytes[From(i) + 1]) :
            text[k] = given.bytes[k]
       /\ got[i] \in {Coin!None, given.blocks[i].height}

LEMMA BuffersAre == Coin!BuffersAssumption
BY CodecsAssumption

LEMMA HeightStarts ==
  ASSUME Coin!Init
  PROVE  HeightInv
<1>1. given \in Buffers /\ given.bytes \in Seq(Nat) /\ text = given.bytes
  BY BuffersAre DEF Coin!Init, Coin!BuffersAssumption
<1> QED
  BY <1>1 DEF Coin!Init, HeightInv

LEMMA BlockIs ==
  ASSUME given \in Buffers, NEW i \in DOMAIN given.blocks
  PROVE  /\ Word64 \in Nat /\ given.bytes \in Seq(Nat)
         /\ From(i) \in Nat /\ given.bytes[From(i) + 1] \in 0..Word64
         /\ given.bytes[From(i) + 1] < given.blocks[i].slices[1].len
         /\ given.blocks[i].slices[1].len \in Nat
         /\ From(i) + 1 + given.bytes[From(i) + 1] <= Len(given.bytes)
         /\ given.blocks[i].height
              = Coin!Number(SubSeq(given.bytes, From(i) + 2,
                                   From(i) + 1 + given.bytes[From(i) + 1]))
<1>1. Word64 \in Nat /\ given.bytes \in Seq(Nat) /\ Coin!IsBlock(given.bytes, given.blocks[i])
  BY BuffersAre DEF Coin!BuffersAssumption
<1> DEFINE from == given.blocks[i].slices[1].from
           len == given.blocks[i].slices[1].len
           l == given.bytes[from + 1]
<1>2. /\ from \in Nat /\ len \in Nat /\ len > 0 /\ from + len <= Len(given.bytes)
      /\ l < len /\ l <= Word64
      /\ given.blocks[i].height
           = Coin!Number(SubSeq(given.bytes, from + 2, from + 1 + l))
  BY <1>1 DEF Coin!IsBlock
<1>3. Len(given.bytes) \in Nat
  BY <1>1, LenProperties
<1>4. l \in Nat
  <2> HIDE DEF from, len
  <2>1. from + 1 \in 1..Len(given.bytes)
    BY <1>2, <1>3
  <2> QED
    BY <1>1, <2>1, ElementOfSeq
<1>5. from + 1 + l <= Len(given.bytes) /\ l \in 0..Word64
  <2> HIDE DEF from, len, l
  <2> QED
    BY <1>1, <1>2, <1>3, <1>4
<1> QED
  BY <1>1, <1>2, <1>5 DEF From

LEMMA BlocksApart ==
  ASSUME given \in Buffers, NEW i \in DOMAIN given.blocks, NEW j \in DOMAIN given.blocks, i # j
  PROVE  From(i) + Word64 < From(j) \/ From(j) + Word64 < From(i)
BY BuffersAre DEF Coin!BuffersAssumption, From

LEMMA HeightSteps ==
  ASSUME HeightInv, Coin!Next
  PROVE  HeightInv'
<1>1. PICK i \in DOMAIN given.blocks : Coin!Height(i)
  BY DEF Coin!Next
<1> DEFINE from == From(i)
           l == text[from + 1]
           at == from + 1
<1>2. given \in Buffers /\ text \in Seq(Nat) /\ Len(text) \in Nat /\ Len(text) = Len(given.bytes)
  BY LenProperties DEF HeightInv
<1>3. /\ Word64 \in Nat /\ from \in Nat /\ l \in 0..Word64 /\ l = given.bytes[from + 1]
      /\ l < given.blocks[i].slices[1].len /\ given.blocks[i].slices[1].len \in Nat
      /\ from + 1 + l <= Len(text) /\ given.bytes \in Seq(Nat)
      /\ given.blocks[i].height = Coin!Number(SubSeq(given.bytes, from + 2, from + 1 + l))
  <2>1. from \in Nat /\ given.bytes[from + 1] \in Nat
    BY <1>2, BlockIs
  <2>2. from + 1 \in (from + 1)..(from + 1 + given.bytes[from + 1])
    BY <2>1
  <2>3. l = given.bytes[from + 1]
    BY <2>2 DEF HeightInv
  <2> QED
    BY <1>2, <2>3, BlockIs
<1>4. /\ given' = given
      /\ got' = [got EXCEPT ![i] = Coin!Number(Coin!heightBytes(text, at, l))]
      /\ text' = IF l < Word64 THEN Coin!Appended(text, at, l) ELSE text
  <2>1. ~(given.blocks[i].slices[1].len - 1 < l)
    BY <1>3
  <2> QED
    BY <1>1, <2>1 DEF Coin!Height, From
<1> HIDE DEF from, l
<1>5. Coin!heightBytes(text, at, l) = SubSeq(given.bytes, from + 2, from + 1 + l)
  <2>1. Coin!Min({l, Word64}) = l
    BY <1>3 DEF Coin!Min
  <2>2. Coin!heightBytes(text, at, l) = SubSeq(text, from + 2, from + 1 + l)
    <3>1. at + 1 = from + 2 /\ at + l = from + 1 + l
      BY <1>3
    <3>2. Coin!heightBytes(text, at, l) = SubSeq(text, at + 1, at + Coin!Min({l, Word64}))
      BY DEF Coin!heightBytes
    <3> QED
      BY <2>1, <3>1, <3>2
  <2>3. \A k \in (from + 2)..(from + 1 + l) : text[k] = given.bytes[k]
    <3>1. \A k \in (from + 1)..(from + 1 + l) : text[k] = given.bytes[k]
      BY <1>1, <1>3 DEF HeightInv, from
    <3> QED
      BY <1>3, <3>1
  <2>4. SubSeq(text, from + 2, from + 1 + l) = SubSeq(given.bytes, from + 2, from + 1 + l)
    <3> DEFINE a == from + 2
               z == from + 1 + l
               b == given.bytes
    <3>1. a \in Int /\ z \in Int /\ \A k \in a..z : text[k] = b[k]
      BY <1>3, <2>3
    <3> HIDE DEF a, z, b
    <3>2. SubSeq(text, a, z) = [k \in 1..(z - a + 1) |-> text[a + k - 1]]
      BY <3>1
    <3>3. SubSeq(b, a, z) = [k \in 1..(z - a + 1) |-> b[a + k - 1]]
      BY <3>1
    <3>4. \A k \in 1..(z - a + 1) : text[a + k - 1] = b[a + k - 1]
      <4>1. \A k \in 1..(z - a + 1) : a + k - 1 \in a..z
        BY <3>1
      <4> QED
        BY <3>1, <4>1
    <3> QED
      BY <3>2, <3>3, <3>4 DEF a, z, b
  <2> QED
    BY <2>2, <2>4
<1>6. got'[i] = given.blocks[i].height
  BY <1>1, <1>3, <1>4, <1>5 DEF HeightInv
<1>7. DOMAIN got' = DOMAIN got /\ \A j \in DOMAIN got : j # i => got'[j] = got[j]
  BY <1>4
<1>8. text' \in Seq(Nat) /\ Len(text') = Len(text)
      /\ \A k \in 1..Len(text) :
           text'[k] # text[k] => k \in (from + 2 + l)..(from + 1 + Word64)
  <2>1. CASE text' = text
    BY <1>2, <2>1
  <2>2. CASE text' = Coin!Zeroed(text, at + l, Word64 - l)
    <3>1. text' = [k \in 1..Len(text) |->
                     IF k \in (from + 2 + l)..(from + 1 + Word64) THEN 0 ELSE text[k]]
      <4>1. DOMAIN text = 1..Len(text)
        BY <1>2
      <4>2. from \in Nat /\ l \in Nat /\ Word64 \in Nat
        BY <1>3
      <4>3. at + l + 1 = from + 2 + l /\ at + l + (Word64 - l) = from + 1 + Word64
        BY <4>2
      <4> QED
        BY <2>2, <4>1, <4>3 DEF Coin!Zeroed
    <3>2. text' \in [1..Len(text) -> Nat]
      BY <1>2, <3>1
    <3> QED
      BY <1>2, <3>1, <3>2
  <2> QED
    BY <1>4, <2>1, <2>2 DEF Coin!Appended
<1>9. ASSUME NEW j \in DOMAIN given.blocks,
             NEW k \in (From(j) + 1)..(From(j) + 1 + given.bytes[From(j) + 1])
      PROVE  text'[k] = given.bytes[k]
  <2>1. From(j) \in Nat /\ given.bytes[From(j) + 1] \in 0..Word64
        /\ From(j) + 1 + given.bytes[From(j) + 1] <= Len(text)
    BY <1>2, BlockIs
  <2>2. k \in 1..Len(text) /\ text[k] = given.bytes[k]
    BY <1>2, <2>1 DEF HeightInv
  <2>3. CASE j = i
    <3>1. From(j) = from /\ given.bytes[From(j) + 1] = l
      BY <1>3, <2>3 DEF from
    <3>2. k \notin (from + 2 + l)..(from + 1 + Word64)
      BY <1>3, <3>1
    <3> QED
      BY <1>8, <2>2, <3>2
  <2>4. CASE j # i
    <3>1. from + Word64 < From(j) \/ From(j) + Word64 < from
      BY <1>1, <1>2, <2>4, BlocksApart DEF from
    <3>2. k \notin (from + 2 + l)..(from + 1 + Word64)
      <4> DEFINE f == From(j)
                 m == given.bytes[f + 1]
      <4>1. f \in Nat /\ m \in 0..Word64 /\ k \in (f + 1)..(f + 1 + m)
            /\ (from + Word64 < f \/ f + Word64 < from)
        BY <2>1, <3>1
      <4> HIDE DEF f, m
      <4> QED
        BY <1>3, <4>1
    <3> QED
      BY <1>8, <2>2, <3>2
  <2> QED
    BY <2>3, <2>4
<1>10. \A j \in DOMAIN given.blocks : got'[j] \in {Coin!None, given.blocks[j].height}
  BY <1>6, <1>7 DEF HeightInv
<1> QED
  BY <1>2, <1>4, <1>7, <1>8, <1>9, <1>10 DEF HeightInv, From

\* Height is right for every block, however often the blocks of a buffer are asked
\* and in which order, although a call writes zeros into the buffer
\* (blkdat.go:95-120).
THEOREM HeightsRightHolds == CodecsSpec => []HeightsRight
<1> DEFINE I == codec = "height" => HeightInv
<1>1. CodecsInit => I
  BY HeightStarts DEF CodecsInit, ScriptInit, OthersInit
<1>2. I /\ [CodecsNext]_allVars => I'
  <2>1. CASE UNCHANGED allVars
    BY <2>1 DEF allVars, codecVars, HeightInv, From
  <2>2. CASE CodecsNext
    BY <2>2, HeightSteps DEF CodecsNext, ScriptNext, Of
  <2> QED
    BY <2>1, <2>2
<1>3. I => HeightsRight
  BY DEF HeightInv, HeightsRight, Coin!HeightsRight
<1> QED
  BY <1>1, <1>2, <1>3, PTL DEF CodecsSpec

-----------------------------------------------------------------------------
(* Variable-length integers.                                               *)

LEMMA TransactionsAre ==
  /\ Base \in Nat /\ Base > 3
  /\ Trans!TransactionsAssumption
BY CodecsAssumption DEF Trans!TransactionsAssumption

LEMMA SameByte == Trans!Byte = Byte
BY DEF Trans!Byte, Byte

LEMMA SamePower == Trans!Power = Power
BY DEF Trans!Power, Power

LEMMA SameLittleEndian ==
  ASSUME NEW n, NEW w
  PROVE  Trans!LittleEndian(n, w) = LittleEndian(n, w)
BY DEF Trans!LittleEndian, LittleEndian

LEMMA SameNumber ==
  ASSUME NEW b
  PROVE  Trans!Number(b) = Number(b)
BY DEF Trans!Number, Number

LEMMA PowersGrow ==
  /\ Power[2] \in Nat /\ Power[4] \in Nat /\ Power[8] \in Nat
  /\ Base <= Power[2] /\ Power[2] <= Power[4] /\ Power[4] <= Power[8]
<1>1. \A w \in 1..8 : Power[w] \in Nat /\ Power[w - 1] \in Nat /\ Power[w - 1] <= Power[w]
  <2> SUFFICES ASSUME NEW w \in 1..8
               PROVE  Power[w] \in Nat /\ Power[w - 1] \in Nat /\ Power[w - 1] <= Power[w]
    OBVIOUS
  <2>1. w \in 0..8 /\ w - 1 \in 0..8
    OBVIOUS
  <2>2. Power[w] \in Nat /\ Power[w - 1] \in Nat /\ Power[w] = Base * Power[w - 1]
    BY <2>1, PowerIs
  <2>3. \A b \in Nat \ {0}, p \in Nat : p <= b * p
    OBVIOUS
  <2> QED
    BY <2>2, <2>3, BaseIsPositive
<1>2. Power[1] = Base
  BY PowerIs, BaseIsPositive
<1> DEFINE P == Power
<1>3. /\ P[1] \in Nat /\ P[2] \in Nat /\ P[3] \in Nat /\ P[4] \in Nat
      /\ P[5] \in Nat /\ P[6] \in Nat /\ P[7] \in Nat /\ P[8] \in Nat
      /\ P[1] <= P[2] /\ P[2] <= P[3] /\ P[3] <= P[4] /\ P[4] <= P[5]
      /\ P[5] <= P[6] /\ P[6] <= P[7] /\ P[7] <= P[8]
  BY <1>1
<1> QED
  BY <1>2, <1>3

\* The four sizes of a number, by its first byte.
VarIntIs(n, v) ==
  \/ n < Base - 3 /\ v = <<n>>
  \/ \E w \in {2, 4, 8} :
       /\ n < Power[w]
       /\ v = <<CASE w = 2 -> Base - 3 [] w = 4 -> Base - 2 [] w = 8 -> Base - 1>>
                \o LittleEndian(n, w)

LEMMA AppendVarIntIs ==
  ASSUME NEW n \in Nat, n < Power[8]
  PROVE  VarIntIs(n, Trans!AppendVarInt(<<>>, n))
<1> DEFINE bytes == CASE n < Base - 3 -> <<n>>
                      [] n >= Base - 3 /\ n <= Power[2] - 1 -> <<Base - 3>> \o LittleEndian(n, 2)
                      [] n >= Power[2] /\ n <= Power[4] - 1 -> <<Base - 2>> \o LittleEndian(n, 4)
                      [] n >= Power[4] -> <<Base - 1>> \o LittleEndian(n, 8)
<1>1. Trans!AppendVarInt(<<>>, n) = <<>> \o bytes
  BY SamePower, SameLittleEndian DEF Trans!AppendVarInt
<1>2. Base \in Nat /\ Base > 3 /\ Power[2] \in Nat /\ Power[4] \in Nat
      /\ Base <= Power[2] /\ Power[2] <= Power[4]
  BY TransactionsAre, PowersGrow
<1>3. \A w \in {2, 4, 8}, b \in Byte : <<b>> \o LittleEndian(n, w) \in Seq(Byte)
  <2> SUFFICES ASSUME NEW w \in {2, 4, 8}, NEW b \in Byte
               PROVE  <<b>> \o LittleEndian(n, w) \in Seq(Byte)
    OBVIOUS
  <2>1. w \in Nat
    OBVIOUS
  <2>2. LittleEndian(n, w) \in Seq(Byte) /\ <<b>> \in Seq(Byte)
    BY <2>1, LittleEndianType
  <2> QED
    BY <2>2, ConcatProperties
<1>4. Base - 3 \in Byte /\ Base - 2 \in Byte /\ Base - 1 \in Byte
  BY <1>2 DEF Byte
<1>5. \A s \in Seq(Byte) : <<>> \o s = s
  BY ConcatEmptySeq
<1>6. CASE n < Base - 3
  <2>1. bytes = <<n>> /\ n \in Byte
    BY <1>2, <1>6 DEF Byte
  <2> HIDE DEF bytes
  <2>2. <<n>> \in Seq(Byte)
    BY <2>1
  <2> QED
    BY <1>1, <1>5, <1>6, <2>1, <2>2 DEF VarIntIs
<1>7. CASE n >= Base - 3 /\ n <= Power[2] - 1
  <2>1. bytes = <<Base - 3>> \o LittleEndian(n, 2) /\ n < Power[2]
    BY <1>2, <1>7
  <2> HIDE DEF bytes
  <2> QED
    BY <1>1, <1>3, <1>4, <1>5, <2>1 DEF VarIntIs
<1>8. CASE n >= Power[2] /\ n <= Power[4] - 1
  <2>1. bytes = <<Base - 2>> \o LittleEndian(n, 4) /\ n < Power[4]
    BY <1>2, <1>8
  <2> HIDE DEF bytes
  <2> QED
    BY <1>1, <1>3, <1>4, <1>5, <2>1 DEF VarIntIs
<1>9. CASE n >= Power[4]
  <2>1. bytes = <<Base - 1>> \o LittleEndian(n, 8)
    BY <1>2, <1>9
  <2> HIDE DEF bytes
  <2> QED
    BY <1>1, <1>3, <1>4, <1>5, <2>1 DEF VarIntIs
<1> QED
  BY <1>2, <1>6, <1>7, <1>8, <1>9

LEMMA AppendVarIntType ==
  ASSUME NEW n \in Nat, n < Power[8]
  PROVE  /\ Trans!AppendVarInt(<<>>, n) \in Seq(Byte)
         /\ Len(Trans!AppendVarInt(<<>>, n)) >= 1
<1> DEFINE v == Trans!AppendVarInt(<<>>, n)
<1>1. VarIntIs(n, v)
  BY AppendVarIntIs
<1> HIDE DEF v
<1>2. Base \in Nat /\ Base > 3
  BY TransactionsAre
<1>3. CASE n < Base - 3 /\ v = <<n>>
  <2>1. n \in Byte
    BY <1>2, <1>3 DEF Byte
  <2>2. <<n>> \in Seq(Byte) /\ Len(<<n>>) = 1
    BY <2>1
  <2>3. v \in Seq(Byte) /\ Len(v) >= 1
    BY <1>3, <2>2
  <2> QED
    BY <2>3 DEF v
<1>4. ASSUME NEW w \in {2, 4, 8},
             v = <<CASE w = 2 -> Base - 3 [] w = 4 -> Base - 2 [] w = 8 -> Base - 1>>
                   \o LittleEndian(n, w)
      PROVE  v \in Seq(Byte) /\ Len(v) >= 1
  <2> DEFINE b == CASE w = 2 -> Base - 3 [] w = 4 -> Base - 2 [] w = 8 -> Base - 1
             t == LittleEndian(n, w)
  <2>1. b \in Byte
    BY <1>2 DEF Byte
  <2>2. t \in Seq(Byte) /\ w \in Nat
    BY LittleEndianType
  <2>3. v = <<b>> \o t
    BY <1>4
  <2> HIDE DEF b, t
  <2>4. <<b>> \in Seq(Byte) /\ Len(<<b>>) = 1
    BY <2>1
  <2>5. v \in Seq(Byte) /\ Len(v) = 1 + Len(t) /\ Len(t) \in Nat
    BY <2>2, <2>3, <2>4, ConcatProperties, LenProperties
  <2> QED
    BY <2>5
<1> QED
  BY <1>1, <1>3, <1>4 DEF VarIntIs, v

\* Whatever follows it, a number is read back, and where it ends.
LEMMA DecodeOfAppend ==
  ASSUME NEW n \in Nat, n < Power[8], NEW rest \in Seq(Byte)
  PROVE  Trans!DecodeVarInt(Trans!AppendVarInt(<<>>, n) \o rest)
           = <<n, Len(Trans!AppendVarInt(<<>>, n))>>
<1> DEFINE v == Trans!AppendVarInt(<<>>, n)
           d == v \o rest
<1>1. VarIntIs(n, v) /\ v \in Seq(Byte)
  BY AppendVarIntIs, AppendVarIntType
<1>2. Base \in Nat /\ Base > 3
  BY TransactionsAre
<1> HIDE DEF v
<1>3. CASE n < Base - 3 /\ v = <<n>>
  <2>1. d[1] = n
    BY <1>1, <1>3, ConcatProperties
  <2> HIDE DEF d
  <2>2. Trans!DecodeVarInt(d) = <<d[1], 1>>
    BY <1>2, <1>3, <2>1 DEF Trans!DecodeVarInt
  <2> QED
    BY <1>3, <2>1, <2>2 DEF v, d
<1>4. ASSUME NEW w \in {2, 4, 8}, n < Power[w],
             v = <<CASE w = 2 -> Base - 3 [] w = 4 -> Base - 2 [] w = 8 -> Base - 1>>
                   \o LittleEndian(n, w)
      PROVE  Trans!DecodeVarInt(d) = <<n, Len(v)>>
  <2> DEFINE b == CASE w = 2 -> Base - 3 [] w = 4 -> Base - 2 [] w = 8 -> Base - 1
             t == LittleEndian(n, w)
  <2>1. b \in Byte
    BY <1>2 DEF Byte
  <2>2. t \in Seq(Byte) /\ Len(t) = w /\ w \in 0..8 /\ w \in Nat
    BY LittleEndianType
  <2>3. Number(t) = n
    BY <1>4, <2>2, NumberOfLittleEndian
  <2>4. v = <<b>> \o t
    BY <1>4
  <2>5. (w = 2 => b = Base - 3) /\ (w = 4 => b = Base - 2) /\ (w = 8 => b = Base - 1)
    <3>1. w = 2 => b = Base - 3
      OBVIOUS
    <3>2. w = 4 => b = Base - 2
      OBVIOUS
    <3>3. w = 8 => b = Base - 1
      OBVIOUS
    <3> QED
      BY <3>1, <3>2, <3>3
  <2> HIDE DEF b, t
  <2>6. <<b>> \in Seq(Byte) /\ Len(<<b>>) = 1
    BY <2>1
  <2>7. Len(v) = w + 1 /\ v[1] = b /\ \A i \in 1..w : v[i + 1] = t[i]
    BY <2>2, <2>4, <2>6, ConcatProperties
  <2>8. /\ d \in Seq(Byte) /\ Len(d) = w + 1 + Len(rest) /\ Len(rest) \in Nat
        /\ \A i \in 1..(w + 1) : d[i] = v[i]
    BY <1>1, <2>7, ConcatProperties, LenProperties
  <2> HIDE DEF d
  <2>9. d[1] = b /\ \A i \in 1..w : d[i + 1] = t[i]
    BY <2>2, <2>7, <2>8
  <2>10. SubSeq(d, 2, w + 1) = t
    <3>1. SubSeq(d, 2, w + 1) = [i \in 1..w |-> d[i + 1]]
      BY <2>2
    <3>2. t = [i \in 1..w |-> t[i]]
      BY <2>2
    <3> QED
      BY <2>9, <3>1, <3>2
  <2>11. Trans!DecodeVarInt(d) = <<Trans!Number(SubSeq(d, 2, w + 1)), w + 1>>
    BY <1>2, <2>5, <2>9 DEF Trans!DecodeVarInt
  <2> QED
    BY <2>3, <2>7, <2>10, <2>11, SameNumber
<1> QED
  BY <1>1, <1>3, <1>4 DEF VarIntIs, v, d
-----------------------------------------------------------------------------
(* Transactions.                                                           *)

NumberInv ==
  /\ pc \in {"append", "appended", "decoded"} => given \in Numbers
  /\ pc \in {"appended", "decoded"} =>
       text = Trans!AppendVarInt(<<>>, given.n) \o given.rest
  /\ pc = "decoded" => got = Trans!DecodeVarInt(text)

IDInv ==
  /\ pc \in {"identify", "identified"} => given \in Pairs
  /\ pc = "identified" => got = <<Trans!ID(given[1]), Trans!ID(given[2])>>

SpendInv ==
  /\ pc \in {"sign", "signed"} => given \in Spends
  /\ pc = "signed" => got = <<Trans!hashTx(given[1]), Trans!hashTx(given[2])>>

TransactionInv == NumberInv /\ IDInv /\ SpendInv

LEMMA TransactionStarts ==
  ASSUME Trans!Init
  PROVE  TransactionInv
BY DEF Trans!Init, TransactionInv, NumberInv, IDInv, SpendInv

LEMMA TransactionSteps ==
  ASSUME TransactionInv, Trans!Next
  PROVE  TransactionInv'
<1>1. CASE Trans!append
  BY <1>1 DEF Trans!append, TransactionInv, NumberInv, IDInv, SpendInv
<1>2. CASE Trans!decode
  BY <1>2 DEF Trans!decode, TransactionInv, NumberInv, IDInv, SpendInv
<1>3. CASE Trans!identify
  BY <1>3 DEF Trans!identify, TransactionInv, NumberInv, IDInv, SpendInv
<1>4. CASE Trans!sign
  BY <1>4 DEF Trans!sign, TransactionInv, NumberInv, IDInv, SpendInv
<1> QED
  BY <1>1, <1>2, <1>3, <1>4 DEF Trans!Next

LEMMA TransactionInvariant ==
  CodecsSpec => [](codec = "transaction" => TransactionInv)
<1> DEFINE I == codec = "transaction" => TransactionInv
<1>1. CodecsInit => I
  BY TransactionStarts DEF CodecsInit, ScriptInit, OthersInit
<1>2. I /\ [CodecsNext]_allVars => I'
  <2>1. CASE UNCHANGED allVars
    BY <2>1 DEF allVars, codecVars, TransactionInv, NumberInv, IDInv, SpendInv
  <2>2. CASE CodecsNext
    BY <2>2, TransactionSteps DEF CodecsNext, ScriptNext, Of
  <2> QED
    BY <2>1, <2>2
<1> QED
  BY <1>1, <1>2, PTL DEF CodecsSpec

\* A number below 2^64 is read back, and the reader stops where it ends, whatever
\* follows it (bitcoin.go:42-74).
THEOREM VarIntRoundTripHolds == CodecsSpec => []VarIntRoundTrip
<1>1. (codec = "transaction" => TransactionInv) => VarIntRoundTrip
  <2> SUFFICES ASSUME TransactionInv, pc = "decoded"
               PROVE  got = <<given.n, Len(text) - Len(given.rest)>>
    BY DEF VarIntRoundTrip, Trans!VarIntRoundTrip
  <2> DEFINE n == given.n
             v == Trans!AppendVarInt(<<>>, n)
             rest == given.rest
  <2>1. /\ given \in Numbers /\ text = v \o rest
        /\ got = Trans!DecodeVarInt(text)
    BY DEF TransactionInv, NumberInv
  <2>2. Power[8] \in Nat
    BY PowersGrow
  <2>3. given \in [n : 0..(Power[8] - 1), rest : Seq(Byte)]
    BY <2>1, TransactionsAre, SamePower, SameByte DEF Trans!TransactionsAssumption
  <2>4. n \in Nat /\ n < Power[8] /\ rest \in Seq(Byte)
    BY <2>2, <2>3
  <2> HIDE DEF n, rest
  <2>5. got = <<n, Len(v)>>
    BY <2>1, <2>4, DecodeOfAppend
  <2>6. v \in Seq(Byte)
    BY <2>4, AppendVarIntType
  <2> HIDE DEF v
  <2>7. Len(text) = Len(v) + Len(rest) /\ Len(v) \in Nat /\ Len(rest) \in Nat
    BY <2>1, <2>4, <2>6, ConcatProperties, LenProperties
  <2>8. Len(text) - Len(rest) = Len(v)
    BY <2>7
  <2> QED
    BY <2>5, <2>8 DEF n, rest
<1> QED
  BY <1>1, TransactionInvariant, PTL

-----------------------------------------------------------------------------
(* What can be told apart when other bytes follow it.                      *)

LEMMA ConcatRules ==
  \A C :
    /\ <<>> \in Seq(C)
    /\ \A x \in Seq(C) : x \o <<>> = x /\ <<>> \o x = x
    /\ \A x, y \in Seq(C) : x \o y \in Seq(C)
    /\ \A x, y, z \in Seq(C) : (x \o y) \o z = x \o (y \o z)
    /\ \A x, y, z \in Seq(C) : x \o y = x \o z => y = z
<1> SUFFICES ASSUME NEW C
             PROVE  /\ <<>> \in Seq(C)
                    /\ \A x \in Seq(C) : x \o <<>> = x /\ <<>> \o x = x
                    /\ \A x, y \in Seq(C) : x \o y \in Seq(C)
                    /\ \A x, y, z \in Seq(C) : (x \o y) \o z = x \o (y \o z)
                    /\ \A x, y, z \in Seq(C) : x \o y = x \o z => y = z
  OBVIOUS
<1>1. <<>> \in Seq(C)
  OBVIOUS
<1>2. \A x \in Seq(C) : x \o <<>> = x /\ <<>> \o x = x
  BY ConcatEmptySeq
<1>3. \A x, y \in Seq(C) : x \o y \in Seq(C)
  BY ConcatProperties
<1>4. ASSUME NEW x \in Seq(C), NEW y \in Seq(C), NEW z \in Seq(C)
      PROVE  (x \o y) \o z = x \o (y \o z)
  BY ConcatAssociative
<1>5. \A S : \A x, y, z \in Seq(S) : x \o y = x \o z => y = z
  BY ConcatSimplifications
<1>6. \A x, y, z \in Seq(C) : (x \o y) \o z = x \o (y \o z)
  BY <1>4
<1>7. \A x, y, z \in Seq(C) : x \o y = x \o z => y = z
  BY <1>5, Zenon
<1> QED
  BY <1>1, <1>2, <1>3, <1>6, <1>7, Zenon

\* If a and b each begin the same sequence they are the same.
Delimited(a, b, C) == \A r, t \in Seq(C) : a \o r = b \o t => a = b

LEMMA SameLengthDelimits ==
  ASSUME NEW C, NEW a \in Seq(C), NEW b \in Seq(C), Len(a) = Len(b)
  PROVE  Delimited(a, b, C)
<1> SUFFICES ASSUME NEW r \in Seq(C), NEW t \in Seq(C), a \o r = b \o t
             PROVE  a = b
  BY DEF Delimited
<1>1. /\ Len(a) \in Nat /\ Len(r) \in Nat /\ Len(t) \in Nat
      /\ a = [i \in 1..Len(a) |-> a[i]] /\ b = [i \in 1..Len(b) |-> b[i]]
  BY LenProperties
<1>2. ASSUME NEW i \in 1..Len(a)
      PROVE  a[i] = b[i]
  <2>1. (a \o r)[i] = a[i] /\ (b \o t)[i] = b[i]
    <3>1. i \in 1..Len(a) + Len(r) /\ i \in 1..Len(b) + Len(t) /\ i <= Len(a)
      BY <1>1
    <3> QED
      BY <3>1, ConcatProperties
  <2> QED
    BY <2>1
<1> QED
  BY <1>1, <1>2

LEMMA Splits ==
  \A C : \A a, b, r, t \in Seq(C) :
    Delimited(a, b, C) /\ a \o r = b \o t => a = b /\ r = t
<1> TAKE C
<1> TAKE a, b, r, t \in Seq(C)
<1>1. HAVE Delimited(a, b, C) /\ a \o r = b \o t
<1>2. a = b
  BY <1>1 DEF Delimited
<1>3. a \o r = a \o t
  BY <1>1, <1>2, Zenon
<1>4. \A x, y, z \in Seq(C) : x \o y = x \o z => y = z
  BY ConcatRules
<1> QED
  BY <1>2, <1>3, <1>4, Zenon

LEMMA ConcatDelimits ==
  \A C : \A a, b, c, d \in Seq(C) :
    Delimited(a, b, C) /\ (a = b => Delimited(c, d, C)) => Delimited(a \o c, b \o d, C)
<1> TAKE C
<1> TAKE a, b, c, d \in Seq(C)
<1>1. HAVE Delimited(a, b, C) /\ (a = b => Delimited(c, d, C))
<1>2. ASSUME NEW r \in Seq(C), NEW t \in Seq(C), (a \o c) \o r = (b \o d) \o t
      PROVE  a \o c = b \o d
  <2>1. (a \o c) \o r = a \o (c \o r)
    OBVIOUS
  <2>2. (b \o d) \o t = b \o (d \o t)
    OBVIOUS
  <2>3. a \o (c \o r) = b \o (d \o t)
    BY <1>2, <2>1, <2>2, Zenon
  <2>4. c \o r \in Seq(C) /\ d \o t \in Seq(C)
    BY ConcatProperties
  <2>5. a = b /\ c \o r = d \o t
    BY <1>1, <2>3, <2>4, Splits, Zenon
  <2>6. c = d
    BY <1>1, <2>5 DEF Delimited
  <2> QED
    BY <2>5, <2>6, Zenon
<1> QED
  BY <1>2, Zenon DEF Delimited

\* A sequence joined from several begins with the first i of them.
Begins(f, n, C) == \A i \in 0..n : \E t \in Seq(C) : f[n] = f[i] \o t

LEMMA JoinsBegin ==
  \A C : \A s \in Seq(Seq(C)) : \A f : Joins(f, s, C) => Begins(f, Len(s), C)
<1> TAKE C
<1> TAKE s \in Seq(Seq(C))
<1> TAKE f
<1> HAVE Joins(f, s, C)
<1> DEFINE n == Len(s)
           T == {k \in 0..n : \E t \in Seq(C) : f[n] = f[n - k] \o t}
<1>1. n \in Nat /\ \A i \in 1..n : s[i] \in Seq(C)
  BY ElementOfSeq, LenProperties
<1>2. f \in [0..n -> Seq(C)] /\ \A i \in 1..n : f[i] = f[i - 1] \o s[i]
  BY DEF Joins
<1> HIDE DEF n
<1>3. 0 \in T
  <2>1. 0 \in 0..n /\ n - 0 = n /\ n \in 0..n
    BY <1>1
  <2>2. f[n] \in Seq(C) /\ f[n] = f[n] \o <<>> /\ <<>> \in Seq(C)
    BY <1>2, <2>1, ConcatEmptySeq
  <2> QED
    BY <2>1, <2>2
<1>4. ASSUME NEW k \in T, k < n
      PROVE  k + 1 \in T
  <2> DEFINE j == n - k
  <2>1. j \in 1..n /\ j - 1 = n - (k + 1) /\ j - 1 \in 0..n /\ k + 1 \in 0..n
    BY <1>1, <1>4
  <2>2. PICK t \in Seq(C) : f[n] = f[j] \o t
    OBVIOUS
  <2> HIDE DEF j
  <2>3. f[j] = f[j - 1] \o s[j] /\ f[j - 1] \in Seq(C) /\ s[j] \in Seq(C)
    BY <1>1, <1>2, <2>1
  <2>4. f[n] = f[j - 1] \o (s[j] \o t) /\ s[j] \o t \in Seq(C)
    <3>1. \A x, y, z \in Seq(C) : (x \o y) \o z = x \o (y \o z)
      BY ConcatRules
    <3>2. f[n] = (f[j - 1] \o s[j]) \o t
      BY <2>2, <2>3, Zenon
    <3>3. s[j] \o t \in Seq(C)
      BY <2>3, ConcatProperties
    <3> QED
      BY <2>3, <3>1, <3>2, <3>3, Zenon
  <2> QED
    BY <2>1, <2>4
<1>5. T \in SUBSET (0..n)
  OBVIOUS
<1>6. \A k \in T : \E t \in Seq(C) : f[n] = f[n - k] \o t
  OBVIOUS
<1> HIDE DEF T
<1>7. \A k \in 0..n : k \in T
  BY <1>1, <1>3, <1>4, <1>5, SetInductionUpTo
<1>8. \A i \in 0..n : \E t \in Seq(C) : f[n] = f[i] \o t
  <2> SUFFICES ASSUME NEW i \in 0..n
               PROVE  \E t \in Seq(C) : f[n] = f[i] \o t
    OBVIOUS
  <2>1. n - i \in 0..n /\ n - (n - i) = i
    BY <1>1
  <2> QED
    BY <1>6, <1>7, <2>1
<1> QED
  BY <1>8 DEF n, Begins

\* If what is joined from a, and from b, begins alike the first k of both are the
\* same.
LEMMA SameItems ==
  \A C : \A a, b \in Seq(Seq(C)) : \A f, g : \A k \in Nat : \A r, t \in Seq(C) :
    /\ Joins(f, a, C) /\ Joins(g, b, C)
    /\ k <= Len(a) /\ k <= Len(b)
    /\ \A i \in 1..k : Delimited(a[i], b[i], C)
    /\ f[Len(a)] \o r = g[Len(b)] \o t
    => \A i \in 0..k : f[i] = g[i] /\ (i > 0 => a[i] = b[i])
<1> TAKE C
<1> TAKE a, b \in Seq(Seq(C))
<1> TAKE f, g
<1> TAKE k \in Nat
<1> TAKE r, t \in Seq(C)
<1>0. HAVE /\ Joins(f, a, C) /\ Joins(g, b, C)
           /\ k <= Len(a) /\ k <= Len(b)
           /\ \A i \in 1..k : Delimited(a[i], b[i], C)
           /\ f[Len(a)] \o r = g[Len(b)] \o t
<1> DEFINE T == {i \in 0..k : f[i] = g[i] /\ (i > 0 => a[i] = b[i])}
           n == Len(a)
           m == Len(b)
<1>1. /\ n \in Nat /\ m \in Nat
      /\ \A i \in 1..n : a[i] \in Seq(C)
      /\ \A i \in 1..m : b[i] \in Seq(C)
  BY ElementOfSeq, LenProperties
<1>2. /\ f \in [0..n -> Seq(C)] /\ g \in [0..m -> Seq(C)] /\ f[0] = <<>> /\ g[0] = <<>>
      /\ \A i \in 1..n : f[i] = f[i - 1] \o a[i]
      /\ \A i \in 1..m : g[i] = g[i - 1] \o b[i]
  BY <1>0 DEF Joins
<1>3. Begins(f, n, C) /\ Begins(g, m, C)
  BY <1>0, JoinsBegin, Zenon
<1>4. /\ \A i \in 0..n : \E u \in Seq(C) : f[n] = f[i] \o u
      /\ \A i \in 0..m : \E u \in Seq(C) : g[m] = g[i] \o u
  BY <1>3 DEF Begins
<1>5. /\ k <= n /\ k <= m /\ f[n] \o r = g[m] \o t
      /\ \A i \in 1..k : Delimited(a[i], b[i], C)
  BY <1>0
<1> HIDE DEF n, m
<1>6. 0 \in T
  BY <1>2
<1>7. ASSUME NEW i \in T, i < k
      PROVE  i + 1 \in T
  <2> DEFINE j == i + 1
  <2>1. /\ j \in 1..k /\ j \in 1..n /\ j \in 1..m /\ j \in 0..n /\ j \in 0..m
        /\ j - 1 = i /\ i \in 0..n /\ i \in 0..m /\ j \in 0..k
    BY <1>1, <1>5, <1>7
  <2>2. f[i] = g[i]
    BY <1>7
  <2> HIDE DEF j, T
  <2>3. /\ f[j] = f[i] \o a[j] /\ g[j] = f[i] \o b[j]
        /\ f[i] \in Seq(C) /\ a[j] \in Seq(C) /\ b[j] \in Seq(C)
    BY <1>1, <1>2, <2>1, <2>2
  <2>4. PICK u \in Seq(C) : f[n] = f[j] \o u
    BY <1>4, <2>1
  <2>5. PICK v \in Seq(C) : g[m] = g[j] \o v
    BY <1>4, <2>1
  <2> DEFINE p == f[i]
             x == a[j]
             y == b[j]
  <2>6. /\ p \in Seq(C) /\ x \in Seq(C) /\ y \in Seq(C)
        /\ (p \o x) \o u = f[n] /\ (p \o y) \o v = g[m]
    BY <2>3, <2>4, <2>5, Zenon
  <2>7. Delimited(x, y, C)
    BY <1>5, <2>1
  <2> HIDE DEF p, x, y
  <2>8. /\ u \o r \in Seq(C) /\ v \o t \in Seq(C)
        /\ x \o u \in Seq(C) /\ y \o v \in Seq(C)
    BY <2>6, ConcatProperties
  <2>9. x \o (u \o r) \in Seq(C) /\ y \o (v \o t) \in Seq(C)
    BY <2>6, <2>8, ConcatProperties
  <2>10. f[n] \o r = p \o (x \o (u \o r))
    <3>1. f[n] \o r = ((p \o x) \o u) \o r
      BY <2>6, Zenon
    <3>2. ((p \o x) \o u) \o r = p \o (x \o (u \o r))
      <4>1. p \in Seq(C) /\ x \in Seq(C) /\ y \in Seq(C)
        BY <2>6
      <4> QED
        BY <4>1, SMTT(30)
    <3> QED
      BY <3>1, <3>2, Zenon
  <2>11. g[m] \o t = p \o (y \o (v \o t))
    <3>1. g[m] \o t = ((p \o y) \o v) \o t
      BY <2>6, Zenon
    <3>2. ((p \o y) \o v) \o t = p \o (y \o (v \o t))
      <4>1. p \in Seq(C) /\ x \in Seq(C) /\ y \in Seq(C)
        BY <2>6
      <4> QED
        BY <4>1, SMTT(30)
    <3> QED
      BY <3>1, <3>2, Zenon
  <2>12. p \o (x \o (u \o r)) = p \o (y \o (v \o t))
    BY <1>5, <2>10, <2>11, Zenon
  <2>13. x \o (u \o r) = y \o (v \o t)
    <3>1. \A x1, y1, z1 \in Seq(C) : x1 \o y1 = x1 \o z1 => y1 = z1
      BY ConcatRules
    <3> QED
      BY <2>6, <2>9, <2>12, <3>1, Zenon
  <2>14. x = y
    BY <2>7, <2>8, <2>13 DEF Delimited
  <2>15. f[j] = g[j] /\ a[j] = b[j]
    BY <2>3, <2>14 DEF x, y
  <2>16. j \in T
    BY <2>1, <2>15 DEF T
  <2> QED
    BY <2>16 DEF j
<1>8. T \in SUBSET (0..k)
  OBVIOUS
<1>9. \A i \in T : f[i] = g[i] /\ (i > 0 => a[i] = b[i])
  OBVIOUS
<1> HIDE DEF T
<1>10. \A i \in 0..k : i \in T
  BY <1>6, <1>7, <1>8, SetInductionUpTo
<1> QED
  BY <1>9, <1>10

\* As many items one after the other can be told apart if each can.
LEMMA CountedDelimits ==
  ASSUME NEW C, NEW a \in Seq(Seq(C)), NEW b \in Seq(Seq(C)), Len(a) = Len(b),
         \A i \in 1..Len(a) : Delimited(a[i], b[i], C)
  PROVE  /\ FlattenSeq(a) \in Seq(C) /\ FlattenSeq(b) \in Seq(C)
         /\ Delimited(FlattenSeq(a), FlattenSeq(b), C)
         /\ FlattenSeq(a) = FlattenSeq(b) => a = b
<1>1. PICK f : Joins(f, a, C) /\ FlattenSeq(a) = f[Len(a)]
  BY FlattenIs
<1>2. PICK g : Joins(g, b, C) /\ FlattenSeq(b) = g[Len(b)]
  BY FlattenIs
<1>3. Len(a) \in Nat /\ a = [i \in 1..Len(a) |-> a[i]] /\ b = [i \in 1..Len(b) |-> b[i]]
  BY LenProperties
<1>4. f[Len(a)] \in Seq(C) /\ g[Len(b)] \in Seq(C)
  BY <1>1, <1>2, <1>3 DEF Joins
<1>5. ASSUME NEW r \in Seq(C), NEW t \in Seq(C), f[Len(a)] \o r = g[Len(b)] \o t
      PROVE  f[Len(a)] = g[Len(b)] /\ a = b
  <2> DEFINE k == Len(a)
  <2>1. k \in Nat /\ k <= Len(a) /\ k <= Len(b) /\ k \in 0..k
    BY <1>3
  <2>2. \A i \in 1..k : Delimited(a[i], b[i], C)
    OBVIOUS
  <2> HIDE DEF k
  <2>3. \A i \in 0..k : f[i] = g[i] /\ (i > 0 => a[i] = b[i])
    BY <1>1, <1>2, <1>5, <2>1, <2>2, SameItems, Zenon
  <2>4. \A i \in 1..k : a[i] = b[i]
    BY <2>1, <2>3
  <2> QED
    BY <1>3, <2>1, <2>3, <2>4 DEF k
<1>6. FlattenSeq(a) = FlattenSeq(b) => a = b
  <2>1. <<>> \in Seq(C)
    OBVIOUS
  <2> QED
    BY <1>1, <1>2, <1>5, <2>1
<1> QED
  BY <1>1, <1>2, <1>4, <1>5, <1>6 DEF Delimited

\* Items that are not empty, and nothing after them, can be told apart even if
\* their number is not known.
LEMMA UncountedLength ==
  ASSUME NEW C, NEW a \in Seq(Seq(C)), NEW b \in Seq(Seq(C)),
         \A i \in 1..Len(a) : i \in 1..Len(b) => Delimited(a[i], b[i], C),
         \A i \in 1..Len(b) : b[i] # <<>>,
         FlattenSeq(a) = FlattenSeq(b)
  PROVE  ~(Len(a) < Len(b))
<1> SUFFICES ASSUME Len(a) < Len(b)
             PROVE  FALSE
  OBVIOUS
<1>1. PICK f : Joins(f, a, C) /\ FlattenSeq(a) = f[Len(a)]
  BY FlattenIs
<1>2. PICK g : Joins(g, b, C) /\ FlattenSeq(b) = g[Len(b)]
  BY FlattenIs
<1> DEFINE k == Len(a)
           m == Len(b)
           j == k + 1
<1>3. k \in Nat /\ m \in Nat /\ \A i \in 1..m : b[i] \in Seq(C)
  BY ElementOfSeq, LenProperties
<1>4. <<>> \in Seq(C) /\ f[k] = g[m] /\ f[k] \o <<>> = g[m] \o <<>>
  BY <1>1, <1>2, ConcatRules, Zenon
<1>5. k <= Len(a) /\ k <= m /\ k < m /\ j = k + 1
  BY <1>3
<1>6. \A i \in 1..k : Delimited(a[i], b[i], C)
  BY <1>3
<1>7. \A i \in 1..m : b[i] # <<>>
  OBVIOUS
<1>8. /\ g \in [0..m -> Seq(C)]
      /\ \A i \in 1..m : g[i] = g[i - 1] \o b[i]
  BY <1>2 DEF Joins
<1>9. \A i \in 0..m : \E u \in Seq(C) : g[m] = g[i] \o u
  <2>1. Begins(g, m, C)
    BY <1>2, JoinsBegin, Zenon
  <2> QED
    BY <2>1 DEF Begins
<1>10. \A i \in 0..k : f[i] = g[i] /\ (i > 0 => a[i] = b[i])
  BY <1>1, <1>2, <1>3, <1>4, <1>5, <1>6, SameItems, Zenon
<1> HIDE DEF k, m, j
<1>11. /\ k \in 0..k /\ k \in 0..m
       /\ j \in 1..m /\ j \in 0..m /\ j - 1 = k
  BY <1>3, <1>5
<1>12. g[k] = g[m]
  BY <1>4, <1>10, <1>11
<1>13. PICK u \in Seq(C) : g[m] = g[j] \o u
  BY <1>9, <1>11
<1>14. g[j] = g[k] \o b[j] /\ g[k] \in Seq(C) /\ b[j] \in Seq(C)
  BY <1>3, <1>8, <1>11
<1>15. g[k] = g[k] \o (b[j] \o u)
  <2>1. \A x, y, z \in Seq(C) : (x \o y) \o z = x \o (y \o z)
    BY ConcatRules
  <2>2. g[k] = (g[k] \o b[j]) \o u
    BY <1>12, <1>13, <1>14, Zenon
  <2> QED
    BY <1>14, <2>1, <2>2, Zenon
<1>16. b[j] \o u \in Seq(C)
  BY <1>14, ConcatProperties
<1>17. b[j] \o u = <<>>
  <2> DEFINE x == g[k]
             y == b[j] \o u
  <2>1. x \in Seq(C) /\ y \in Seq(C) /\ x \o y = x
    BY <1>14, <1>15, <1>16, Zenon
  <2> HIDE DEF x, y
  <2>2. y = <<>>
    BY <2>1, ConcatEqualIffEmpty
  <2> QED
    BY <2>2 DEF y
<1>18. b[j] = <<>>
  <2> DEFINE x == b[j]
  <2>1. x \in Seq(C) /\ x \o u = <<>>
    BY <1>14, <1>17, Zenon
  <2> HIDE DEF x
  <2>2. x = <<>>
    BY <2>1, ConcatEqualIffEmpty
  <2> QED
    BY <2>2 DEF x
<1> QED
  BY <1>7, <1>11, <1>18

LEMMA UncountedItems ==
  ASSUME NEW C, NEW a \in Seq(Seq(C)), NEW b \in Seq(Seq(C)),
         \A i \in 1..Len(a) : a[i] # <<>>,
         \A i \in 1..Len(b) : b[i] # <<>>,
         \A i \in 1..Len(a), j \in 1..Len(b) :
           Delimited(a[i], b[j], C) /\ Delimited(b[j], a[i], C),
         FlattenSeq(a) = FlattenSeq(b)
  PROVE  a = b
<1>1. Len(a) \in Nat /\ Len(b) \in Nat
  BY LenProperties
<1>2. ~(Len(a) < Len(b))
  BY UncountedLength
<1>3. ~(Len(b) < Len(a))
  BY UncountedLength
<1>4. Len(a) = Len(b)
  BY <1>1, <1>2, <1>3
<1>5. \A i \in 1..Len(a) : Delimited(a[i], b[i], C)
  BY <1>4
<1> QED
  BY <1>4, <1>5, CountedDelimits

Apart(a, b, C) == a \in Seq(C) /\ b \in Seq(C) /\ Delimited(a, b, C)

Joined(a, b) == a \o b

LEMMA JoinedApart ==
  ASSUME NEW C, NEW a, NEW b, NEW c, NEW d,
         Apart(a, b, C), c \in Seq(C), d \in Seq(C), a = b => Apart(c, d, C)
  PROVE  /\ Apart(Joined(a, c), Joined(b, d), C)
         /\ Joined(a, c) = Joined(b, d) => a = b /\ c = d
<1>1. a \in Seq(C) /\ b \in Seq(C)
  BY DEF Apart
<1>2. Delimited(a, b, C) /\ (a = b => Delimited(c, d, C))
  BY DEF Apart
<1>3. a \o c \in Seq(C) /\ b \o d \in Seq(C)
  BY <1>1, ConcatProperties
<1>4. Delimited(a \o c, b \o d, C)
  BY <1>1, <1>2, ConcatDelimits, Zenon
<1>5. a \o c = b \o d => a = b /\ c = d
  BY <1>1, <1>2, Splits, Zenon
<1> QED
  BY <1>3, <1>4, <1>5 DEF Apart, Joined

-----------------------------------------------------------------------------
(* The cells that a transaction is hashed from.                            *)

Cell == {<<n>> : n \in Nat}

LEMMA SameLengthApart ==
  ASSUME NEW C, NEW a \in Seq(C), NEW b \in Seq(C), Len(a) = Len(b)
  PROVE  Apart(a, b, C)
BY SameLengthDelimits DEF Apart

LEMMA JoinedNotEmpty ==
  ASSUME NEW C, NEW a \in Seq(C), a # <<>>, NEW b \in Seq(C)
  PROVE  Joined(a, b) # <<>>
BY ConcatEqualIffEmpty DEF Joined

LEMMA FixedApart ==
  ASSUME NEW n \in Nat, NEW m \in Nat
  PROVE  /\ Apart(Trans!Fixed(n), Trans!Fixed(m), Cell)
         /\ Trans!Fixed(n) = Trans!Fixed(m) => n = m
         /\ Trans!Fixed(n) # <<>>
<1>1. <<n>> \in Cell /\ <<m>> \in Cell
  BY DEF Cell
<1>2. \A x \in Cell : <<x>> \in Seq(Cell) /\ Len(<<x>>) = 1 /\ <<x>> # <<>>
  OBVIOUS
<1>3. /\ Trans!Fixed(n) \in Seq(Cell) /\ Trans!Fixed(m) \in Seq(Cell)
      /\ Len(Trans!Fixed(n)) = Len(Trans!Fixed(m)) /\ Trans!Fixed(n) # <<>>
  BY <1>1, <1>2 DEF Trans!Fixed
<1>4. Trans!Fixed(n) = Trans!Fixed(m) => n = m
  BY DEF Trans!Fixed
<1> QED
  BY <1>3, <1>4, SameLengthApart

LEMMA CellsAre ==
  ASSUME NEW b \in Seq(Byte)
  PROVE  /\ Trans!Cells(b) \in Seq(Cell) /\ Len(Trans!Cells(b)) = Len(b)
         /\ \A i \in 1..Len(b) : Trans!Cells(b)[i] = <<b[i]>>
<1>1. b \in Seq(Nat)
  BY BytesAreNumbers
<1>2. DOMAIN b = 1..Len(b) /\ Len(b) \in Nat /\ \A i \in 1..Len(b) : b[i] \in Nat
  BY <1>1, LenProperties, ElementOfSeq
<1>3. Trans!Cells(b) = [i \in 1..Len(b) |-> <<b[i]>>]
  BY <1>2 DEF Trans!Cells
<1>4. \A i \in 1..Len(b) : <<b[i]>> \in Cell
  BY <1>2 DEF Cell
<1>5. Trans!Cells(b) \in [1..Len(b) -> Cell]
  BY <1>3, <1>4
<1>6. Trans!Cells(b) \in Seq(Cell) /\ Len(Trans!Cells(b)) = Len(b)
  BY <1>2, <1>5, IsASeq, LenProperties
<1> QED
  BY <1>3, <1>6

LEMMA SameCells ==
  ASSUME NEW b \in Seq(Byte), NEW c \in Seq(Byte), Trans!Cells(b) = Trans!Cells(c)
  PROVE  b = c
<1>1. Len(b) = Len(c)
  BY CellsAre
<1>2. \A i \in 1..Len(b) : <<b[i]>> = <<c[i]>>
  BY <1>1, CellsAre
<1>3. \A i \in 1..Len(b) : b[i] = c[i]
  BY <1>2
<1>4. b = [i \in 1..Len(b) |-> b[i]] /\ c = [i \in 1..Len(c) |-> c[i]]
  OBVIOUS
<1> QED
  BY <1>1, <1>3, <1>4

\* Of two numbers, the longer one does not begin as the shorter one is written.
LEMMA VarIntNotShorter ==
  ASSUME NEW n \in Nat, n < Power[8], NEW m \in Nat, m < Power[8],
         NEW r \in Seq(Cell), NEW t \in Seq(Cell),
         Trans!VarInt(n) \o r = Trans!VarInt(m) \o t,
         Len(Trans!VarInt(n)) <= Len(Trans!VarInt(m))
  PROVE  n = m
<1> DEFINE v == Trans!AppendVarInt(<<>>, n)
           w == Trans!AppendVarInt(<<>>, m)
           k == Len(v)
<1>1. v \in Seq(Byte) /\ w \in Seq(Byte) /\ Len(v) >= 1
  BY AppendVarIntType
<1>2. \A u \in Seq(Byte) : Trans!DecodeVarInt(v \o u) = <<n, Len(v)>>
  BY DecodeOfAppend
<1>3. \A u \in Seq(Byte) : Trans!DecodeVarInt(w \o u) = <<m, Len(w)>>
  BY DecodeOfAppend
<1>4. Trans!VarInt(n) = Trans!Cells(v) /\ Trans!VarInt(m) = Trans!Cells(w)
  BY DEF Trans!VarInt
<1> HIDE DEF v, w
<1>5. /\ Trans!Cells(v) \in Seq(Cell) /\ Len(Trans!Cells(v)) = Len(v)
      /\ Trans!Cells(w) \in Seq(Cell) /\ Len(Trans!Cells(w)) = Len(w)
      /\ \A i \in 1..Len(v) : Trans!Cells(v)[i] = <<v[i]>>
      /\ \A i \in 1..Len(w) : Trans!Cells(w)[i] = <<w[i]>>
  BY <1>1, CellsAre
<1>6. k \in Nat /\ Len(w) \in Nat /\ k <= Len(w) /\ Len(r) \in Nat /\ Len(t) \in Nat
  BY <1>1, <1>4, <1>5, LenProperties
<1>7. ASSUME NEW i \in 1..k
      PROVE  v[i] = w[i]
  <2> DEFINE c == Trans!Cells(v)
             d == Trans!Cells(w)
  <2>1. /\ c \in Seq(Cell) /\ d \in Seq(Cell) /\ c \o r = d \o t
        /\ i \in 1..Len(c) /\ i \in 1..Len(d) /\ c[i] = <<v[i]>> /\ d[i] = <<w[i]>>
    <3>1. c \o r = d \o t
      <4>1. Trans!VarInt(n) = c /\ Trans!VarInt(m) = d
        BY <1>4
      <4> HIDE DEF c, d
      <4> QED
        BY <4>1
    <3>2. i \in 1..Len(v) /\ i \in 1..Len(w)
      BY <1>6
    <3>3. c[i] = <<v[i]>> /\ d[i] = <<w[i]>>
      BY <1>5, <3>2, Zenon
    <3>4. c \in Seq(Cell) /\ d \in Seq(Cell) /\ Len(c) = Len(v) /\ Len(d) = Len(w)
      BY <1>5, Zenon
    <3> HIDE DEF c, d
    <3> QED
      BY <3>1, <3>2, <3>3, <3>4
  <2> HIDE DEF c, d
  <2>2. (c \o r)[i] = c[i]
    BY <2>1, ConcatProperties
  <2>3. (d \o t)[i] = d[i]
    BY <2>1, ConcatProperties
  <2>4. <<v[i]>> = <<w[i]>>
    BY <2>1, <2>2, <2>3
  <2> QED
    BY <2>4
<1>8. PICK u \in Seq(Byte) : w = v \o u
  <2> DEFINE u == SubSeq(w, k + 1, Len(w))
  <2>1. /\ u \in Seq(Byte) /\ Len(u) = Len(w) - k
        /\ \A i \in 1..(Len(w) - k) : u[i] = w[k + i]
    BY <1>1, <1>6
  <2> HIDE DEF u
  <2>2. /\ v \o u \in Seq(Byte) /\ Len(v \o u) = Len(w)
        /\ \A i \in 1..Len(w) : (v \o u)[i] = IF i <= k THEN v[i] ELSE u[i - k]
    BY <1>1, <1>6, <2>1, ConcatProperties
  <2>3. ASSUME NEW i \in 1..Len(w)
        PROVE  (v \o u)[i] = w[i]
    <3>1. CASE i <= k
      BY <1>6, <1>7, <2>2, <3>1
    <3>2. CASE ~(i <= k)
      <4>1. i - k \in 1..(Len(w) - k) /\ k + (i - k) = i
        BY <1>6, <3>2
      <4> QED
        BY <2>1, <2>2, <3>2, <4>1
    <3> QED
      BY <3>1, <3>2
  <2>4. w = v \o u
    <3> DEFINE x == v \o u
    <3>1. x \in Seq(Byte) /\ Len(x) = Len(w) /\ \A i \in 1..Len(w) : x[i] = w[i]
      BY <2>2, <2>3
    <3> HIDE DEF x
    <3>2. x = [i \in 1..Len(x) |-> x[i]] /\ w = [i \in 1..Len(w) |-> w[i]]
      BY <1>1, <3>1
    <3>3. x = w
      BY <3>1, <3>2
    <3> QED
      BY <3>3 DEF x
  <2> QED
    BY <2>1, <2>4
<1>9. w \o <<>> = w /\ <<>> \in Seq(Byte)
  BY <1>1, ConcatEmptySeq
<1>10. <<n, Len(v)>> = <<m, Len(w)>>
  BY <1>2, <1>3, <1>8, <1>9
<1> QED
  BY <1>10

LEMMA VarIntApart ==
  ASSUME NEW n \in Nat, n < Power[8], NEW m \in Nat, m < Power[8]
  PROVE  /\ Apart(Trans!VarInt(n), Trans!VarInt(m), Cell)
         /\ Trans!VarInt(n) = Trans!VarInt(m) => n = m
<1>1. \A k \in Nat : k < Power[8] => /\ Trans!VarInt(k) \in Seq(Cell)
                                     /\ Len(Trans!VarInt(k)) \in Nat
                                     /\ Len(Trans!VarInt(k)) >= 1
  <2> SUFFICES ASSUME NEW k \in Nat, k < Power[8]
               PROVE  /\ Trans!VarInt(k) \in Seq(Cell)
                      /\ Len(Trans!VarInt(k)) \in Nat /\ Len(Trans!VarInt(k)) >= 1
    OBVIOUS
  <2> DEFINE v == Trans!AppendVarInt(<<>>, k)
  <2>1. v \in Seq(Byte) /\ Len(v) >= 1
    BY AppendVarIntType
  <2>2. Trans!VarInt(k) = Trans!Cells(v)
    BY DEF Trans!VarInt
  <2> HIDE DEF v
  <2> QED
    BY <2>1, <2>2, CellsAre, LenProperties
<1>2. ASSUME NEW r \in Seq(Cell), NEW t \in Seq(Cell),
             Trans!VarInt(n) \o r = Trans!VarInt(m) \o t
      PROVE  n = m
  <2>1. CASE Len(Trans!VarInt(n)) <= Len(Trans!VarInt(m))
    BY <1>2, <2>1, VarIntNotShorter
  <2>2. CASE Len(Trans!VarInt(m)) <= Len(Trans!VarInt(n))
    BY <1>2, <2>2, VarIntNotShorter
  <2> QED
    BY <1>1, <2>1, <2>2
<1>3. Delimited(Trans!VarInt(n), Trans!VarInt(m), Cell)
  BY <1>2, Zenon DEF Delimited
<1>4. Trans!VarInt(n) = Trans!VarInt(m) => n = m
  <2>1. <<>> \in Seq(Cell)
    OBVIOUS
  <2> QED
    BY <1>2, <2>1, Zenon
<1> QED
  BY <1>1, <1>3, <1>4 DEF Apart

LEMMA ListIs ==
  ASSUME NEW S, NEW s \in Trans!List(S)
  PROVE  s \in Seq(S) /\ Len(s) \in Nat /\ Len(s) < Power[8]
BY SamePower, LenProperties DEF Trans!List

\* A script after its length.
LEMMA WithLengthApart ==
  ASSUME NEW b \in Trans!List(Byte), NEW c \in Trans!List(Byte)
  PROVE  /\ Apart(Trans!WithLength(b), Trans!WithLength(c), Cell)
         /\ Trans!WithLength(b) = Trans!WithLength(c) => b = c
<1> DEFINE n == Trans!VarInt(Len(b))
           m == Trans!VarInt(Len(c))
           x == Trans!Cells(b)
           y == Trans!Cells(c)
<1>1. /\ b \in Seq(Byte) /\ Len(b) \in Nat /\ Len(b) < Power[8]
      /\ c \in Seq(Byte) /\ Len(c) \in Nat /\ Len(c) < Power[8]
  BY ListIs
<1>2. /\ Apart(n, m, Cell)
      /\ n = m => Len(b) = Len(c)
  BY <1>1, VarIntApart
<1>3. /\ x \in Seq(Cell) /\ y \in Seq(Cell) /\ Len(x) = Len(b) /\ Len(y) = Len(c)
  BY <1>1, CellsAre
<1>4. x = y => b = c
  BY <1>1, SameCells
<1>5. Trans!WithLength(b) = Joined(n, x) /\ Trans!WithLength(c) = Joined(m, y)
  BY DEF Trans!WithLength, Joined
<1> HIDE DEF n, m, x, y
<1>6. n = m => Apart(x, y, Cell)
  BY <1>2, <1>3, SameLengthApart
<1> QED
  BY <1>2, <1>3, <1>4, <1>5, <1>6, JoinedApart

LEMMA OutpointApart ==
  ASSUME NEW o \in [txID : Nat, vout : Nat], NEW p \in [txID : Nat, vout : Nat]
  PROVE  /\ Apart(Trans!Outpoint(o), Trans!Outpoint(p), Cell)
         /\ Trans!Outpoint(o) = Trans!Outpoint(p) => o = p
         /\ Trans!Outpoint(o) # <<>>
<1> DEFINE a == Trans!Fixed(o.txID)
           b == Trans!Fixed(p.txID)
           c == Trans!Fixed(o.vout)
           d == Trans!Fixed(p.vout)
<1>1. o.txID \in Nat /\ o.vout \in Nat /\ p.txID \in Nat /\ p.vout \in Nat
  OBVIOUS
<1>2. Apart(a, b, Cell) /\ (a = b => o.txID = p.txID) /\ a # <<>>
  BY <1>1, FixedApart
<1>3. Apart(c, d, Cell) /\ (c = d => o.vout = p.vout)
  BY <1>1, FixedApart
<1>4. Trans!Outpoint(o) = Joined(a, c) /\ Trans!Outpoint(p) = Joined(b, d)
  BY DEF Trans!Outpoint, Joined
<1>5. o.txID = p.txID /\ o.vout = p.vout => o = p
  OBVIOUS
<1> HIDE DEF a, b, c, d
<1>6. c \in Seq(Cell) /\ d \in Seq(Cell)
  BY <1>3 DEF Apart
<1>7. Joined(a, c) # <<>>
  BY <1>2, <1>6, JoinedNotEmpty DEF Apart
<1> QED
  BY <1>2, <1>3, <1>4, <1>5, <1>6, <1>7, JoinedApart

LEMMA OutputApart ==
  ASSUME NEW o \in Trans!TxOut, NEW p \in Trans!TxOut
  PROVE  /\ Apart(Trans!Output(o), Trans!Output(p), Cell)
         /\ Trans!Output(o) = Trans!Output(p) => o = p
         /\ Trans!Output(o) # <<>>
<1> DEFINE a == Trans!Fixed(o.amount)
           b == Trans!Fixed(p.amount)
           c == Trans!WithLength(o.script)
           d == Trans!WithLength(p.script)
<1>1. /\ o.amount \in Nat /\ o.script \in Trans!List(Byte)
      /\ p.amount \in Nat /\ p.script \in Trans!List(Byte)
      /\ o.amount = p.amount /\ o.script = p.script => o = p
  BY SameByte DEF Trans!TxOut
<1>2. Apart(a, b, Cell) /\ (a = b => o.amount = p.amount) /\ a # <<>>
  BY <1>1, FixedApart
<1>3. Apart(c, d, Cell) /\ (c = d => o.script = p.script)
  BY <1>1, WithLengthApart
<1>4. Trans!Output(o) = Joined(a, c) /\ Trans!Output(p) = Joined(b, d)
  BY DEF Trans!Output, Joined
<1> HIDE DEF a, b, c, d
<1>6. c \in Seq(Cell) /\ d \in Seq(Cell)
  BY <1>3 DEF Apart
<1>7. Joined(a, c) # <<>>
  BY <1>2, <1>6, JoinedNotEmpty DEF Apart
<1> QED
  BY <1>1, <1>2, <1>3, <1>4, <1>6, <1>7, JoinedApart

\* What ID hashes of an input.
InputCells(inp) ==
  Joined(Joined(Trans!Outpoint(inp.prevOut), Trans!WithLength(inp.script)),
         Trans!Fixed(inp.sequence))

LEMMA InputApart ==
  ASSUME NEW o \in Trans!TxIn, NEW p \in Trans!TxIn
  PROVE  /\ Apart(InputCells(o), InputCells(p), Cell)
         /\ InputCells(o) = InputCells(p) => o = p
<1> DEFINE a == Trans!Outpoint(o.prevOut)
           b == Trans!Outpoint(p.prevOut)
           c == Trans!WithLength(o.script)
           d == Trans!WithLength(p.script)
           e == Trans!Fixed(o.sequence)
           f == Trans!Fixed(p.sequence)
<1>1. /\ o.prevOut \in [txID : Nat, vout : Nat] /\ p.prevOut \in [txID : Nat, vout : Nat]
      /\ o.script \in Trans!List(Byte) /\ p.script \in Trans!List(Byte)
      /\ o.sequence \in Nat /\ p.sequence \in Nat
      /\ o.prevOut = p.prevOut /\ o.script = p.script /\ o.sequence = p.sequence => o = p
  BY SameByte DEF Trans!TxIn
<1>2. Apart(a, b, Cell) /\ (a = b => o.prevOut = p.prevOut)
  BY <1>1, OutpointApart
<1>3. Apart(c, d, Cell) /\ (c = d => o.script = p.script)
  BY <1>1, WithLengthApart
<1>4. Apart(e, f, Cell) /\ (e = f => o.sequence = p.sequence)
  BY <1>1, FixedApart
<1>5. /\ InputCells(o) = Joined(Joined(a, c), e)
      /\ InputCells(p) = Joined(Joined(b, d), f)
  BY DEF InputCells
<1> HIDE DEF a, b, c, d, e, f
<1>6. c \in Seq(Cell) /\ d \in Seq(Cell) /\ e \in Seq(Cell) /\ f \in Seq(Cell)
  BY <1>3, <1>4 DEF Apart
<1>7. /\ Apart(Joined(a, c), Joined(b, d), Cell)
      /\ Joined(a, c) = Joined(b, d) => a = b /\ c = d
  BY <1>2, <1>3, <1>6, JoinedApart
<1>8. /\ Apart(Joined(Joined(a, c), e), Joined(Joined(b, d), f), Cell)
      /\ Joined(Joined(a, c), e) = Joined(Joined(b, d), f)
           => Joined(a, c) = Joined(b, d) /\ e = f
  BY <1>4, <1>6, <1>7, JoinedApart
<1> QED
  BY <1>1, <1>2, <1>3, <1>4, <1>5, <1>7, <1>8

-----------------------------------------------------------------------------
(* Scripts read back.                                                      *)

LEMMA JoinedType ==
  ASSUME NEW C, NEW a \in Seq(C), NEW b \in Seq(C)
  PROVE  Joined(a, b) \in Seq(C)
BY ConcatProperties DEF Joined

LEMMA JoinedLength ==
  ASSUME NEW C, NEW a \in Seq(C), NEW b \in Seq(C)
  PROVE  Len(Joined(a, b)) = Len(a) + Len(b)
BY ConcatProperties DEF Joined

LEMMA JoinedItems ==
  ASSUME NEW C, NEW a \in Seq(C), NEW b \in Seq(C), NEW i \in 1..Len(a) + Len(b)
  PROVE  Joined(a, b)[i] = IF i <= Len(a) THEN a[i] ELSE b[i - Len(a)]
BY ConcatProperties DEF Joined

LEMMA MiddleLength ==
  ASSUME NEW C, NEW a \in Seq(C), NEW b \in Seq(C), NEW c \in Seq(C)
  PROVE  Len(Joined(Joined(a, b), c)) = Len(a) + Len(b) + Len(c)
<1> DEFINE u == Joined(a, b)
<1>1. u \in Seq(C) /\ Len(u) = Len(a) + Len(b)
  BY JoinedType, JoinedLength
<1> HIDE DEF u
<1>2. Len(Joined(u, c)) = Len(u) + Len(c)
  BY <1>1, JoinedLength
<1> QED
  BY <1>1, <1>2 DEF u

LEMMA MiddleItems ==
  ASSUME NEW C, NEW a \in Seq(C), NEW b \in Seq(C), NEW c \in Seq(C), NEW i \in 1..Len(b)
  PROVE  Joined(Joined(a, b), c)[Len(a) + i] = b[i]
<1> DEFINE u == Joined(a, b)
           j == Len(a) + i
<1>1. Len(a) \in Nat /\ Len(b) \in Nat /\ Len(c) \in Nat
  BY LenProperties
<1>2. u \in Seq(C) /\ Len(u) = Len(a) + Len(b)
  BY JoinedType, JoinedLength
<1>3. j \in 1..Len(a) + Len(b) /\ j \in 1..Len(u) + Len(c)
  BY <1>1, <1>2
<1>4. j <= Len(u) /\ ~(j <= Len(a)) /\ j - Len(a) = i
  BY <1>1, <1>2
<1> HIDE DEF j
<1>5. u[j] = b[i]
  BY <1>3, <1>4, JoinedItems
<1> HIDE DEF u
<1>6. Joined(u, c)[j] = u[j]
  BY <1>2, <1>3, <1>4, JoinedItems
<1> QED
  BY <1>5, <1>6 DEF u, j

LEMMA MiddleIs ==
  ASSUME NEW C, NEW a \in Seq(C), NEW b \in Seq(C), NEW c \in Seq(C)
  PROVE  SubSeq(Joined(Joined(a, b), c), Len(a) + 1, Len(a) + Len(b)) = b
<1> DEFINE w == Joined(Joined(a, b), c)
           m == Len(a) + 1
           n == Len(a) + Len(b)
           v == SubSeq(w, m, n)
<1>1. Len(a) \in Nat /\ Len(b) \in Nat
  BY LenProperties
<1>2. \A i \in 1..Len(b) : w[Len(a) + i] = b[i] /\ b[i] \in C
  BY MiddleItems, ElementOfSeq
<1> HIDE DEF w
<1>3. /\ m \in Int /\ n \in Int /\ n - m + 1 = Len(b)
      /\ (IF m <= n THEN n - m + 1 ELSE 0) = Len(b)
      /\ \A i \in 1..Len(b) : m + i - 1 = Len(a) + i
      /\ \A i \in m..n : i - Len(a) \in 1..Len(b) /\ Len(a) + (i - Len(a)) = i
  BY <1>1
<1>4. \A i \in m..n : w[i] \in C
  BY <1>2, <1>3
<1> HIDE DEF m, n
<1>5. /\ v \in Seq(C) /\ Len(v) = IF m <= n THEN n - m + 1 ELSE 0
      /\ \A i \in 1..n - m + 1 : v[i] = w[m + i - 1]
  BY <1>3, <1>4, SubSeqProperties
<1> HIDE DEF v
<1>6. Len(v) = Len(b) /\ \A i \in 1..Len(b) : v[i] = b[i]
  BY <1>2, <1>3, <1>5
<1>7. v = b
  BY <1>5, <1>6, SeqEqual
<1> QED
  BY <1>7 DEF v, m, n, w

LEMMA JoinedAssociates ==
  ASSUME NEW C, NEW a \in Seq(C), NEW b \in Seq(C), NEW c \in Seq(C)
  PROVE  Joined(Joined(a, b), c) = Joined(a, Joined(b, c))
BY ConcatAssociative DEF Joined

\* A size is one opcode, and the bytes that Decode reads for that opcode.  Of four
\* bytes it reads two (script.go:121-136), so that a size has to be below Power[2].
LEMMA SizeReads ==
  ASSUME NEW n \in Nat, n < Power[2]
  PROVE  \E op \in 0..OP_PUSHDATA4, z \in Seq(Byte) :
           /\ size(n) = Joined(<<op>>, z)
           /\ SizeBytes(op) = [skip |-> Len(z), used |-> Len(z)]
           /\ n = IF op < OP_PUSHDATA1 THEN op ELSE Number(z)
<1>0. /\ Base \in Nat /\ 0 < OP_PUSHDATA1 /\ OP_PUSHDATA1 < OP_PUSHDATA2
      /\ OP_PUSHDATA2 < OP_PUSHDATA4 /\ OP_PUSHDATA4 < Base
      /\ OP_PUSHDATA1 \in Nat /\ OP_PUSHDATA2 \in Nat /\ OP_PUSHDATA4 \in Nat
  BY OpcodesAssumption
<1>1. CASE n < OP_PUSHDATA1 /\ size(n) = <<n>>
  <2>1. Joined(<<n>>, <<>>) = <<n>> /\ Len(<<>>) = 0 /\ <<>> \in Seq(Byte)
    BY DEF Joined
  <2>2. SizeBytes(n) = [skip |-> 0, used |-> 0] /\ n \in 0..OP_PUSHDATA4
    BY <1>0, <1>1 DEF SizeBytes
  <2> QED
    BY <1>1, <2>1, <2>2
<1>2. CASE n >= OP_PUSHDATA1 /\ n < Base /\ size(n) = <<OP_PUSHDATA1, n>>
  <2> DEFINE z == LittleEndian(n, 1)
  <2>1. z \in Seq(Byte) /\ Len(z) = 1
    BY LittleEndianType
  <2>2. Power[1] = Base
    <3>1. Power[1] = Base * Power[1 - 1] /\ Power[0] = 1
      BY PowerIs
    <3> QED
      BY <1>0, <3>1
  <2>3. Number(z) = n
    BY <1>2, <2>2, NumberOfLittleEndian
  <2>4. z = <<n>>
    <3>1. PICK q : Quotients(q, n, 1) /\ z = [i \in 1..1 |-> q[i - 1] % Base]
      BY LittleEndianIs
    <3>2. q[0] = n
      BY <3>1 DEF Quotients
    <3>3. n % Base = n
      BY <1>0, <1>2
    <3>4. z[1] = n
      BY <3>1, <3>2, <3>3
    <3> HIDE DEF z
    <3> QED
      BY <2>1, <3>4
  <2> HIDE DEF z
  <2>5. Joined(<<OP_PUSHDATA1>>, z) = <<OP_PUSHDATA1, n>>
    <3>1. \A x, y \in Byte : <<x>> \o <<y>> = <<x, y>>
      <4> SUFFICES ASSUME NEW x \in Byte, NEW y \in Byte
                   PROVE  <<x>> \o <<y>> = <<x, y>>
        OBVIOUS
      <4>1. <<x>> \in Seq(Byte)
        OBVIOUS
      <4>2. Append(<<x>>, y) = <<x>> \o <<y>>
        BY <4>1, AppendIsConcat
      <4>3. DOMAIN <<x, y>> = 1..2 /\ <<x, y>>[1] = x /\ <<x, y>>[2] = y /\ <<x, y>> \in Seq(Byte)
        OBVIOUS
      <4>4. DOMAIN (Append(<<x>>, y)) = 1..2 /\ Append(<<x>>, y)[1] = x /\ Append(<<x>>, y)[2] = y
        OBVIOUS
      <4>5. Append(<<x>>, y) \in Seq(Byte) /\ Len(Append(<<x>>, y)) = 2
        OBVIOUS
      <4>6. Len(<<x, y>>) = 2
        OBVIOUS
      <4>7. \A i \in 1..2 : i = 1 \/ i = 2
        OBVIOUS
      <4>8. Append(<<x>>, y) = <<x, y>>
        BY <4>3, <4>4, <4>5, <4>6, <4>7, SeqEqual
      <4> QED
        BY <4>2, <4>8
    <3>2. OP_PUSHDATA1 \in Byte /\ n \in Byte
      BY <1>0, <1>2 DEF Byte
    <3> QED
      BY <2>4, <3>1, <3>2 DEF Joined
  <2>6. SizeBytes(OP_PUSHDATA1) = [skip |-> Len(z), used |-> Len(z)]
    BY <1>0, <2>1 DEF SizeBytes
  <2>7. OP_PUSHDATA1 \in 0..OP_PUSHDATA4 /\ ~(OP_PUSHDATA1 < OP_PUSHDATA1)
    BY <1>0
  <2> QED
    BY <1>2, <2>1, <2>3, <2>5, <2>6, <2>7
<1>3. CASE n >= Base /\ n < Power[2] /\ size(n) = <<OP_PUSHDATA2>> \o LittleEndian(n, 2)
  <2> DEFINE z == LittleEndian(n, 2)
  <2>1. z \in Seq(Byte) /\ Len(z) = 2
    BY LittleEndianType
  <2>2. Number(z) = n
    BY NumberOfLittleEndian
  <2>3. size(n) = Joined(<<OP_PUSHDATA2>>, z)
    BY <1>3 DEF Joined
  <2> HIDE DEF z
  <2>4. SizeBytes(OP_PUSHDATA2) = [skip |-> Len(z), used |-> Len(z)]
    BY <1>0, <2>1 DEF SizeBytes
  <2>5. OP_PUSHDATA2 \in 0..OP_PUSHDATA4 /\ ~(OP_PUSHDATA2 < OP_PUSHDATA1)
    BY <1>0
  <2> QED
    BY <2>1, <2>2, <2>3, <2>4, <2>5
<1>4. Power[2] \in Nat
  BY PowerIs
<1>5. ~(n >= Power[2])
  BY <1>4
<1>6. CASE n >= Power[2] /\ n >= Base /\ size(n) = <<OP_PUSHDATA4>> \o LittleEndian(n, 4)
  BY <1>5, <1>6
<1> QED
  BY <1>1, <1>2, <1>3, <1>6, SizeIs

\* What one step of Decode makes of the bytes of an instruction.
LEMMA InstructionIsRead ==
  ASSUME NEW x \in Instruction, Len(x.Data) < Power[2],
         NEW a \in Seq(Byte), NEW t \in Seq(Byte),
         data = Joined(Joined(a, Code(x)), t), offset = Len(a),
         readOpcode \/ readPush
  PROVE  /\ instrcs' = Append(instrcs, x)
         /\ offset' = Len(a) + Len(Code(x))
         /\ pc' = pc /\ data' = data /\ script' = script
<1> DEFINE opcode == data[offset + 1]
           s == SizeBytes(opcode)
           n == IF opcode < OP_PUSHDATA1 THEN opcode ELSE Number(Bytes(offset + 1, s.used))
           body == offset + 1 + s.skip
<1>0. /\ 0 < OP_PUSHDATA1 /\ OP_PUSHDATA1 < OP_PUSHDATA2
      /\ OP_PUSHDATA2 < OP_PUSHDATA4 /\ OP_PUSHDATA4 < Base /\ Base \in Nat
      /\ OP_PUSHDATA1 \in Nat /\ OP_PUSHDATA2 \in Nat /\ OP_PUSHDATA4 \in Nat
  BY OpcodesAssumption
<1>1. /\ x.Opcode \in Byte \ (1..OP_PUSHDATA4) /\ x.Data \in Seq(Byte)
      /\ x = [Opcode |-> x.Opcode, Data |-> x.Data]
      /\ x.Data # <<>> => x.Opcode = 0
  BY DEF Instruction
<1>2. Code(x) \in Seq(Byte) /\ Len(a) \in Nat /\ Len(t) \in Nat
  BY CodeType
<1>3. data' = data /\ script' = script
  BY DEF readOpcode, readPush
<1>6. \A p, q, r \in Seq(Byte) : Len(Joined(Joined(p, q), r)) = Len(p) + Len(q) + Len(r)
  BY MiddleLength
<1>7. \A p, q, r \in Seq(Byte) :
        \A i \in 1..Len(q) : Joined(Joined(p, q), r)[Len(p) + i] = q[i]
  BY MiddleItems
<1>4. CASE x.Data = <<>>
  <2>1. Code(x) = <<x.Opcode>> /\ Len(Code(x)) = 1
    BY <1>4 DEF Code
  <2>2. opcode = x.Opcode /\ Len(data) = Len(a) + 1 + Len(t)
    <3>1. Code(x)[1] = x.Opcode /\ 1 \in 1..Len(Code(x))
      BY <2>1
    <3>2. Len(Joined(Joined(a, Code(x)), t)) = Len(a) + Len(Code(x)) + Len(t)
      BY <1>2, MiddleLength
    <3>3. \A i \in 1..Len(Code(x)) : Joined(Joined(a, Code(x)), t)[Len(a) + i] = Code(x)[i]
      BY <1>2, MiddleItems
    <3> QED
      BY <2>1, <3>1, <3>2, <3>3
  <2>3. CASE x.Opcode = 0
    <3>1. opcode = 0 /\ ~readOpcode
      BY <1>0, <2>2, <2>3 DEF readOpcode
    <3>2. s = [skip |-> 0, used |-> 0]
      BY <1>0, <3>1 DEF SizeBytes
    <3>3. n = 0 /\ body = offset + 1 /\ s.skip = 0
      BY <1>0, <1>2, <3>1, <3>2
    <3>4. offset + 1 + 0 <= Len(data) /\ offset + 1 \in Nat /\ offset + 1 + 0 = offset + 1
      BY <1>2, <2>2
    <3>5. Bytes(offset + 1, 0) = <<>>
      BY <3>4, SubSeqEmpty DEF Bytes
    <3>6. /\ instrcs' = Append(instrcs, Push(Bytes(body, n)))
          /\ offset' = body + n /\ pc' = pc
      <4> HIDE DEF n, s
      <4> QED
        BY <3>1, <3>3, <3>4 DEF readPush, withinBounds, Inside, n, s
    <3>7. Push(<<>>) = x
      BY <1>1, <1>4, <2>3 DEF Push
    <3> QED
      BY <1>2, <1>3, <2>1, <3>3, <3>4, <3>5, <3>6, <3>7
  <2>4. CASE x.Opcode # 0
    <3>1. opcode > OP_PUSHDATA4
      BY <1>0, <1>1, <2>2, <2>4 DEF Byte
    <3>2. opcode \in Nat
      BY <1>1, <2>2 DEF Byte
    <3>3. ~readPush
      BY <1>0, <3>1, <3>2 DEF readPush
    <3>4. instrcs' = Append(instrcs, Op(opcode)) /\ offset' = offset + 1 /\ pc' = pc
      BY <3>3 DEF readOpcode
    <3>5. Op(opcode) = x
      BY <1>1, <1>4, <2>2 DEF Op
    <3> QED
      BY <1>3, <2>1, <3>4, <3>5
  <2> QED
    BY <2>3, <2>4
<1>5. CASE x.Data # <<>>
  <2> DEFINE d == x.Data
             m == Len(d)
  <2>1. d \in Seq(Byte) /\ m \in Nat /\ m < Power[2]
    BY <1>1
  <2>2. PICK op \in 0..OP_PUSHDATA4, z \in Seq(Byte) :
          /\ size(m) = Joined(<<op>>, z)
          /\ SizeBytes(op) = [skip |-> Len(z), used |-> Len(z)]
          /\ m = IF op < OP_PUSHDATA1 THEN op ELSE Number(z)
    BY <2>1, SizeReads
  <2> DEFINE o == <<op>>
             a1 == Joined(a, o)
             a2 == Joined(a1, z)
  <2>3. Code(x) = Joined(Joined(o, z), d)
    BY <1>5, <2>2 DEF Code, Joined
  <2>4. Push(d) = x
    BY <1>1, <1>5 DEF Push
  <2>5. o \in Seq(Byte) /\ Len(o) = 1 /\ o[1] = op
    <3>1. op \in Byte
      BY <1>0 DEF Byte
    <3> QED
      BY <3>1
  <2> HIDE DEF d, m, o
  <2>6. /\ a1 \in Seq(Byte) /\ Len(a1) = Len(a) + 1
        /\ Len(z) \in Nat
    BY <2>5, JoinedType, JoinedLength, LenProperties
  <2>7. a2 \in Seq(Byte) /\ Len(a2) = Len(a) + 1 + Len(z)
    <3> HIDE DEF a1
    <3> QED
      BY <2>6, JoinedType, JoinedLength
  <2>8. Len(Code(x)) = 1 + Len(z) + m
    <3>1. Joined(o, z) \in Seq(Byte)
      BY <2>5, JoinedType
    <3>3. Len(Joined(o, z)) = 1 + Len(z)
      BY <2>5, JoinedLength
    <3> QED
      BY <2>1, <2>3, <3>1, <3>3, ConcatProperties DEF Joined, m
  <2> DEFINE r1 == Joined(d, t)
             r2 == Joined(z, r1)
  <2>9. r1 \in Seq(Byte) /\ Len(r1) = m + Len(t)
    BY <2>1, ConcatProperties DEF Joined, m
  <2>10. r2 \in Seq(Byte)
    <3> HIDE DEF r1
    <3> QED
      BY <2>9, JoinedType
  <2>11. data = Joined(a1, r2) /\ data = Joined(a2, r1)
    <3>1. Joined(Joined(a, Joined(Joined(o, z), d)), t) = Joined(Joined(a, o), Joined(z, Joined(d, t)))
      <4> HIDE DEF a1, a2, r1, r2
      <4>1. ((a \o ((o \o z) \o d)) \o t) = (a \o o) \o (z \o (d \o t))
        BY <2>1, <2>5, SMTT(30)
      <4> QED
        BY <4>1 DEF Joined
    <3>2. Joined(a1, Joined(z, r1)) = Joined(Joined(a1, z), r1)
      <4> HIDE DEF a1, r1
      <4> QED
        BY <2>6, <2>9, JoinedAssociates
    <3> QED
      BY <2>3, <3>1, <3>2
  <2> HIDE DEF a1, a2, r1, r2
  <2>12. opcode = op /\ Len(data) = Len(a) + 1 + Len(r2)
    <3>1. data = Joined(Joined(a, o), r2)
      BY <2>11 DEF a1
    <3>2. Len(Joined(Joined(a, o), r2)) = Len(a) + Len(o) + Len(r2)
      <4>1. o \in Seq(Byte)
        BY <2>5
      <4> QED
        BY <1>6, <2>10, <4>1, Zenon
    <3>3. \A i \in 1..Len(o) : Joined(Joined(a, o), r2)[Len(a) + i] = o[i]
      <4>1. o \in Seq(Byte)
        BY <2>5
      <4> QED
        BY <1>7, <2>10, <4>1, Zenon
    <3>4. 1 \in 1..Len(o)
      BY <2>5
    <3> QED
      BY <2>5, <3>1, <3>2, <3>3, <3>4
  <2>13. Bytes(offset + 1, Len(z)) = z
    <3>1. data = Joined(Joined(a1, z), r1)
      BY <2>11 DEF a2
    <3>2. SubSeq(Joined(Joined(a1, z), r1), Len(a1) + 1, Len(a1) + Len(z)) = z
      BY <2>6, <2>9, MiddleIs
    <3> QED
      BY <2>6, <3>1, <3>2 DEF Bytes
  <2>14. /\ Len(data) = Len(a2) + m + Len(t)
         /\ Bytes(Len(a2), m) = d
    <3>1. data = Joined(Joined(a2, d), t)
      <4>1. Joined(Joined(a2, d), t) = Joined(a2, Joined(d, t))
        BY <2>1, <2>7, JoinedAssociates
      <4> QED
        BY <2>11, <4>1 DEF r1
    <3>2. Len(Joined(Joined(a2, d), t)) = Len(a2) + Len(d) + Len(t)
      BY <1>6, <2>1, <2>7, Zenon
    <3>3. SubSeq(Joined(Joined(a2, d), t), Len(a2) + 1, Len(a2) + Len(d)) = d
      BY <2>1, <2>7, MiddleIs
    <3> QED
      BY <3>1, <3>2, <3>3 DEF Bytes, m
  <2>15. s.skip = Len(z) /\ s.used = Len(z)
    BY <2>2, <2>12
  <2>16. n = m /\ body = Len(a2)
    BY <1>2, <2>2, <2>6, <2>7, <2>12, <2>13, <2>15
  <2>17. ~readOpcode
    BY <1>0, <2>12 DEF readOpcode
  <2>18. /\ offset + 1 + s.skip <= Len(data) /\ body + n <= Len(data)
    BY <1>2, <2>1, <2>6, <2>7, <2>14, <2>15, <2>16
  <2>19. /\ instrcs' = Append(instrcs, Push(Bytes(body, n)))
         /\ offset' = body + n /\ pc' = pc
    BY <2>17, <2>18 DEF readPush, withinBounds, Inside
  <2> HIDE DEF n, body
  <2>20. instrcs' = Append(instrcs, x) /\ pc' = pc
    BY <2>4, <2>14, <2>16, <2>19
  <2>21. offset' = Len(a) + Len(Code(x))
    BY <1>2, <2>1, <2>6, <2>7, <2>8, <2>16, <2>19
  <2> QED
    BY <1>3, <2>20, <2>21
<1> QED
  BY <1>4, <1>5

\* The bytes of the first i instructions of a script.
Ends(s) == CHOOSE f : Joins(f, Codes(s), Byte) /\ Encode(s) = f[Len(s)]

LEMMA EndsAre ==
  ASSUME NEW s \in Seq(Instruction)
  PROVE  /\ Len(s) \in Nat
         /\ Ends(s) \in [0..Len(s) -> Seq(Byte)]
         /\ Ends(s)[0] = <<>> /\ Encode(s) = Ends(s)[Len(s)]
         /\ \A i \in 1..Len(s) : Ends(s)[i] = Joined(Ends(s)[i - 1], Code(s[i]))
         /\ \A i \in 0..Len(s) : \E t \in Seq(Byte) : Encode(s) = Joined(Ends(s)[i], t)
<1> DEFINE f == Ends(s)
<1>1. /\ Codes(s) \in Seq(Seq(Byte)) /\ Len(Codes(s)) = Len(s)
      /\ \A i \in 1..Len(s) : Codes(s)[i] = Code(s[i])
      /\ Encode(s) = FlattenSeq(Codes(s))
  BY CodesType
<1>2. \E g : Joins(g, Codes(s), Byte) /\ FlattenSeq(Codes(s)) = g[Len(Codes(s))]
  BY <1>1, FlattenIs
<1>3. \E g : Joins(g, Codes(s), Byte) /\ Encode(s) = g[Len(s)]
  BY <1>1, <1>2
<1>4. Joins(f, Codes(s), Byte) /\ Encode(s) = f[Len(s)]
  BY <1>3 DEF Ends
<1> HIDE DEF f
<1>5. /\ f \in [0..Len(s) -> Seq(Byte)] /\ f[0] = <<>>
      /\ \A i \in 1..Len(s) : f[i] = f[i - 1] \o Codes(s)[i]
  BY <1>1, <1>4 DEF Joins
<1>6. \A i \in 1..Len(s) : f[i] = Joined(f[i - 1], Code(s[i]))
  BY <1>1, <1>5 DEF Joined
<1>7. Begins(f, Len(Codes(s)), Byte)
  BY <1>1, <1>4, JoinsBegin, Zenon
<1>8. \A i \in 0..Len(s) : \E t \in Seq(Byte) : Encode(s) = Joined(f[i], t)
  <2>1. \A i \in 0..Len(s) : \E t \in Seq(Byte) : f[Len(s)] = f[i] \o t
    BY <1>1, <1>7, Zenon DEF Begins
  <2> QED
    BY <1>4, <2>1, Zenon DEF Joined
<1>9. Len(s) \in Nat
  BY LenProperties
<1> QED
  BY <1>4, <1>5, <1>6, <1>8, <1>9 DEF f

\* Every instruction takes a byte at least.
LEMMA CodeNotEmpty ==
  ASSUME NEW x \in Instruction
  PROVE  Len(Code(x)) \in Nat /\ Len(Code(x)) >= 1
<1>1. x.Opcode \in Byte /\ x.Data \in Seq(Byte) /\ Len(x.Data) \in Nat
  BY DEF Instruction
<1>2. CASE x.Data = <<>>
  BY <1>2 DEF Code
<1>3. CASE x.Data # <<>>
  <2> DEFINE z == size(Len(x.Data))
             d == x.Data
  <2>1. z \in Seq(Byte) /\ z # <<>>
    BY <1>1, SizeType
  <2>2. Code(x) = Joined(z, d)
    BY <1>3 DEF Code, Joined
  <2> HIDE DEF z, d
  <2>3. Len(z) \in Nat /\ Len(z) # 0
    BY <2>1, EmptySeq, LenProperties
  <2>4. Len(d) \in Nat /\ d \in Seq(Byte)
    BY <1>1 DEF d
  <2>5. Len(Joined(z, d)) = Len(z) + Len(d)
    BY <2>1, <2>4, JoinedLength
  <2> QED
    BY <2>2, <2>3, <2>4, <2>5
<1> QED
  BY <1>2, <1>3

\* Decode has read the first instructions of the script that was encoded.
RoundInv ==
  /\ script \in Seq(Instruction)
  /\ \A i \in 1..Len(script) : Len(script[i].Data) < Power[2]
  /\ data = Encode(script)
  /\ pc \in {"decode", "done"}
  /\ instrcs \in Seq(Instruction)
  /\ Len(instrcs) \in 0..Len(script)
  /\ \A i \in 1..Len(instrcs) : instrcs[i] = script[i]
  /\ offset = Len(Ends(script)[Len(instrcs)])
  /\ pc = "done" => Len(instrcs) = Len(script)

\* No data is so long that its size takes four bytes.
ShortData == \A s \in Scripts : \A i \in DOMAIN s : Len(s[i].Data) < Power[2]

LEMMA RoundStarts ==
  ASSUME ShortData, Init, script # <<>>
  PROVE  RoundInv
<1>1. script \in Scripts /\ data = Encode(script)
  BY DEF Init
<1>2. script \in Seq(Instruction)
  BY <1>1, ScriptsAssumption
<1>3. Len(script) \in Nat /\ DOMAIN script = 1..Len(script)
  BY <1>2, LenProperties
<1>4. \A i \in 1..Len(script) : Len(script[i].Data) < Power[2]
  BY <1>1, <1>3 DEF ShortData
<1>5. instrcs = <<>> /\ offset = 0 /\ pc = "decode"
  BY DEF Init
<1>6. Len(<<>>) = 0 /\ <<>> \in Seq(Instruction)
  OBVIOUS
<1>7. Ends(script)[0] = <<>>
  BY <1>2, EndsAre
<1> QED
  BY <1>1, <1>2, <1>3, <1>4, <1>5, <1>6, <1>7 DEF RoundInv

LEMMA RoundSteps ==
  ASSUME RoundInv, [Next]_vars
  PROVE  RoundInv'
<1> DEFINE k == Len(instrcs)
           n == Len(script)
           f == Ends(script)
<1>1. /\ script \in Seq(Instruction) /\ data = Encode(script)
      /\ k \in 0..n /\ instrcs \in Seq(Instruction)
      /\ offset = Len(f[k])
      /\ \A i \in 1..k : instrcs[i] = script[i]
      /\ \A i \in 1..n : Len(script[i].Data) < Power[2]
  BY DEF RoundInv
<1>2. /\ n \in Nat /\ f \in [0..n -> Seq(Byte)] /\ data = f[n]
      /\ \A i \in 1..n : f[i] = Joined(f[i - 1], Code(script[i]))
      /\ \A i \in 0..n : \E t \in Seq(Byte) : data = Joined(f[i], t)
  BY <1>1, EndsAre
<1>3. ASSUME k < n
      PROVE  /\ script[k + 1] \in Instruction
             /\ Len(script[k + 1].Data) < Power[2]
             /\ f[k] \in Seq(Byte)
             /\ f[k + 1] = Joined(f[k], Code(script[k + 1]))
             /\ \E t \in Seq(Byte) : data = Joined(Joined(f[k], Code(script[k + 1])), t)
             /\ Len(f[k + 1]) = offset + Len(Code(script[k + 1]))
             /\ offset < Len(data)
  <2> DEFINE j == k + 1
             x == script[j]
  <2>1. j \in 1..n /\ j - 1 = k /\ k \in 0..n /\ j \in 0..n
    BY <1>1, <1>2, <1>3
  <2> HIDE DEF k, n, f, j
  <2>2. x \in Instruction /\ Len(x.Data) < Power[2]
    BY <1>1, <2>1, ElementOfSeq DEF n
  <2> HIDE DEF x
  <2>3. f[k] \in Seq(Byte) /\ f[j] = Joined(f[k], Code(x))
    BY <1>2, <2>1 DEF x
  <2>4. PICK t \in Seq(Byte) : data = Joined(f[j], t)
    BY <1>2, <2>1
  <2>5. Code(x) \in Seq(Byte) /\ Len(Code(x)) \in Nat /\ Len(Code(x)) >= 1
    BY <2>2, CodeType, CodeNotEmpty
  <2>6. Len(Joined(f[k], Code(x))) = Len(f[k]) + Len(Code(x))
    BY <2>3, <2>5, JoinedLength
  <2>7. Len(f[k]) \in Nat /\ Len(t) \in Nat
    BY <2>3, LenProperties
  <2>8. f[j] \in Seq(Byte)
    BY <1>2, <2>1
  <2>9. Len(Joined(f[j], t)) = Len(f[j]) + Len(t)
    BY <2>8, JoinedLength
  <2>10. offset < Len(data) /\ Len(f[j]) = offset + Len(Code(x))
    BY <1>1, <2>3, <2>4, <2>5, <2>6, <2>7, <2>9
  <2>11. data = Joined(Joined(f[k], Code(x)), t)
    BY <2>3, <2>4
  <2> QED
    BY <2>2, <2>3, <2>10, <2>11 DEF x, j
<1>4. CASE UNCHANGED vars
  <2>1. /\ script' = script /\ data' = data /\ offset' = offset /\ instrcs' = instrcs /\ pc' = pc
    BY <1>4 DEF vars
  <2> QED
    BY <2>1 DEF RoundInv
<1>5. CASE readOpcode \/ readPush
  <2>1. offset < Len(data) /\ pc = "decode"
    BY <1>5 DEF readOpcode, readPush
  <2>2. k < n
    <3>1. Len(f[n]) \in Nat
      BY <1>2, LenProperties
    <3> HIDE DEF f
    <3> QED
      BY <1>1, <1>2, <2>1, <3>1
  <2> DEFINE x == script[k + 1]
  <2>3. /\ x \in Instruction /\ Len(x.Data) < Power[2]
        /\ f[k] \in Seq(Byte)
        /\ f[k + 1] = Joined(f[k], Code(x))
        /\ Len(f[k + 1]) = offset + Len(Code(x))
        /\ \E t \in Seq(Byte) : data = Joined(Joined(f[k], Code(x)), t)
    BY <1>3, <2>2
  <2>4. PICK t \in Seq(Byte) : data = Joined(Joined(f[k], Code(x)), t)
    BY <2>3
  <2> HIDE DEF x
  <2>5. /\ instrcs' = Append(instrcs, x)
        /\ offset' = Len(f[k]) + Len(Code(x))
        /\ pc' = pc /\ data' = data /\ script' = script
    <3> DEFINE a == f[k]
    <3>1. a \in Seq(Byte) /\ offset = Len(a) /\ data = Joined(Joined(a, Code(x)), t)
      BY <1>1, <2>3, <2>4
    <3> HIDE DEF a
    <3>2. /\ instrcs' = Append(instrcs, x)
          /\ offset' = Len(a) + Len(Code(x))
          /\ pc' = pc /\ data' = data /\ script' = script
      BY <1>5, <2>3, <3>1, InstructionIsRead
    <3> QED
      BY <3>2 DEF a
  <2>6. offset' = Len(f[k + 1])
    BY <1>1, <2>3, <2>5
  <2>7. /\ instrcs' \in Seq(Instruction) /\ Len(instrcs') = k + 1
        /\ \A i \in 1..k : instrcs'[i] = instrcs[i]
        /\ instrcs'[k + 1] = x
    BY <1>1, <2>3, <2>5, AppendProperties
  <2>8. k + 1 \in 0..n
    BY <1>1, <1>2, <2>2
  <2>9. \A i \in 1..(k + 1) : instrcs'[i] = script[i]
    <3> SUFFICES ASSUME NEW i \in 1..(k + 1)
                 PROVE  instrcs'[i] = script[i]
      OBVIOUS
    <3>1. CASE i = k + 1
      BY <2>7, <3>1 DEF x
    <3>2. CASE i # k + 1
      <4>1. i \in 1..k
        BY <1>1, <3>2
      <4> QED
        BY <1>1, <2>7, <4>1
    <3> QED
      BY <3>1, <3>2
  <2>10. script' \in Seq(Instruction) /\ data' = Encode(script')
         /\ \A i \in 1..Len(script') : Len(script'[i].Data) < Power[2]
    BY <1>1, <2>5
  <2>11. offset' = Len(Ends(script')[Len(instrcs')])
    BY <2>5, <2>6, <2>7
  <2>12. pc' = "decode"
    BY <2>1, <2>5
  <2>13. Len(instrcs') \in 0..Len(script') /\ \A i \in 1..Len(instrcs') : instrcs'[i] = script'[i]
    BY <2>5, <2>7, <2>8, <2>9
  <2> QED
    BY <2>7, <2>10, <2>11, <2>12, <2>13 DEF RoundInv
<1>6. CASE endDecode
  <2>1. /\ script' = script /\ data' = data /\ offset' = offset /\ instrcs' = instrcs
        /\ pc' = "done" /\ offset >= Len(data)
    BY <1>6 DEF endDecode
  <2>2. Len(f[k]) \in Nat /\ Len(f[n]) \in Nat
    BY <1>1, <1>2, LenProperties
  <2>3. k = n
    <3>1. ~(k < n)
      <4> HIDE DEF f
      <4> QED
        BY <1>1, <1>2, <1>3, <2>1, <2>2
    <3> QED
      BY <1>1, <1>2, <3>1
  <2> QED
    BY <2>1, <2>3 DEF RoundInv
<1> QED
  BY <1>4, <1>5, <1>6 DEF Next

\* What Encode writes, Decode reads back instruction by instruction, for every script
\* whose data is shorter than a size of two bytes can say: beyond it Decode reads two
\* of the four bytes (script.go:56-155).
THEOREM ScriptRoundTripHolds ==
  ASSUME ShortData
  PROVE  CodecsSpec => []ScriptRoundTrip
<1> DEFINE I == codec = "script" /\ script # <<>> => RoundInv
<1>1. CodecsInit => I
  BY RoundStarts DEF CodecsInit, ScriptInit, OthersInit
<1>2. I /\ [CodecsNext]_allVars => I'
  <2> SUFFICES ASSUME I, [CodecsNext]_allVars, codec' = "script", script' # <<>>
               PROVE  RoundInv'
    OBVIOUS
  <2>1. CASE UNCHANGED allVars
    BY <2>1, RoundSteps DEF allVars, scriptVars, vars
  <2>2. CASE CodecsNext
    <3>1. codec = "script" /\ script' = script /\ [Next]_vars
      BY <2>2 DEF CodecsNext, ScriptNext, Of, scriptVars, Next, readOpcode, readPush, endDecode
    <3> QED
      BY <3>1, RoundSteps
  <2> QED
    BY <2>1, <2>2
<1>3. I => ScriptRoundTrip
  <2> SUFFICES ASSUME RoundInv
               PROVE  /\ IsPrefix(instrcs, script) /\ pc # "error"
                      /\ pc = "done" => instrcs = script
    BY DEF ScriptRoundTrip, RoundTrip
  <2> DEFINE k == Len(instrcs)
  <2>1. /\ script \in Seq(Instruction) /\ instrcs \in Seq(Instruction) /\ k \in 0..Len(script)
        /\ \A i \in 1..k : instrcs[i] = script[i]
        /\ pc # "error" /\ (pc = "done" => k = Len(script))
    BY DEF RoundInv
  <2>2. Len(script) \in Nat /\ k \in Nat
    BY <2>1, LenProperties
  <2>3. SubSeq(instrcs, 1, k) = instrcs
    BY <2>1, SubSeqFull
  <2>4. SubSeq(script, 1, k) = instrcs
    <3> DEFINE v == SubSeq(script, 1, k)
    <3>1. \A i \in 1..k : script[i] \in Instruction
      BY <2>1, <2>2, ElementOfSeq
    <3>2. v \in Seq(Instruction) /\ Len(v) = k /\ \A i \in 1..k : v[i] = script[i]
      <4> HIDE DEF k
      <4>1. /\ v \in Seq(Instruction) /\ Len(v) = IF 1 <= k THEN k - 1 + 1 ELSE 0
            /\ \A i \in 1..k - 1 + 1 : v[i] = script[1 + i - 1]
        BY <2>2, <3>1, SubSeqProperties
      <4>2. k - 1 + 1 = k /\ (IF 1 <= k THEN k - 1 + 1 ELSE 0) = k
            /\ \A i \in 1..k : 1 + i - 1 = i
        BY <2>2
      <4> QED
        BY <4>1, <4>2
    <3> HIDE DEF v
    <3>3. v = instrcs
      BY <2>1, <3>2, SeqEqual
    <3> QED
      BY <3>3 DEF v
  <2>5. k = Len(script) => instrcs = script
    BY <2>1, SeqEqual
  <2> QED
    BY <2>1, <2>2, <2>3, <2>4, <2>5 DEF IsPrefix
<1> QED
  BY <1>1, <1>2, <1>3, PTL DEF CodecsSpec

-----------------------------------------------------------------------------
(* IDs.                                                                    *)

LEMMA CountedApart ==
  ASSUME NEW C, NEW a \in Seq(Seq(C)), NEW b \in Seq(Seq(C)), Len(a) = Len(b),
         \A i \in 1..Len(a) : Apart(a[i], b[i], C)
  PROVE  /\ Apart(FlattenSeq(a), FlattenSeq(b), C)
         /\ FlattenSeq(a) = FlattenSeq(b) => a = b
<1>1. \A i \in 1..Len(a) : Delimited(a[i], b[i], C)
  BY DEF Apart
<1> QED
  BY <1>1, CountedDelimits DEF Apart

LEMMA SameFlattenSeq ==
  ASSUME NEW s
  PROVE  Trans!FlattenSeq(s) = FlattenSeq(s)
BY DEF Trans!FlattenSeq, FlattenSeq

Inputs(s) == [i \in 1..Len(s) |-> InputCells(s[i])]

Outputs(s) == [i \in 1..Len(s) |-> Trans!Output(s[i])]

LEMMA InputsAre ==
  ASSUME NEW s \in Seq(Trans!TxIn)
  PROVE  Inputs(s) \in Seq(Seq(Cell)) /\ Len(Inputs(s)) = Len(s)
<1>1. Len(s) \in Nat /\ \A i \in 1..Len(s) : s[i] \in Trans!TxIn
  BY ElementOfSeq, LenProperties
<1>2. \A i \in 1..Len(s) : InputCells(s[i]) \in Seq(Cell)
  BY <1>1, InputApart DEF Apart
<1>3. Inputs(s) \in [1..Len(s) -> Seq(Cell)]
  BY <1>2 DEF Inputs
<1> QED
  BY <1>1, <1>3, IsASeq, LenProperties

LEMMA OutputsAre ==
  ASSUME NEW s \in Seq(Trans!TxOut)
  PROVE  Outputs(s) \in Seq(Seq(Cell)) /\ Len(Outputs(s)) = Len(s)
<1>1. Len(s) \in Nat /\ \A i \in 1..Len(s) : s[i] \in Trans!TxOut
  BY ElementOfSeq, LenProperties
<1>2. \A i \in 1..Len(s) : Trans!Output(s[i]) \in Seq(Cell)
  BY <1>1, OutputApart DEF Apart
<1>3. Outputs(s) \in [1..Len(s) -> Seq(Cell)]
  BY <1>2 DEF Outputs
<1> QED
  BY <1>1, <1>3, IsASeq, LenProperties

LEMMA InputsApart ==
  ASSUME NEW s \in Seq(Trans!TxIn), NEW t \in Seq(Trans!TxIn), Len(s) = Len(t)
  PROVE  /\ Apart(FlattenSeq(Inputs(s)), FlattenSeq(Inputs(t)), Cell)
         /\ FlattenSeq(Inputs(s)) = FlattenSeq(Inputs(t)) => s = t
<1> DEFINE a == Inputs(s)
           b == Inputs(t)
<1>1. /\ a \in Seq(Seq(Cell)) /\ Len(a) = Len(s)
      /\ b \in Seq(Seq(Cell)) /\ Len(b) = Len(t)
  BY InputsAre
<1>2. \A i \in 1..Len(s) : s[i] \in Trans!TxIn /\ t[i] \in Trans!TxIn
  BY ElementOfSeq
<1>3. \A i \in 1..Len(s) : a[i] = InputCells(s[i]) /\ b[i] = InputCells(t[i])
  BY DEF Inputs
<1> HIDE DEF a, b
<1>4. \A i \in 1..Len(a) : Apart(a[i], b[i], Cell) /\ (a[i] = b[i] => s[i] = t[i])
  BY <1>1, <1>2, <1>3, InputApart
<1>5. /\ Apart(FlattenSeq(a), FlattenSeq(b), Cell)
      /\ FlattenSeq(a) = FlattenSeq(b) => a = b
  BY <1>1, <1>4, CountedApart
<1>6. a = b => s = t
  <2> SUFFICES ASSUME a = b
               PROVE  s = t
    OBVIOUS
  <2>1. \A i \in 1..Len(s) : s[i] = t[i]
    BY <1>1, <1>4
  <2>2. s = [i \in 1..Len(s) |-> s[i]] /\ t = [i \in 1..Len(t) |-> t[i]]
    OBVIOUS
  <2> QED
    BY <2>1, <2>2
<1> QED
  BY <1>5, <1>6 DEF a, b

LEMMA OutputsApart ==
  ASSUME NEW s \in Seq(Trans!TxOut), NEW t \in Seq(Trans!TxOut), Len(s) = Len(t)
  PROVE  /\ Apart(FlattenSeq(Outputs(s)), FlattenSeq(Outputs(t)), Cell)
         /\ FlattenSeq(Outputs(s)) = FlattenSeq(Outputs(t)) => s = t
<1> DEFINE a == Outputs(s)
           b == Outputs(t)
<1>1. /\ a \in Seq(Seq(Cell)) /\ Len(a) = Len(s)
      /\ b \in Seq(Seq(Cell)) /\ Len(b) = Len(t)
  BY OutputsAre
<1>2. \A i \in 1..Len(s) : s[i] \in Trans!TxOut /\ t[i] \in Trans!TxOut
  BY ElementOfSeq
<1>3. \A i \in 1..Len(s) : a[i] = Trans!Output(s[i]) /\ b[i] = Trans!Output(t[i])
  BY DEF Outputs
<1> HIDE DEF a, b
<1>4. \A i \in 1..Len(a) : Apart(a[i], b[i], Cell) /\ (a[i] = b[i] => s[i] = t[i])
  BY <1>1, <1>2, <1>3, OutputApart
<1>5. /\ Apart(FlattenSeq(a), FlattenSeq(b), Cell)
      /\ FlattenSeq(a) = FlattenSeq(b) => a = b
  BY <1>1, <1>4, CountedApart
<1>6. a = b => s = t
  <2> SUFFICES ASSUME a = b
               PROVE  s = t
    OBVIOUS
  <2>1. \A i \in 1..Len(s) : s[i] = t[i]
    BY <1>1, <1>4
  <2>2. s = [i \in 1..Len(s) |-> s[i]] /\ t = [i \in 1..Len(t) |-> t[i]]
    OBVIOUS
  <2> QED
    BY <2>1, <2>2
<1> QED
  BY <1>5, <1>6 DEF a, b

\* What ID hashes.
IDCells(tx) ==
  Joined(Joined(Joined(Joined(Joined(
    Trans!Fixed(tx.version),
    Trans!VarInt(Len(tx.input))), FlattenSeq(Inputs(tx.input))),
    Trans!VarInt(Len(tx.output))), FlattenSeq(Outputs(tx.output))),
    Trans!Fixed(tx.lockTime))

LEMMA TxIs ==
  ASSUME NEW tx \in Trans!Tx
  PROVE  /\ tx.version \in Nat /\ tx.lockTime \in Nat
         /\ tx.input \in Seq(Trans!TxIn) /\ Len(tx.input) \in Nat /\ Len(tx.input) < Power[8]
         /\ tx.output \in Seq(Trans!TxOut) /\ Len(tx.output) \in Nat /\ Len(tx.output) < Power[8]
<1>1. /\ tx.version \in Nat /\ tx.lockTime \in Nat
      /\ tx.input \in Trans!List(Trans!TxIn) /\ tx.output \in Trans!List(Trans!TxOut)
  BY DEF Trans!Tx
<1> QED
  BY <1>1, ListIs

LEMMA IDIs ==
  ASSUME NEW tx \in Trans!Tx
  PROVE  Trans!ID(tx) = <<<<"hash", IDCells(tx)>>>>
<1>1. DOMAIN tx.input = 1..Len(tx.input) /\ DOMAIN tx.output = 1..Len(tx.output)
  BY TxIs, LenProperties
<1>2. Trans!FlattenSeq([i \in DOMAIN tx.input |->
                          Trans!Outpoint(tx.input[i].prevOut)
                            \o Trans!WithLength(tx.input[i].script)
                            \o Trans!Fixed(tx.input[i].sequence)])
        = FlattenSeq(Inputs(tx.input))
  BY <1>1, SameFlattenSeq DEF Inputs, InputCells, Joined
<1>3. Trans!FlattenSeq([i \in DOMAIN tx.output |-> Trans!Output(tx.output[i])])
        = FlattenSeq(Outputs(tx.output))
  BY <1>1, SameFlattenSeq DEF Outputs
<1> QED
  BY <1>2, <1>3 DEF Trans!ID, Trans!All, Trans!DoubleSha256, IDCells, Joined

LEMMA IDCellsBind ==
  ASSUME NEW t \in Trans!Tx, NEW u \in Trans!Tx, IDCells(t) = IDCells(u)
  PROVE  t = u
<1> DEFINE a1 == Trans!Fixed(t.version)
           b1 == Trans!Fixed(u.version)
           a2 == Trans!VarInt(Len(t.input))
           b2 == Trans!VarInt(Len(u.input))
           a3 == FlattenSeq(Inputs(t.input))
           b3 == FlattenSeq(Inputs(u.input))
           a4 == Trans!VarInt(Len(t.output))
           b4 == Trans!VarInt(Len(u.output))
           a5 == FlattenSeq(Outputs(t.output))
           b5 == FlattenSeq(Outputs(u.output))
           a6 == Trans!Fixed(t.lockTime)
           b6 == Trans!Fixed(u.lockTime)
<1>1. Apart(a1, b1, Cell) /\ (a1 = b1 => t.version = u.version)
  BY TxIs, FixedApart
<1>2. Apart(a2, b2, Cell) /\ (a2 = b2 => Len(t.input) = Len(u.input))
  BY TxIs, VarIntApart
<1>3. Len(t.input) = Len(u.input) => Apart(a3, b3, Cell) /\ (a3 = b3 => t.input = u.input)
  BY TxIs, InputsApart
<1>4. Apart(a4, b4, Cell) /\ (a4 = b4 => Len(t.output) = Len(u.output))
  BY TxIs, VarIntApart
<1>5. Len(t.output) = Len(u.output) => Apart(a5, b5, Cell) /\ (a5 = b5 => t.output = u.output)
  BY TxIs, OutputsApart
<1>6. Apart(a6, b6, Cell) /\ (a6 = b6 => t.lockTime = u.lockTime)
  BY TxIs, FixedApart
<1>7. a3 \in Seq(Cell) /\ b3 \in Seq(Cell)
  BY TxIs, InputsApart DEF Apart
<1>8. a5 \in Seq(Cell) /\ b5 \in Seq(Cell)
  BY TxIs, OutputsApart DEF Apart
<1>9. /\ a2 \in Seq(Cell) /\ b2 \in Seq(Cell) /\ a4 \in Seq(Cell) /\ b4 \in Seq(Cell)
      /\ a6 \in Seq(Cell) /\ b6 \in Seq(Cell)
  BY <1>2, <1>4, <1>6 DEF Apart
<1> DEFINE p2 == Joined(a1, a2)
           q2 == Joined(b1, b2)
           p3 == Joined(p2, a3)
           q3 == Joined(q2, b3)
           p4 == Joined(p3, a4)
           q4 == Joined(q3, b4)
           p5 == Joined(p4, a5)
           q5 == Joined(q4, b5)
<1>10. Joined(p5, a6) = Joined(q5, b6)
  BY DEF IDCells
<1> HIDE DEF a1, b1, a2, b2, a3, b3, a4, b4, a5, b5, a6, b6
<1>11. Apart(p2, q2, Cell) /\ (p2 = q2 => a1 = b1 /\ a2 = b2)
  BY <1>1, <1>2, <1>9, JoinedApart
<1> HIDE DEF p2, q2
<1>12. p2 = q2 => Apart(a3, b3, Cell)
  BY <1>2, <1>3, <1>11
<1>13. Apart(p3, q3, Cell) /\ (p3 = q3 => p2 = q2 /\ a3 = b3)
  BY <1>7, <1>11, <1>12, JoinedApart
<1> HIDE DEF p3, q3
<1>14. Apart(p4, q4, Cell) /\ (p4 = q4 => p3 = q3 /\ a4 = b4)
  BY <1>4, <1>9, <1>13, JoinedApart
<1> HIDE DEF p4, q4
<1>15. p4 = q4 => Apart(a5, b5, Cell)
  BY <1>4, <1>5, <1>14
<1>16. Apart(p5, q5, Cell) /\ (p5 = q5 => p4 = q4 /\ a5 = b5)
  BY <1>8, <1>14, <1>15, JoinedApart
<1> HIDE DEF p5, q5
<1>17. p5 = q5 /\ a6 = b6
  <2>1. /\ Apart(Joined(p5, a6), Joined(q5, b6), Cell)
        /\ Joined(p5, a6) = Joined(q5, b6) => p5 = q5 /\ a6 = b6
    BY <1>6, <1>9, <1>16, JoinedApart
  <2> QED
    BY <1>10, <2>1
<1>18. /\ t.version = u.version /\ t.input = u.input
       /\ t.output = u.output /\ t.lockTime = u.lockTime
  BY <1>1, <1>2, <1>3, <1>4, <1>5, <1>6, <1>11, <1>13, <1>14, <1>16, <1>17
<1> QED
  BY <1>18 DEF Trans!Tx

\* Two transactions with the same ID are the same, whatever their scripts are: no
\* byte of a script can be taken for a length, an amount or a count
\* (bitcoin.go:17-40, blkdat.go:54-77).
THEOREM IDBindsHolds == CodecsSpec => []IDBinds
<1>1. (codec = "transaction" => TransactionInv) => IDBinds
  <2> SUFFICES ASSUME TransactionInv, pc = "identified", got[1] = got[2]
               PROVE  given[1] = given[2]
    BY DEF IDBinds, Trans!IDBinds
  <2> DEFINE t == given[1]
             u == given[2]
  <2>1. given \in Trans!Tx \X Trans!Tx
    BY TransactionsAre DEF TransactionInv, IDInv, Trans!TransactionsAssumption
  <2>2. Trans!ID(t) = Trans!ID(u)
    BY DEF TransactionInv, IDInv
  <2>3. t \in Trans!Tx /\ u \in Trans!Tx
    BY <2>1
  <2> HIDE DEF t, u
  <2>4. <<<<"hash", IDCells(t)>>>> = <<<<"hash", IDCells(u)>>>>
    BY <2>2, <2>3, IDIs
  <2>5. IDCells(t) = IDCells(u)
    BY <2>4
  <2>6. t = u
    BY <2>3, <2>5, IDCellsBind
  <2> QED
    BY <2>6 DEF t, u
<1> QED
  BY <1>1, TransactionInvariant, PTL

LEMMA UncountedApart ==
  ASSUME NEW C, NEW a \in Seq(Seq(C)), NEW b \in Seq(Seq(C)),
         \A i \in 1..Len(a) : a[i] # <<>>,
         \A i \in 1..Len(b) : b[i] # <<>>,
         \A i \in 1..Len(a), j \in 1..Len(b) : Apart(a[i], b[j], C) /\ Apart(b[j], a[i], C),
         FlattenSeq(a) = FlattenSeq(b)
  PROVE  a = b
<1>1. \A i \in 1..Len(a), j \in 1..Len(b) :
        Delimited(a[i], b[j], C) /\ Delimited(b[j], a[i], C)
  BY DEF Apart
<1> QED
  BY <1>1, UncountedItems

LEMMA FunctionIsSequence ==
  \A n \in Nat : \A D : \A x \in [1..n -> D] : x \in Seq(D) /\ Len(x) = n
BY IsASeq, LenProperties

\* The codes of the members of S can be told apart.
IsCode(code, S) ==
  /\ code \in [S -> Seq(Cell)]
  /\ \A x, y \in S : Apart(code[x], code[y], Cell) /\ (code[x] = code[y] => x = y)
  /\ \A x \in S : code[x] # <<>>

Coded(code, s) == [i \in 1..Len(s) |-> code[s[i]]]

LEMMA ItemsBind ==
  ASSUME NEW S, NEW code, IsCode(code, S), NEW o \in Seq(S), NEW p \in Seq(S),
         FlattenSeq(Coded(code, o)) = FlattenSeq(Coded(code, p))
  PROVE  o = p
<1>0. /\ code \in [S -> Seq(Cell)]
      /\ \A x, y \in S : Apart(code[x], code[y], Cell) /\ (code[x] = code[y] => x = y)
      /\ \A x \in S : code[x] # <<>>
  BY DEF IsCode
<1> DEFINE n == Len(o)
           m == Len(p)
           a == [i \in 1..n |-> code[o[i]]]
           b == [i \in 1..m |-> code[p[i]]]
<1>1. /\ n \in Nat /\ o = [i \in 1..n |-> o[i]] /\ \A i \in 1..n : o[i] \in S
      /\ m \in Nat /\ p = [i \in 1..m |-> p[i]] /\ \A i \in 1..m : p[i] \in S
  BY LenProperties, ElementOfSeq
<1>2. FlattenSeq(a) = FlattenSeq(b)
  BY DEF Coded
<1> HIDE DEF n, m
<1>3. a \in [1..n -> Seq(Cell)] /\ b \in [1..m -> Seq(Cell)]
  BY <1>0, <1>1
<1>4. /\ \A i \in 1..n : a[i] = code[o[i]]
      /\ \A i \in 1..m : b[i] = code[p[i]]
  OBVIOUS
<1> HIDE DEF a, b
<1>5. /\ a \in Seq(Seq(Cell)) /\ Len(a) = n
      /\ b \in Seq(Seq(Cell)) /\ Len(b) = m
  BY <1>1, <1>3, FunctionIsSequence, Zenon
<1>6. ASSUME NEW i \in 1..Len(a)
      PROVE  a[i] # <<>>
  BY <1>0, <1>1, <1>4, <1>5
<1>7. ASSUME NEW i \in 1..Len(b)
      PROVE  b[i] # <<>>
  BY <1>0, <1>1, <1>4, <1>5
<1>8. ASSUME NEW i \in 1..Len(a), NEW j \in 1..Len(b)
      PROVE  /\ Apart(a[i], b[j], Cell) /\ Apart(b[j], a[i], Cell)
             /\ a[i] = b[j] => o[i] = p[j]
  <2>1. o[i] \in S /\ p[j] \in S /\ a[i] = code[o[i]] /\ b[j] = code[p[j]]
    BY <1>1, <1>4, <1>5
  <2> QED
    BY <1>0, <2>1
<1>9. a = b
  BY <1>2, <1>5, <1>6, <1>7, <1>8, UncountedApart
<1>10. n = m /\ \A i \in 1..n : o[i] = p[i]
  BY <1>5, <1>8, <1>9
<1> QED
  BY <1>1, <1>10

LEMMA OutputsBind ==
  ASSUME NEW s \in Seq(Trans!TxOut), NEW t \in Seq(Trans!TxOut),
         FlattenSeq(Outputs(s)) = FlattenSeq(Outputs(t))
  PROVE  s = t
<1> DEFINE code == [x \in Trans!TxOut |-> Trans!Output(x)]
<1>1. code \in [Trans!TxOut -> Seq(Cell)]
  BY OutputApart DEF Apart
<1>2. \A x, y \in Trans!TxOut : Apart(code[x], code[y], Cell) /\ (code[x] = code[y] => x = y)
  BY OutputApart
<1>3. \A x \in Trans!TxOut : code[x] # <<>>
  BY OutputApart
<1>4. \A q \in Seq(Trans!TxOut) : Outputs(q) = Coded(code, q)
  BY ElementOfSeq DEF Outputs, Coded
<1>5. IsCode(code, Trans!TxOut)
  BY <1>1, <1>2, <1>3, Zenon DEF IsCode
<1> HIDE DEF code
<1> QED
  BY <1>4, <1>5, ItemsBind

-----------------------------------------------------------------------------
(* Signatures.                                                             *)

Outpoint == [txID : Nat, vout : Nat]

PrevOuts(s) == [i \in 1..Len(s.tx.input) |-> Trans!Outpoint(s.tx.input[i].prevOut)]

Sequences(s) == [i \in 1..Len(s.tx.input) |-> Trans!Fixed(s.tx.input[i].sequence)]

LEMMA InputFields ==
  ASSUME NEW s, Trans!IsSpend(s)
  PROVE  /\ DOMAIN s.tx.input = 1..Len(s.tx.input)
         /\ [i \in DOMAIN s.tx.input |-> s.tx.input[i].prevOut] \in Seq(Outpoint)
         /\ [i \in DOMAIN s.tx.input |-> s.tx.input[i].sequence] \in Seq(Nat)
         /\ s.tx.input[s.nIn].prevOut \in Outpoint /\ s.tx.input[s.nIn].sequence \in Nat
<1>1. s.tx \in Trans!Tx /\ s.nIn \in DOMAIN s.tx.input
  BY DEF Trans!IsSpend
<1>2. s.tx.input \in Seq(Trans!TxIn) /\ Len(s.tx.input) \in Nat
  BY <1>1, TxIs
<1>3. DOMAIN s.tx.input = 1..Len(s.tx.input)
  BY <1>2, LenProperties
<1> DEFINE inp == s.tx.input
<1>4. inp \in Seq(Trans!TxIn) /\ DOMAIN inp = 1..Len(inp) /\ Len(inp) \in Nat
  BY <1>2, <1>3
<1>5. s.nIn \in DOMAIN inp
  BY <1>1
<1> HIDE DEF inp
<1>6. \A i \in 1..Len(inp) : inp[i] \in Trans!TxIn
  BY <1>4, ElementOfSeq
<1>7. \A i \in 1..Len(inp) : inp[i].prevOut \in Outpoint /\ inp[i].sequence \in Nat
  BY <1>6 DEF Trans!TxIn, Outpoint
<1>8. /\ [i \in DOMAIN inp |-> inp[i].prevOut] \in [1..Len(inp) -> Outpoint]
      /\ [i \in DOMAIN inp |-> inp[i].sequence] \in [1..Len(inp) -> Nat]
  BY <1>4, <1>7
<1>9. /\ [i \in DOMAIN inp |-> inp[i].prevOut] \in Seq(Outpoint)
      /\ [i \in DOMAIN inp |-> inp[i].sequence] \in Seq(Nat)
  <2>1. \A S : \A x \in [1..Len(inp) -> S] : x \in Seq(S)
    BY <1>4, IsASeq
  <2> QED
    BY <1>8, <2>1, Zenon
<1> QED
  BY <1>4, <1>5, <1>7, <1>9 DEF inp

LEMMA PrevOutsBind ==
  ASSUME NEW s, Trans!IsSpend(s), NEW t, Trans!IsSpend(t),
         FlattenSeq(PrevOuts(s)) = FlattenSeq(PrevOuts(t))
  PROVE  [i \in DOMAIN s.tx.input |-> s.tx.input[i].prevOut]
           = [i \in DOMAIN t.tx.input |-> t.tx.input[i].prevOut]
<1> DEFINE code == [x \in Outpoint |-> Trans!Outpoint(x)]
           Of1(x) == [i \in DOMAIN x.tx.input |-> x.tx.input[i].prevOut]
<1>1. code \in [Outpoint -> Seq(Cell)]
  BY OutpointApart DEF Outpoint, Apart
<1>2. \A x, y \in Outpoint : Apart(code[x], code[y], Cell) /\ (code[x] = code[y] => x = y)
  BY OutpointApart DEF Outpoint
<1>3. \A x \in Outpoint : code[x] # <<>>
  BY OutpointApart DEF Outpoint
<1>4. ASSUME NEW x, Trans!IsSpend(x)
      PROVE  /\ Of1(x) \in Seq(Outpoint)
             /\ PrevOuts(x) = Coded(code, Of1(x))
  <2> DEFINE o == Of1(x)
  <2>1. o \in Seq(Outpoint) /\ DOMAIN x.tx.input = 1..Len(x.tx.input)
    BY <1>4, InputFields
  <2>2. DOMAIN o = DOMAIN x.tx.input /\ \A i \in DOMAIN o : o[i] = x.tx.input[i].prevOut
    OBVIOUS
  <2> HIDE DEF o
  <2>3. 1..Len(o) = 1..Len(x.tx.input) /\ \A i \in 1..Len(o) : o[i] \in Outpoint
    BY <2>1, <2>2, LenProperties, ElementOfSeq
  <2>4. \A i \in 1..Len(o) : code[o[i]] = Trans!Outpoint(x.tx.input[i].prevOut)
    BY <2>1, <2>2, <2>3
  <2>5. PrevOuts(x) = Coded(code, o)
    BY <2>3, <2>4 DEF PrevOuts, Coded
  <2> QED
    BY <2>1, <2>5 DEF o
<1>5. IsCode(code, Outpoint)
  BY <1>1, <1>2, <1>3, Zenon DEF IsCode
<1> HIDE DEF code, Of1
<1>6. Of1(s) = Of1(t)
  BY <1>4, <1>5, ItemsBind
<1> QED
  BY <1>6 DEF Of1

LEMMA SequencesBind ==
  ASSUME NEW s, Trans!IsSpend(s), NEW t, Trans!IsSpend(t),
         FlattenSeq(Sequences(s)) = FlattenSeq(Sequences(t))
  PROVE  [i \in DOMAIN s.tx.input |-> s.tx.input[i].sequence]
           = [i \in DOMAIN t.tx.input |-> t.tx.input[i].sequence]
<1> DEFINE code == [x \in Nat |-> Trans!Fixed(x)]
           Of1(x) == [i \in DOMAIN x.tx.input |-> x.tx.input[i].sequence]
<1>1. code \in [Nat -> Seq(Cell)]
  BY FixedApart DEF Apart
<1>2. \A x, y \in Nat : Apart(code[x], code[y], Cell) /\ (code[x] = code[y] => x = y)
  BY FixedApart
<1>3. \A x \in Nat : code[x] # <<>>
  BY FixedApart
<1>4. ASSUME NEW x, Trans!IsSpend(x)
      PROVE  /\ Of1(x) \in Seq(Nat)
             /\ Sequences(x) = Coded(code, Of1(x))
  <2> DEFINE o == Of1(x)
  <2>1. o \in Seq(Nat) /\ DOMAIN x.tx.input = 1..Len(x.tx.input)
    BY <1>4, InputFields
  <2>2. DOMAIN o = DOMAIN x.tx.input /\ \A i \in DOMAIN o : o[i] = x.tx.input[i].sequence
    OBVIOUS
  <2> HIDE DEF o
  <2>3. 1..Len(o) = 1..Len(x.tx.input) /\ \A i \in 1..Len(o) : o[i] \in Nat
    BY <2>1, <2>2, LenProperties, ElementOfSeq
  <2>4. \A i \in 1..Len(o) : code[o[i]] = Trans!Fixed(x.tx.input[i].sequence)
    BY <2>1, <2>2, <2>3
  <2>5. Sequences(x) = Coded(code, o)
    BY <2>3, <2>4 DEF Sequences, Coded
  <2> QED
    BY <2>1, <2>5 DEF o
<1>5. IsCode(code, Nat)
  BY <1>1, <1>2, <1>3, Zenon DEF IsCode
<1> HIDE DEF code, Of1
<1>6. Of1(s) = Of1(t)
  BY <1>4, <1>5, ItemsBind
<1> QED
  BY <1>6 DEF Of1

\* Two sequences that end in as many cells are the same if what they are joined
\* from is.
LEMMA EndsBind ==
  ASSUME NEW C, NEW a \in Seq(C), NEW b \in Seq(C), NEW c \in Seq(C), NEW d \in Seq(C),
         Len(c) = Len(d), Joined(a, c) = Joined(b, d)
  PROVE  a = b /\ c = d
<1>1. /\ Len(a) \in Nat /\ Len(b) \in Nat /\ Len(c) \in Nat
      /\ Len(a \o c) = Len(a) + Len(c) /\ Len(b \o d) = Len(b) + Len(d)
  BY ConcatProperties, LenProperties
<1>2. a \o c = b \o d
  BY DEF Joined
<1>3. Len(a) = Len(b)
  BY <1>1, <1>2
<1>4. Delimited(a, b, C)
  BY <1>3, SameLengthDelimits
<1> QED
  BY <1>2, <1>4, Splits, Zenon

Hash(cells) == <<"hash", cells>>

Outs(s) == Outputs(Trans!SignedOutputs(s))

Spent(s) == s.tx.input[s.nIn]

\* The first fields of what hashTx hashes.
Preamble(s) ==
  Joined(Joined(Trans!Fixed(s.tx.version),
                IF Trans!AnyoneCanPay(s.hashType) THEN <<>> ELSE <<Hash(FlattenSeq(PrevOuts(s)))>>),
         IF Trans!SignsSequences(s.hashType) THEN <<Hash(FlattenSeq(Sequences(s)))>> ELSE <<>>)

SpendCells(s) ==
  Joined(Joined(Joined(Joined(Joined(Joined(Joined(
    Preamble(s),
    Trans!Outpoint(Spent(s).prevOut)), Trans!p2pkhScript(s.prevOut.script)),
    Trans!Fixed(s.prevOut.amount)), Trans!Fixed(Spent(s).sequence)),
    <<Hash(FlattenSeq(Outs(s)))>>), Trans!Fixed(s.tx.lockTime)), Trans!Fixed(s.hashType))

LEMMA SpendIs ==
  ASSUME NEW s, Trans!IsSpend(s)
  PROVE  /\ s.tx.version \in Nat /\ s.tx.lockTime \in Nat
         /\ s.hashType \in Nat /\ s.prevOut.amount \in Nat
         /\ Spent(s).prevOut \in Outpoint /\ Spent(s).sequence \in Nat
         /\ Trans!SignedOutputs(s) \in Seq(Trans!TxOut)
<1>1. s.tx \in Trans!Tx /\ s.hashType \in Nat /\ s.prevOut.amount \in Nat
  BY DEF Trans!IsSpend
<1>2. /\ s.tx.version \in Nat /\ s.tx.lockTime \in Nat
      /\ s.tx.output \in Seq(Trans!TxOut) /\ Len(s.tx.output) \in Nat
  BY <1>1, TxIs
<1>3. Spent(s).prevOut \in Outpoint /\ Spent(s).sequence \in Nat
  BY InputFields DEF Spent
<1>4. s.nIn \in Nat /\ s.nIn >= 1
  <2>1. s.nIn \in DOMAIN s.tx.input
    BY DEF Trans!IsSpend
  <2>2. DOMAIN s.tx.input = 1..Len(s.tx.input) /\ Len(s.tx.input) \in Nat
    BY <1>1, InputFields, TxIs
  <2> QED
    BY <2>1, <2>2
<1>5. Trans!SignsOne(s) => <<s.tx.output[s.nIn]>> \in Seq(Trans!TxOut)
  <2> SUFFICES ASSUME Trans!SignsOne(s)
               PROVE  <<s.tx.output[s.nIn]>> \in Seq(Trans!TxOut)
    OBVIOUS
  <2>1. s.nIn \in 1..Len(s.tx.output)
    BY <1>2, <1>4 DEF Trans!SignsOne
  <2>2. s.tx.output[s.nIn] \in Trans!TxOut
    BY <1>2, <2>1, ElementOfSeq
  <2> QED
    BY <2>2
<1>6. CASE Trans!SignsAll(s.hashType)
  BY <1>1, <1>2, <1>3, <1>6 DEF Trans!SignedOutputs, Trans!SignsOne, Trans!SignsAll
<1>7. CASE ~Trans!SignsAll(s.hashType)
  <2>1. Trans!SignedOutputs(s) = IF Trans!SignsOne(s) THEN <<s.tx.output[s.nIn]>> ELSE <<>>
    BY <1>7 DEF Trans!SignedOutputs
  <2>2. <<>> \in Seq(Trans!TxOut)
    OBVIOUS
  <2> QED
    BY <1>1, <1>2, <1>3, <1>5, <2>1, <2>2
<1> QED
  BY <1>6, <1>7

LEMMA hashTxIs ==
  ASSUME NEW s, Trans!IsSpend(s)
  PROVE  Trans!hashTx(s) = SpendCells(s)
<1> DEFINE outputs == Trans!SignedOutputs(s)
<1>1. DOMAIN s.tx.input = 1..Len(s.tx.input)
  BY InputFields
<1>2. Trans!FlattenSeq([i \in DOMAIN s.tx.input |-> Trans!Outpoint(s.tx.input[i].prevOut)])
        = FlattenSeq(PrevOuts(s))
  BY <1>1, SameFlattenSeq DEF PrevOuts
<1>3. Trans!FlattenSeq([i \in DOMAIN s.tx.input |-> Trans!Fixed(s.tx.input[i].sequence)])
        = FlattenSeq(Sequences(s))
  BY <1>1, SameFlattenSeq DEF Sequences
<1>4. Trans!FlattenSeq([i \in DOMAIN outputs |-> Trans!Output(outputs[i])])
        = FlattenSeq(Outs(s))
  <2>1. outputs \in Seq(Trans!TxOut)
    BY SpendIs
  <2> HIDE DEF outputs
  <2>2. DOMAIN outputs = 1..Len(outputs)
    BY <2>1, LenProperties
  <2>3. Trans!FlattenSeq([i \in DOMAIN outputs |-> Trans!Output(outputs[i])])
          = FlattenSeq(Outputs(outputs))
    BY <2>2, SameFlattenSeq DEF Outputs
  <2> QED
    BY <2>3 DEF Outs, outputs
<1> QED
  BY <1>2, <1>3, <1>4
  DEF Trans!hashTx, Trans!All, Trans!DoubleSha256, SpendCells, Preamble, Joined, Spent, Hash

\* The cells of a spend that are no numbers.
HashCells(s) ==
  {Hash(FlattenSeq(PrevOuts(s))), Hash(FlattenSeq(Sequences(s))), Hash(FlattenSeq(Outs(s))),
   <<"p2pkh", s.prevOut.script.instrcs[2]>>}

LEMMA SpendTypes ==
  ASSUME NEW s, Trans!IsSpend(s), NEW C, Cell \subseteq C, HashCells(s) \subseteq C
  PROVE  /\ Preamble(s) \in Seq(C)
         /\ Trans!Outpoint(Spent(s).prevOut) \in Seq(C)
         /\ Len(Trans!Outpoint(Spent(s).prevOut)) = 2
         /\ Trans!p2pkhScript(s.prevOut.script) \in Seq(C)
         /\ Len(Trans!p2pkhScript(s.prevOut.script)) = 1
         /\ \A n \in Nat : Trans!Fixed(n) \in Seq(C) /\ Len(Trans!Fixed(n)) = 1
         /\ <<Hash(FlattenSeq(Outs(s)))>> \in Seq(C)
         /\ Len(<<Hash(FlattenSeq(Outs(s)))>>) = 1
<1>1. \A x \in C : <<x>> \in Seq(C) /\ Len(<<x>>) = 1
  OBVIOUS
<1>2. ASSUME NEW n \in Nat
      PROVE  Trans!Fixed(n) \in Seq(C) /\ Len(Trans!Fixed(n)) = 1
  BY <1>1 DEF Trans!Fixed, Cell
<1>3. /\ <<Hash(FlattenSeq(Outs(s)))>> \in Seq(C) /\ Len(<<Hash(FlattenSeq(Outs(s)))>>) = 1
      /\ <<Hash(FlattenSeq(PrevOuts(s)))>> \in Seq(C)
      /\ <<Hash(FlattenSeq(Sequences(s)))>> \in Seq(C)
  BY <1>1 DEF HashCells
<1>4. /\ Trans!p2pkhScript(s.prevOut.script) \in Seq(C)
      /\ Len(Trans!p2pkhScript(s.prevOut.script)) = 1
  BY <1>1 DEF HashCells, Trans!p2pkhScript
<1>5. /\ Trans!Outpoint(Spent(s).prevOut) \in Seq(C)
      /\ Len(Trans!Outpoint(Spent(s).prevOut)) = 2
  <2> DEFINE o == Spent(s).prevOut
             x == Trans!Fixed(o.txID)
             y == Trans!Fixed(o.vout)
  <2>1. o \in Outpoint
    BY SpendIs
  <2> HIDE DEF o
  <2>2. o.txID \in Nat /\ o.vout \in Nat
    BY <2>1 DEF Outpoint
  <2>3. x \in Seq(C) /\ y \in Seq(C) /\ Len(x) = 1 /\ Len(y) = 1
    BY <1>2, <2>2
  <2>4. Trans!Outpoint(o) = x \o y
    BY DEF Trans!Outpoint
  <2> HIDE DEF x, y
  <2>5. x \o y \in Seq(C) /\ Len(x \o y) = 2
    BY <2>3, ConcatProperties
  <2> QED
    BY <2>4, <2>5 DEF o
<1>6. Preamble(s) \in Seq(C)
  <2> DEFINE x == Trans!Fixed(s.tx.version)
             y == IF Trans!AnyoneCanPay(s.hashType) THEN <<>>
                  ELSE <<Hash(FlattenSeq(PrevOuts(s)))>>
             z == IF Trans!SignsSequences(s.hashType) THEN <<Hash(FlattenSeq(Sequences(s)))>>
                  ELSE <<>>
  <2>1. <<>> \in Seq(C)
    OBVIOUS
  <2>2. x \in Seq(C)
    BY <1>2, SpendIs
  <2>3. y \in Seq(C) /\ z \in Seq(C)
    BY <1>3, <2>1
  <2>4. Preamble(s) = Joined(Joined(x, y), z)
    BY DEF Preamble
  <2> HIDE DEF x, y, z
  <2>5. Joined(x, y) \in Seq(C)
    BY <2>2, <2>3, JoinedType
  <2> QED
    BY <2>3, <2>4, <2>5, JoinedType
<1> QED
  BY <1>2, <1>3, <1>4, <1>5, <1>6

LEMMA SpendPartsBind ==
  ASSUME NEW s, Trans!IsSpend(s), NEW t, Trans!IsSpend(t), SpendCells(s) = SpendCells(t)
  PROVE  /\ Preamble(s) = Preamble(t)
         /\ Trans!Outpoint(Spent(s).prevOut) = Trans!Outpoint(Spent(t).prevOut)
         /\ Trans!p2pkhScript(s.prevOut.script) = Trans!p2pkhScript(t.prevOut.script)
         /\ Trans!Fixed(s.prevOut.amount) = Trans!Fixed(t.prevOut.amount)
         /\ Trans!Fixed(Spent(s).sequence) = Trans!Fixed(Spent(t).sequence)
         /\ <<Hash(FlattenSeq(Outs(s)))>> = <<Hash(FlattenSeq(Outs(t)))>>
         /\ Trans!Fixed(s.tx.lockTime) = Trans!Fixed(t.tx.lockTime)
         /\ Trans!Fixed(s.hashType) = Trans!Fixed(t.hashType)
<1> DEFINE C == Cell \cup HashCells(s) \cup HashCells(t)
           a1 == Preamble(s)
           b1 == Preamble(t)
           a2 == Trans!Outpoint(Spent(s).prevOut)
           b2 == Trans!Outpoint(Spent(t).prevOut)
           a3 == Trans!p2pkhScript(s.prevOut.script)
           b3 == Trans!p2pkhScript(t.prevOut.script)
           a4 == Trans!Fixed(s.prevOut.amount)
           b4 == Trans!Fixed(t.prevOut.amount)
           a5 == Trans!Fixed(Spent(s).sequence)
           b5 == Trans!Fixed(Spent(t).sequence)
           a6 == <<Hash(FlattenSeq(Outs(s)))>>
           b6 == <<Hash(FlattenSeq(Outs(t)))>>
           a7 == Trans!Fixed(s.tx.lockTime)
           b7 == Trans!Fixed(t.tx.lockTime)
           a8 == Trans!Fixed(s.hashType)
           b8 == Trans!Fixed(t.hashType)
<1>1. Cell \subseteq C /\ HashCells(s) \subseteq C /\ HashCells(t) \subseteq C
  OBVIOUS
<1> HIDE DEF C
<1>2. /\ a1 \in Seq(C) /\ a2 \in Seq(C) /\ Len(a2) = 2 /\ a3 \in Seq(C) /\ Len(a3) = 1
      /\ a6 \in Seq(C) /\ Len(a6) = 1
  BY <1>1, SpendTypes
<1>3. /\ b1 \in Seq(C) /\ b2 \in Seq(C) /\ Len(b2) = 2 /\ b3 \in Seq(C) /\ Len(b3) = 1
      /\ b6 \in Seq(C) /\ Len(b6) = 1
  BY <1>1, SpendTypes
<1>4. \A n \in Nat : Trans!Fixed(n) \in Seq(C) /\ Len(Trans!Fixed(n)) = 1
  BY <1>1, SpendTypes
<1>5. /\ a4 \in Seq(C) /\ Len(a4) = 1 /\ b4 \in Seq(C) /\ Len(b4) = 1
      /\ a5 \in Seq(C) /\ Len(a5) = 1 /\ b5 \in Seq(C) /\ Len(b5) = 1
      /\ a7 \in Seq(C) /\ Len(a7) = 1 /\ b7 \in Seq(C) /\ Len(b7) = 1
      /\ a8 \in Seq(C) /\ Len(a8) = 1 /\ b8 \in Seq(C) /\ Len(b8) = 1
  BY <1>4, SpendIs
<1> DEFINE p2 == Joined(a1, a2)
           q2 == Joined(b1, b2)
           p3 == Joined(p2, a3)
           q3 == Joined(q2, b3)
           p4 == Joined(p3, a4)
           q4 == Joined(q3, b4)
           p5 == Joined(p4, a5)
           q5 == Joined(q4, b5)
           p6 == Joined(p5, a6)
           q6 == Joined(q5, b6)
           p7 == Joined(p6, a7)
           q7 == Joined(q6, b7)
<1>6. Joined(p7, a8) = Joined(q7, b8)
  BY DEF SpendCells
<1> HIDE DEF a1, b1, a2, b2, a3, b3, a4, b4, a5, b5, a6, b6, a7, b7, a8, b8
<1>7. p2 \in Seq(C) /\ q2 \in Seq(C)
  BY <1>2, <1>3, JoinedType
<1>8. p3 \in Seq(C) /\ q3 \in Seq(C)
  <2> HIDE DEF p2, q2
  <2> QED
    BY <1>2, <1>3, <1>7, JoinedType
<1>9. p4 \in Seq(C) /\ q4 \in Seq(C)
  <2> HIDE DEF p3, q3
  <2> QED
    BY <1>5, <1>8, JoinedType
<1>10. p5 \in Seq(C) /\ q5 \in Seq(C)
  <2> HIDE DEF p4, q4
  <2> QED
    BY <1>5, <1>9, JoinedType
<1>11. p6 \in Seq(C) /\ q6 \in Seq(C)
  <2> HIDE DEF p5, q5
  <2> QED
    BY <1>2, <1>3, <1>10, JoinedType
<1>12. p7 \in Seq(C) /\ q7 \in Seq(C)
  <2> HIDE DEF p6, q6
  <2> QED
    BY <1>5, <1>11, JoinedType
<1>13. p7 = q7 /\ a8 = b8
  <2> HIDE DEF p7, q7
  <2> QED
    BY <1>5, <1>6, <1>12, EndsBind
<1>14. p6 = q6 /\ a7 = b7
  <2> HIDE DEF p6, q6
  <2> QED
    BY <1>5, <1>11, <1>13, EndsBind
<1>15. p5 = q5 /\ a6 = b6
  <2> HIDE DEF p5, q5
  <2> QED
    BY <1>2, <1>3, <1>10, <1>14, EndsBind
<1>16. p4 = q4 /\ a5 = b5
  <2> HIDE DEF p4, q4
  <2> QED
    BY <1>5, <1>9, <1>15, EndsBind
<1>17. p3 = q3 /\ a4 = b4
  <2> HIDE DEF p3, q3
  <2> QED
    BY <1>5, <1>8, <1>16, EndsBind
<1>18. p2 = q2 /\ a3 = b3
  <2> HIDE DEF p2, q2
  <2> QED
    BY <1>2, <1>3, <1>7, <1>17, EndsBind
<1>19. a1 = b1 /\ a2 = b2
  BY <1>2, <1>3, <1>18, EndsBind
<1> QED
  BY <1>13, <1>14, <1>15, <1>16, <1>17, <1>18, <1>19
  DEF a1, b1, a2, b2, a3, b3, a4, b4, a5, b5, a6, b6, a7, b7, a8, b8

\* The first fields have two hashes, one or none, as the hash type says.
LEMMA PreambleBinds ==
  ASSUME NEW s, Trans!IsSpend(s), NEW t, Trans!IsSpend(t),
         s.hashType = t.hashType, Preamble(s) = Preamble(t)
  PROVE  /\ s.tx.version = t.tx.version
         /\ Trans!AnyoneCanPay(s.hashType) \/ FlattenSeq(PrevOuts(s)) = FlattenSeq(PrevOuts(t))
         /\ \/ ~Trans!SignsSequences(s.hashType)
            \/ FlattenSeq(Sequences(s)) = FlattenSeq(Sequences(t))
<1> DEFINE C == Cell \cup HashCells(s) \cup HashCells(t)
           open == Trans!AnyoneCanPay(s.hashType)
           signs == Trans!SignsSequences(s.hashType)
           a1 == Trans!Fixed(s.tx.version)
           b1 == Trans!Fixed(t.tx.version)
           a2 == IF open THEN <<>> ELSE <<Hash(FlattenSeq(PrevOuts(s)))>>
           b2 == IF open THEN <<>> ELSE <<Hash(FlattenSeq(PrevOuts(t)))>>
           a3 == IF signs THEN <<Hash(FlattenSeq(Sequences(s)))>> ELSE <<>>
           b3 == IF signs THEN <<Hash(FlattenSeq(Sequences(t)))>> ELSE <<>>
           p == Joined(a1, a2)
           q == Joined(b1, b2)
<1>1. Joined(p, a3) = Joined(q, b3)
  BY DEF Preamble
<1>2. Cell \subseteq C /\ HashCells(s) \subseteq C /\ HashCells(t) \subseteq C
  OBVIOUS
<1>3. /\ Hash(FlattenSeq(PrevOuts(s))) \in C /\ Hash(FlattenSeq(PrevOuts(t))) \in C
      /\ Hash(FlattenSeq(Sequences(s))) \in C /\ Hash(FlattenSeq(Sequences(t))) \in C
  BY DEF HashCells
<1> HIDE DEF C
<1>4. a1 \in Seq(C) /\ b1 \in Seq(C) /\ Len(a1) = Len(b1)
  BY <1>2, SpendTypes, SpendIs
<1>5. \A x \in C : <<x>> \in Seq(C) /\ Len(<<x>>) = 1
  OBVIOUS
<1>6. <<>> \in Seq(C)
  OBVIOUS
<1>7. a2 \in Seq(C) /\ b2 \in Seq(C) /\ Len(a2) = Len(b2)
  BY <1>3, <1>5, <1>6
<1>8. a3 \in Seq(C) /\ b3 \in Seq(C) /\ Len(a3) = Len(b3)
  BY <1>3, <1>5, <1>6
<1>9. a1 = b1 => s.tx.version = t.tx.version
  BY DEF Trans!Fixed
<1>10. a2 = b2 => open \/ FlattenSeq(PrevOuts(s)) = FlattenSeq(PrevOuts(t))
  BY DEF Hash
<1>11. a3 = b3 => ~signs \/ FlattenSeq(Sequences(s)) = FlattenSeq(Sequences(t))
  BY DEF Hash
<1> HIDE DEF a1, b1, a2, b2, a3, b3
<1>12. p \in Seq(C) /\ q \in Seq(C)
  BY <1>4, <1>7, JoinedType
<1>13. p = q /\ a3 = b3
  <2> HIDE DEF p, q
  <2> QED
    BY <1>1, <1>8, <1>12, EndsBind
<1>14. a1 = b1 /\ a2 = b2
  BY <1>4, <1>7, <1>13, EndsBind
<1> QED
  BY <1>9, <1>10, <1>11, <1>13, <1>14

LEMMA SpendCellsBind ==
  ASSUME NEW s, Trans!IsSpend(s), NEW t, Trans!IsSpend(t), SpendCells(s) = SpendCells(t)
  PROVE  Trans!Committed(s) = Trans!Committed(t)
<1>1. /\ s.hashType = t.hashType /\ s.tx.lockTime = t.tx.lockTime
      /\ s.prevOut.amount = t.prevOut.amount /\ Spent(s).sequence = Spent(t).sequence
  BY SpendPartsBind DEF Trans!Fixed
<1>2. s.prevOut.script.instrcs[2] = t.prevOut.script.instrcs[2]
  BY SpendPartsBind DEF Trans!p2pkhScript
<1>3. Spent(s).prevOut = Spent(t).prevOut
  BY SpendPartsBind, SpendIs, OutpointApart DEF Outpoint
<1>4. Trans!SignedOutputs(s) = Trans!SignedOutputs(t)
  <2>1. Hash(FlattenSeq(Outs(s))) = Hash(FlattenSeq(Outs(t)))
    BY SpendPartsBind
  <2>2. FlattenSeq(Outs(s)) = FlattenSeq(Outs(t))
    BY <2>1 DEF Hash
  <2> QED
    BY <2>2, SpendIs, OutputsBind DEF Outs
<1>5. /\ s.tx.version = t.tx.version
      /\ Trans!AnyoneCanPay(s.hashType) \/ FlattenSeq(PrevOuts(s)) = FlattenSeq(PrevOuts(t))
      /\ \/ ~Trans!SignsSequences(s.hashType)
         \/ FlattenSeq(Sequences(s)) = FlattenSeq(Sequences(t))
  BY <1>1, SpendPartsBind, PreambleBinds
<1> DEFINE prevOuts(x) == [i \in DOMAIN x.tx.input |-> x.tx.input[i].prevOut]
           sequences(x) == [i \in DOMAIN x.tx.input |-> x.tx.input[i].sequence]
<1>6. Trans!AnyoneCanPay(s.hashType) \/ prevOuts(s) = prevOuts(t)
  BY <1>5, PrevOutsBind
<1>7. Trans!AnyoneCanPay(s.hashType) \/ ~Trans!SignsAll(s.hashType)
        \/ sequences(s) = sequences(t)
  BY <1>5, SequencesBind DEF Trans!SignsSequences
<1> QED
  <2>1. Trans!Committed(s)
          = <<s.hashType, s.tx.version, s.tx.lockTime, Spent(s).prevOut, Spent(s).sequence,
              s.prevOut.amount, s.prevOut.script.instrcs[2],
              IF Trans!AnyoneCanPay(s.hashType) THEN <<>> ELSE prevOuts(s),
              IF Trans!AnyoneCanPay(s.hashType) \/ ~Trans!SignsAll(s.hashType) THEN <<>>
              ELSE sequences(s),
              Trans!SignedOutputs(s)>>
    BY DEF Trans!Committed, Spent
  <2>2. Trans!Committed(t)
          = <<t.hashType, t.tx.version, t.tx.lockTime, Spent(t).prevOut, Spent(t).sequence,
              t.prevOut.amount, t.prevOut.script.instrcs[2],
              IF Trans!AnyoneCanPay(t.hashType) THEN <<>> ELSE prevOuts(t),
              IF Trans!AnyoneCanPay(t.hashType) \/ ~Trans!SignsAll(t.hashType) THEN <<>>
              ELSE sequences(t),
              Trans!SignedOutputs(t)>>
    BY DEF Trans!Committed, Spent
  <2> HIDE DEF prevOuts, sequences
  <2> QED
    BY <1>1, <1>2, <1>3, <1>4, <1>5, <1>6, <1>7, <2>1, <2>2

\* A signature is good for one spend only: two spends that hash alike have the same
\* hash type and the same of everything it commits to, for every hash type
\* (blkdat.go:171-230).
THEOREM SighashBindsHolds == CodecsSpec => []SighashBinds
<1>1. (codec = "transaction" => TransactionInv) => SighashBinds
  <2> SUFFICES ASSUME TransactionInv, pc = "signed", got[1] = got[2]
               PROVE  Trans!Committed(given[1]) = Trans!Committed(given[2])
    BY DEF SighashBinds, Trans!SighashBinds
  <2> DEFINE s == given[1]
             t == given[2]
  <2>1. Trans!IsSpend(s) /\ Trans!IsSpend(t)
    BY TransactionsAre DEF TransactionInv, SpendInv, Trans!TransactionsAssumption
  <2>2. Trans!hashTx(s) = Trans!hashTx(t)
    BY DEF TransactionInv, SpendInv
  <2> HIDE DEF s, t
  <2>3. SpendCells(s) = SpendCells(t)
    BY <2>1, <2>2, hashTxIs
  <2> QED
    BY <2>1, <2>3, SpendCellsBind DEF s, t
<1> QED
  BY <1>1, TransactionInvariant, PTL
=============================================================================
