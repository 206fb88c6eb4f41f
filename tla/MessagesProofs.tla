--------------------------- MODULE MessagesProofs ---------------------------
(***************************************************************************)
(* Theorems about module Messages, for every set of blocks.                *)
(***************************************************************************)
EXTENDS Messages, Induction, SequenceTheorems

\* What the outputs of the coinbase of a block are read as.
CoinbaseEntries(b) ==
  {[transaction |-> 0, output |-> c - 1,
    msg |-> parseCoinbaseBody(b.coinbase[c].tag, b.coinbase[c].body)] :
     c \in {c \in DOMAIN b.coinbase :
              /\ b.coinbase[c].ret
              /\ parseCoinbaseBody(b.coinbase[c].tag, b.coinbase[c].body) # None}}

\* What the transactions of a block may be read as.
TransactionEntries(b) ==
  UNION {UNION {{[transaction |-> t, output |-> 0, msg |-> msg] :
                   msg \in Readings(b.txs[t], result)} :
                  result \in parseM5(b.txs[t])} :
           t \in DOMAIN b.txs}

Entries(b) == CoinbaseEntries(b) \cup TransactionEntries(b)

\* Message e comes before message f in the block.
Earlier(e, f) ==
  \/ e.transaction < f.transaction
  \/ e.transaction = 0 /\ f.transaction = 0 /\ e.output < f.output

InBlockOrder(list) == \A i, j \in DOMAIN list : i < j => Earlier(list[i], list[j])

\* The loops are within the block, and a refused block has no messages.
LoopsInv ==
  /\ block \in RawBlocks
  /\ pc \in {"coinbase", "transactions", "done", "invalid", "panicked"}
  /\ pc = "coinbase" => next \in 1..(Len(block.coinbase) + 1)
  /\ pc = "transactions" => next \in 1..(Len(block.txs) + 1)
  /\ pc = "invalid" => ms = <<>>

\* The messages are those of outputs and transactions that were read, in order.
ReadInv ==
  /\ ms \in Seq(Entries(block))
  /\ InBlockOrder(ms)
  /\ pc = "coinbase" =>
       \A i \in DOMAIN ms : ms[i].transaction = 0 /\ ms[i].output + 1 < next
  /\ pc = "transactions" => \A i \in DOMAIN ms : ms[i].transaction < next

\* Each bid that was read has its message.
BidsInv ==
  pc = "transactions" =>
    \A t \in DOMAIN block.txs :
      t < next /\ block.txs[t].out[1].kind = "m8" =>
        \E i \in DOMAIN ms : ms[i].msg = M8Message(block.txs[t])

\* So has each withdrawal, and it is not deleted with the expired bids.
WithdrawalsInv ==
  pc \in {"transactions", "done"} =>
    \A t \in DOMAIN block.txs :
      (pc = "done" \/ t < next) /\ parseM6(block.txs[t]) =>
        \E i \in DOMAIN ms : ms[i].msg = M6Message(block.txs[t])

SlotsInv == pc \in {"transactions", "done"} => ~SameSlotTwice(ms, "M3")

IInv == LoopsInv /\ ReadInv /\ BidsInv /\ WithdrawalsInv /\ SlotsInv /\ BmmMatched

-----------------------------------------------------------------------------
(* The blocks and what is read in them.                                    *)

LEMMA SequenceOfRange ==
  ASSUME NEW s, IsSequence(s)
  PROVE  s \in Seq(Range(s))
<1>1. s = [i \in 1..Len(s) |-> s[i]] /\ Len(s) \in Nat
  BY DEF IsSequence
<1>2. DOMAIN s = 1..Len(s)
  BY <1>1
<1>3. \A i \in 1..Len(s) : s[i] \in Range(s)
  BY <1>2 DEF Range
<1>4. [i \in 1..Len(s) |-> s[i]] \in Seq(Range(s))
  BY <1>1, <1>3, IsASeq
<1> QED
  BY <1>1, <1>4

\* A block has sequences, of outputs with bodies that are sequences, and of
\* transactions that have inputs and outputs, of natural amounts.
LEMMA BlockTypes ==
  ASSUME NEW b \in RawBlocks
  PROVE  /\ b.coinbase \in Seq(Range(b.coinbase))
         /\ Len(b.coinbase) \in Nat /\ DOMAIN b.coinbase = 1..Len(b.coinbase)
         /\ b.txs \in Seq(Range(b.txs))
         /\ Len(b.txs) \in Nat /\ DOMAIN b.txs = 1..Len(b.txs)
         /\ \A c \in DOMAIN b.coinbase :
              /\ b.coinbase[c].tag \in Tags
              /\ b.coinbase[c].body \in Seq(Range(b.coinbase[c].body))
         /\ \A t \in DOMAIN b.txs :
              /\ b.txs[t].in \in Seq(Range(b.txs[t].in)) /\ b.txs[t].in # <<>>
              /\ b.txs[t].out \in Seq(Range(b.txs[t].out)) /\ b.txs[t].out # <<>>
              /\ \A j \in DOMAIN b.txs[t].in : b.txs[t].in[j].out.value \in Nat
              /\ \A j \in DOMAIN b.txs[t].out : b.txs[t].out[j].value \in Nat
<1>1. /\ b.coinbase \in Seq(Range(b.coinbase))
      /\ b.txs \in Seq(Range(b.txs))
  BY RawBlocksAssumption, SequenceOfRange DEF WellFormed
<1>2. /\ Len(b.coinbase) \in Nat /\ DOMAIN b.coinbase = 1..Len(b.coinbase)
      /\ Len(b.txs) \in Nat /\ DOMAIN b.txs = 1..Len(b.txs)
  BY <1>1, LenProperties
<1> QED
  BY <1>1, <1>2, RawBlocksAssumption, SequenceOfRange DEF WellFormed

\* What a body is read as depends on its tag.
LEMMA BodyTypes ==
  ASSUME NEW tag \in Tags, NEW b
  PROVE  LET msg == parseCoinbaseBody(tag, b)
         IN /\ msg # None => msg.type = tag /\ tag # "none"
            /\ msg # None /\ tag = "M7" =>
                 /\ Len(b) = 1 + HashLen
                 /\ msg.slot = b[1]
                 /\ msg.hash = SubSeq(b, 2, Len(b))
<1>1. CASE tag = "M1"
  BY <1>1 DEF parseCoinbaseBody, parseM1
<1>2. CASE tag = "M4"
  BY <1>2 DEF parseCoinbaseBody, parseM4
<1>3. CASE tag = "none"
  BY <1>3 DEF parseCoinbaseBody
<1>4. CASE tag \in {"M2", "M3", "M7"}
  BY <1>4 DEF parseCoinbaseBody, SlotHash
<1> QED
  BY <1>1, <1>2, <1>3, <1>4 DEF Tags

\* The three readings of a transaction.
LEMMA ReadingTypes ==
  ASSUME NEW tx, NEW result, NEW msg \in Readings(tx, result)
  PROVE  /\ msg.type \in {"M5", "M6", "M8"} /\ msg # None
         /\ msg.type = "M5" => result = "ok" /\ msg = M5Message(tx)
         /\ msg.type = "M6" => parseM6(tx) /\ msg = M6Message(tx)
         /\ msg.type = "M8" => parseM8(tx) /\ msg = M8Message(tx)
BY DEF Readings, M5Message, M6Message, M8Message, None

\* Where an entry of a block comes from.
LEMMA EntryTypes ==
  ASSUME NEW b \in RawBlocks, NEW e \in Entries(b)
  PROVE  \/ /\ e.transaction = 0 /\ e.output + 1 \in DOMAIN b.coinbase /\ e.output \in Nat
            /\ LET o == b.coinbase[e.output + 1]
               IN /\ o.ret /\ o.tag \in Tags \ {"none"}
                  /\ e.msg = parseCoinbaseBody(o.tag, o.body)
                  /\ e.msg # None
                  /\ e.msg.type = o.tag
         \/ /\ e.transaction \in DOMAIN b.txs /\ e.output = 0
            /\ e.transaction \in Nat \ {0}
            /\ \E result \in parseM5(b.txs[e.transaction]) :
                 e.msg \in Readings(b.txs[e.transaction], result)
            /\ e.msg.type \in {"M5", "M6", "M8"}
<1>1. CASE e \in CoinbaseEntries(b)
  <2>1. PICK c \in DOMAIN b.coinbase :
          /\ b.coinbase[c].ret
          /\ parseCoinbaseBody(b.coinbase[c].tag, b.coinbase[c].body) # None
          /\ e = [transaction |-> 0, output |-> c - 1,
                  msg |-> parseCoinbaseBody(b.coinbase[c].tag, b.coinbase[c].body)]
    BY <1>1 DEF CoinbaseEntries
  <2>2. c \in Nat \ {0} /\ b.coinbase[c].tag \in Tags
    BY BlockTypes
  <2>3. e.output + 1 = c /\ e.output \in Nat
    BY <2>1, <2>2
  <2>4. /\ parseCoinbaseBody(b.coinbase[c].tag, b.coinbase[c].body).type = b.coinbase[c].tag
        /\ b.coinbase[c].tag # "none"
    BY <2>1, <2>2, BodyTypes
  <2> QED
    BY <2>1, <2>2, <2>3, <2>4
<1>2. CASE e \in TransactionEntries(b)
  <2>1. PICK t \in DOMAIN b.txs :
          \E result \in parseM5(b.txs[t]) : \E msg \in Readings(b.txs[t], result) :
            e = [transaction |-> t, output |-> 0, msg |-> msg]
    BY <1>2 DEF TransactionEntries
  <2>2. PICK result \in parseM5(b.txs[t]) : \E msg \in Readings(b.txs[t], result) :
          e = [transaction |-> t, output |-> 0, msg |-> msg]
    BY <2>1
  <2> PICK msg \in Readings(b.txs[t], result) :
        e = [transaction |-> t, output |-> 0, msg |-> msg]
    BY <2>2
  <2>3. t \in Nat \ {0}
    BY BlockTypes
  <2>4. msg.type \in {"M5", "M6", "M8"}
    BY ReadingTypes
  <2>5. e.transaction = t /\ e.output = 0 /\ e.msg = msg
    OBVIOUS
  <2> QED
    BY <2>3, <2>4, <2>5
<1> QED
  BY <1>1, <1>2 DEF Entries

-----------------------------------------------------------------------------
(* Lists of messages.                                                      *)

\* What the deletion of the expired bids leaves is some of the messages of the
\* list, in their order, all but the expired bids.
LEMMA UnexpiredSelects ==
  ASSUME NEW S, NEW list \in Seq(S), NEW prev
  PROVE  LET left == Unexpired(list, prev)
         IN /\ left \in Seq(S)
            /\ \E p \in [DOMAIN left -> DOMAIN list] :
                 /\ \A i, j \in DOMAIN left : i < j => p[i] < p[j]
                 /\ \A i \in DOMAIN left : left[i] = list[p[i]]
            /\ \A i \in DOMAIN left : left[i].msg.type = "M8" => left[i].msg.prev = prev
            /\ \A k \in DOMAIN list :
                 list[k].msg.type # "M8" => \E i \in DOMAIN left : left[i] = list[k]
<1> DEFINE N == Len(list)
           gone(n) == list[n].msg.type = "M8" /\ Expired(list[n].msg, prev)
           Solves(f) == f = [n \in 0..N |-> IF n = 0 THEN <<>>
                                            ELSE IF gone(n) THEN f[n - 1]
                                            ELSE Append(f[n - 1], list[n])]
           kept == CHOOSE f : Solves(f)
<1>1. N \in Nat /\ DOMAIN list = 1..N /\ \A n \in 1..N : list[n] \in S
  BY LenProperties, ElementOfSeq
<1>2. \E f : Solves(f)
  <2> DEFINE V == Seq(S)
             start == <<>>
             step == [x \in V \X (1..N) |->
                        IF gone(x[2]) THEN x[1] ELSE Append(x[1], list[x[2]])]
  <2>1. step \in [V \X (1..N) -> V]
    <3> SUFFICES ASSUME NEW t \in V, NEW n \in 1..N
                 PROVE  Append(t, list[n]) \in V
      OBVIOUS
    <3> QED
      BY <1>1, AppendProperties
  <2>2. start \in V
    BY EmptySeq
  <2>3. N \in Nat
    BY <1>1
  <2> HIDE DEF N, V, start, step, gone
  <2>4. PICK f : RecursiveOnNumbers(f, N, V, start, step)
    BY <2>1, <2>2, <2>3, RecursionOnNumbers
  <2>5. \A n \in 0..N : f[n] = IF n = 0 THEN <<>>
                               ELSE IF gone(n) THEN f[n - 1] ELSE Append(f[n - 1], list[n])
    <3> SUFFICES ASSUME NEW n \in 0..N, n # 0
                 PROVE  step[<<f[n - 1], n>>] = IF gone(n) THEN f[n - 1] ELSE Append(f[n - 1], list[n])
      BY <2>4 DEF start, RecursiveOnNumbers
    <3>1. f[n - 1] \in V /\ n \in 1..N
      BY <2>3, <2>4 DEF RecursiveOnNumbers
    <3> QED
      BY <3>1 DEF step
  <2>6. f = [n \in 0..N |-> f[n]]
    BY <2>4 DEF RecursiveOnNumbers
  <2>7. Solves(f)
    BY <2>5, <2>6
  <2> QED
    BY <2>7
<1>3. Solves(kept)
  <2> HIDE DEF Solves
  <2> QED
    BY <1>2
<1>4. Unexpired(list, prev) = kept[N]
  BY DEF Unexpired
<1>5. \A n \in 0..N : kept[n] = IF n = 0 THEN <<>>
                                ELSE IF gone(n) THEN kept[n - 1] ELSE Append(kept[n - 1], list[n])
  BY <1>3
<1> DEFINE Selects(left, n) ==
             /\ left \in Seq(S)
             /\ \E p \in [DOMAIN left -> 1..n] :
                  /\ \A i, j \in DOMAIN left : i < j => p[i] < p[j]
                  /\ \A i \in DOMAIN left : left[i] = list[p[i]] /\ ~gone(p[i])
             /\ \A k \in 1..n : ~gone(k) => \E i \in DOMAIN left : left[i] = list[k]
           T == {n \in 0..N : Selects(kept[n], n)}
<1> HIDE DEF kept, N
<1>6. 0 \in T
  <2>1. <<>> \in Seq(S) /\ DOMAIN <<>> = {}
    BY EmptySeq
  <2> DEFINE p == [i \in {} |-> 1]
  <2>2. p \in [DOMAIN <<>> -> 1..0]
    BY <2>1
  <2>3. Selects(<<>>, 0)
    <3>1. \A k \in 1..0 : FALSE
      OBVIOUS
    <3> HIDE DEF p, gone
    <3> QED
      BY <2>1, <2>2, <3>1
  <2> HIDE DEF Selects
  <2> QED
    BY <1>1, <1>5, <2>3
<1>7. ASSUME NEW n \in T, n < N
      PROVE  n + 1 \in T
  <2>1. n \in Nat /\ n + 1 \in 1..N /\ n + 1 \in 0..N /\ n + 1 # 0 /\ n + 1 - 1 = n
    BY <1>1, <1>7
  <2>2. Selects(kept[n], n)
    OBVIOUS
  <2>3. PICK p \in [DOMAIN kept[n] -> 1..n] :
          /\ \A i, j \in DOMAIN kept[n] : i < j => p[i] < p[j]
          /\ \A i \in DOMAIN kept[n] : kept[n][i] = list[p[i]] /\ ~gone(p[i])
    BY <2>2
  <2>4. CASE gone(n + 1)
    <3>1. kept[n + 1] = kept[n]
      BY <1>5, <2>1, <2>4
    <3>2. p \in [DOMAIN kept[n] -> 1..(n + 1)]
      BY <2>1
    <3>a. \A k \in 1..(n + 1) : ~gone(k) => k \in 1..n
      BY <2>1, <2>4
    <3>3. Selects(kept[n], n + 1)
      BY <2>2, <2>3, <3>2, <3>a
    <3> HIDE DEF Selects
    <3> QED
      BY <2>1, <3>1, <3>3
  <2>5. CASE ~gone(n + 1)
    <3> DEFINE k == Len(kept[n]) + 1
               more == Append(kept[n], list[n + 1])
               q == [i \in 1..k |-> IF i = k THEN n + 1 ELSE p[i]]
    <3>1. kept[n + 1] = more
      <4>1. kept[n + 1] = IF gone(n + 1) THEN kept[n + 1 - 1]
                          ELSE Append(kept[n + 1 - 1], list[n + 1])
        BY <1>5, <2>1
      <4> HIDE DEF gone
      <4> QED
        BY <2>1, <2>5, <4>1
    <3>2. Len(kept[n]) \in Nat /\ DOMAIN kept[n] = 1..(k - 1) /\ k \in Nat
      BY <2>2, LenProperties
    <3>3. /\ more \in Seq(S)
          /\ DOMAIN more = 1..k
          /\ more[k] = list[n + 1]
          /\ \A i \in 1..(k - 1) : more[i] = kept[n][i]
      <4>1. /\ more \in Seq(S) /\ Len(more) = k
            /\ \A i \in 1..Len(kept[n]) : more[i] = kept[n][i]
            /\ more[k] = list[n + 1]
        BY <1>1, <2>1, <2>2, AppendProperties
      <4> QED
        BY <3>2, <4>1, LenProperties
    <3>4. q \in [1..k -> 1..(n + 1)]
      <4>1. ASSUME NEW i \in 1..k, i # k
            PROVE  p[i] \in 1..n
        <5>1. i \in DOMAIN kept[n]
          BY <3>2, <4>1
        <5> QED
          BY <2>3, <5>1
      <4>2. \A i \in 1..k : (IF i = k THEN n + 1 ELSE p[i]) \in 1..(n + 1)
        BY <2>1, <4>1
      <4> QED
        BY <4>2
    <3>5. ASSUME NEW i \in 1..k, NEW j \in 1..k, i < j
          PROVE  q[i] < q[j]
      <4> HIDE DEF k
      <4>a. i \in 1..(k - 1) /\ i # k
        BY <3>2, <3>5
      <4>1. i \in 1..(k - 1) /\ q[i] = p[i] /\ p[i] \in 1..n
        BY <3>2, <4>a
      <4>2. CASE j = k
        BY <2>1, <4>1, <4>2
      <4>3. CASE j # k
        <5>1. j \in 1..(k - 1) /\ q[j] = p[j]
          BY <3>2, <4>3
        <5> QED
          BY <2>3, <3>2, <3>5, <4>1, <5>1
      <4> QED
        BY <4>2, <4>3
    <3>6. ASSUME NEW i \in 1..k
          PROVE  more[i] = list[q[i]] /\ ~gone(q[i])
      <4>1. CASE i = k
        BY <2>5, <3>3, <4>1
      <4>2. CASE i # k
        <5>1. i \in 1..(k - 1) /\ q[i] = p[i]
          BY <3>2, <4>2
        <5> HIDE DEF q, gone, more
        <5> QED
          BY <2>3, <3>2, <3>3, <5>1
      <4> QED
        BY <4>1, <4>2
    <3>a. ASSUME NEW h \in 1..(n + 1), ~gone(h)
          PROVE  \E i \in 1..k : more[i] = list[h]
      <4>1. CASE h = n + 1
        BY <3>2, <3>3, <4>1
      <4>2. CASE h # n + 1
        <5>1. h \in 1..n
          BY <2>1, <4>2
        <5>2. PICK i \in DOMAIN kept[n] : kept[n][i] = list[h]
          BY <2>2, <3>a, <5>1
        <5>3. i \in 1..(k - 1) /\ i \in 1..k
          BY <3>2
        <5> QED
          BY <3>3, <5>2, <5>3
      <4> QED
        BY <4>1, <4>2
    <3> HIDE DEF q, more, k
    <3>7. Selects(more, n + 1)
      BY <3>3, <3>4, <3>5, <3>6, <3>a
    <3> HIDE DEF Selects
    <3> QED
      BY <2>1, <3>1, <3>7
  <2> QED
    BY <2>4, <2>5
<1>8. Selects(kept[N], N)
  <2>1. T \in SUBSET (0..N)
    OBVIOUS
  <2> HIDE DEF T, Selects
  <2>2. \A n \in 0..N : n \in T
    BY <1>1, <1>6, <1>7, <2>1, SetInductionUpTo
  <2>3. N \in T
    BY <1>1, <2>2
  <2> QED
    BY <2>3 DEF T
<1>9. Selects(Unexpired(list, prev), N)
  BY <1>4, <1>8
<1> QED
  BY <1>1, <1>9 DEF Expired

\* A message that comes after all those of a list in order goes to its end.
LEMMA AppendInOrder ==
  ASSUME NEW S, NEW list \in Seq(S), NEW e \in S, InBlockOrder(list),
         \A i \in DOMAIN list : Earlier(list[i], e)
  PROVE  /\ Append(list, e) \in Seq(S)
         /\ InBlockOrder(Append(list, e))
         /\ DOMAIN Append(list, e) = 1..(Len(list) + 1)
         /\ Len(list) \in Nat /\ DOMAIN list = 1..Len(list)
         /\ Append(list, e)[Len(list) + 1] = e
         /\ \A i \in DOMAIN list : Append(list, e)[i] = list[i]
<1> DEFINE more == Append(list, e)
<1>1. Len(list) \in Nat /\ DOMAIN list = 1..Len(list)
  BY LenProperties
<1>2. /\ more \in Seq(S) /\ Len(more) = Len(list) + 1
      /\ \A i \in 1..Len(list) : more[i] = list[i]
      /\ more[Len(list) + 1] = e
  BY AppendProperties
<1>3. DOMAIN more = 1..(Len(list) + 1)
  BY <1>2, LenProperties
<1> HIDE DEF more
<1>4. InBlockOrder(more)
  <2> SUFFICES ASSUME NEW i \in DOMAIN more, NEW j \in DOMAIN more, i < j
               PROVE  Earlier(more[i], more[j])
    BY DEF InBlockOrder
  <2>1. i \in DOMAIN list /\ more[i] = list[i]
    BY <1>1, <1>2, <1>3
  <2>2. CASE j = Len(list) + 1
    BY <1>2, <2>1, <2>2
  <2>3. CASE j # Len(list) + 1
    <3>1. j \in DOMAIN list /\ more[j] = list[j]
      BY <1>1, <1>2, <1>3, <2>3
    <3> QED
      BY <2>1, <3>1 DEF InBlockOrder
  <2> QED
    BY <2>2, <2>3
<1> QED
  BY <1>1, <1>2, <1>3, <1>4 DEF more
-----------------------------------------------------------------------------
(* Sums of amounts.                                                        *)

\* The function t gives the sum of the numbers a[x] over each subset of S.
SumsOver(t, S, a) ==
  /\ t \in [SUBSET S -> Int]
  /\ t[{}] = 0
  /\ \A s \in SUBSET S : \A x \in s : t[s] = a[x] + t[s \ {x}]

\* Sum is the sum over the whole domain, in whichever order.
LEMMA SumIsOverDomain ==
  ASSUME NEW S, IsFiniteSet(S), NEW a \in [S -> Int]
  PROVE  \E t : SumsOver(t, S, a) /\ Sum(a) = t[S]
<1> DEFINE first(s) == CHOOSE x \in s : TRUE
           Solves(f) == f = [s \in SUBSET S |->
                               IF s = {} THEN 0 ELSE a[first(s)] + f[s \ {first(s)}]]
           t == CHOOSE f : Solves(f)
           pick == [s \in SUBSET S |-> first(s)]
           step == [x \in S \X Int |-> a[x[1]] + x[2]]
           TInv(f) == /\ f \in [SUBSET S -> Int]
                      /\ \A s \in SUBSET S :
                           f[s] = IF s = {} THEN 0 ELSE a[first(s)] + f[s \ {first(s)}]
<1>1. \A s \in SUBSET S : s # {} => first(s) \in s
  OBVIOUS
<1>2. PICK f : RecursiveOnSubsets(f, S, Int, 0, pick, step)
  <2>1. 0 \in Int /\ step \in [S \X Int -> Int]
    OBVIOUS
  <2>2. \A s \in SUBSET S : s # {} => pick[s] \in s
    BY <1>1
  <2> HIDE DEF pick, step
  <2> QED
    BY <2>1, <2>2, RecursionOnSubsets
<1>3. TInv(f)
  <2>1. f \in [SUBSET S -> Int]
    BY <1>2 DEF RecursiveOnSubsets
  <2>2. ASSUME NEW s \in SUBSET S, s # {}
        PROVE  f[s] = a[first(s)] + f[s \ {first(s)}]
    <3>1. first(s) \in S /\ f[s \ {first(s)}] \in Int /\ pick[s] = first(s)
      BY <1>1, <2>1, <2>2
    <3>2. f[s] = step[<<pick[s], f[s \ {pick[s]}]>>]
      BY <1>2, <2>2 DEF RecursiveOnSubsets
    <3> HIDE DEF first, pick
    <3> QED
      BY <3>1, <3>2
  <2>3. f[{}] = 0
    BY <1>2 DEF RecursiveOnSubsets
  <2> QED
    BY <2>1, <2>2, <2>3
<1>4. Solves(f)
  BY <1>3
<1>5. Solves(t)
  <2> HIDE DEF Solves
  <2> QED
    BY <1>4
<1>6. Sum(a) = t[S]
  <2>1. DOMAIN a = S
    OBVIOUS
  <2> QED
    BY <2>1 DEF Sum, FoldFunction, FoldFunctionOnSet, MapThenFoldSet
<1> HIDE DEF t
<1>7. \A s \in SUBSET S : t[s] = IF s = {} THEN 0 ELSE a[first(s)] + t[s \ {first(s)}]
  BY <1>5
<1>7a. t[{}] = 0
  BY <1>7
<1> HIDE DEF Solves, TInv, first
<1>8. \A s \in SUBSET S : IsFiniteSet(s) /\ Cardinality(s) \in Nat
  BY FS_Subset, FS_CardinalityType
<1> DEFINE Good(s) == t[s] \in Int /\ \A x \in s : t[s] = a[x] + t[s \ {x}]
           T == {n \in Nat : \A s \in SUBSET S : Cardinality(s) <= n => Good(s)}
<1>9. 0 \in T
  <2>1. ASSUME NEW s \in SUBSET S, Cardinality(s) <= 0
        PROVE  Good(s)
    <3>1. s = {}
      BY <1>8, <2>1, FS_EmptySet
    <3> QED
      BY <1>7a, <3>1
  <2> QED
    BY <2>1
<1>10. ASSUME NEW n \in T
       PROVE  n + 1 \in T
  <2> SUFFICES ASSUME NEW s \in SUBSET S, Cardinality(s) <= n + 1
               PROVE  Good(s)
    OBVIOUS
  <2>1. \A r \in SUBSET S : Cardinality(r) <= n => Good(r)
    OBVIOUS
  <2>2. ASSUME NEW x \in s
        PROVE  Good(s \ {x}) /\ s \ {x} \in SUBSET S /\ a[x] \in Int /\ t[s \ {x}] \in Int
    <3>1. Cardinality(s \ {x}) = Cardinality(s) - 1
      BY <1>8, FS_RemoveElement
    <3>2. Cardinality(s \ {x}) <= n
      BY <1>8, <3>1
    <3> QED
      BY <2>1, <3>2
  <2> DEFINE c == first(s)
  <2>3. CASE s = {}
    BY <1>7a, <2>3
  <2>4. CASE s # {}
    <3>1. c \in s /\ t[s] = a[c] + t[s \ {c}]
      BY <1>1, <1>7, <2>4
    <3> HIDE DEF c
    <3>2. t[s] \in Int
      <4>1. a[c] \in Int /\ t[s \ {c}] \in Int
        BY <2>2, <3>1
      <4> QED
        BY <3>1, <4>1
    <3>3. ASSUME NEW x \in s
          PROVE  t[s] = a[x] + t[s \ {x}]
      <4>1. CASE x = c
        BY <3>1, <4>1
      <4>2. CASE x # c
        <5>1. x \in s \ {c} /\ c \in s \ {x}
          BY <3>1, <4>2
        <5>2. t[s \ {c}] = a[x] + t[(s \ {c}) \ {x}]
          BY <2>2, <3>1, <5>1
        <5>3. t[s \ {x}] = a[c] + t[(s \ {x}) \ {c}]
          BY <2>2, <3>3, <5>1
        <5>4. (s \ {x}) \ {c} = (s \ {c}) \ {x}
          OBVIOUS
        <5> DEFINE u == t[(s \ {c}) \ {x}]
        <5>5. Cardinality((s \ {c}) \ {x}) <= n
          <6>1. Cardinality(s \ {c}) = Cardinality(s) - 1
            BY <1>8, <3>1, FS_RemoveElement
          <6>2. Cardinality((s \ {c}) \ {x}) = Cardinality(s \ {c}) - 1
            BY <1>8, <5>1, FS_RemoveElement
          <6> QED
            BY <1>8, <6>1, <6>2
        <5>6. u \in Int
          BY <2>1, <5>5
        <5>7. t[s \ {c}] = a[x] + u /\ t[s \ {x}] = a[c] + u
          BY <5>2, <5>3, <5>4
        <5>8. a[x] \in Int /\ a[c] \in Int
          BY <2>2, <3>1
        <5> HIDE DEF u
        <5> QED
          BY <3>1, <5>6, <5>7, <5>8
      <4> QED
        BY <4>1, <4>2
    <3> QED
      BY <3>2, <3>3
  <2> QED
    BY <2>3, <2>4
<1>11. \A s \in SUBSET S : Good(s)
  <2>1. T \in SUBSET Nat
    OBVIOUS
  <2> HIDE DEF T
  <2>2. \A n \in Nat : n \in T
    BY <1>9, <1>10, <2>1, SetInduction
  <2> HIDE DEF Good
  <2> TAKE s \in SUBSET S
  <2>3. Cardinality(s) \in T /\ Cardinality(s) <= Cardinality(s)
    BY <1>8, <2>2
  <2> QED
    BY <2>3 DEF T
<1>12. SumsOver(t, S, a)
  <2>1. t = [s \in SUBSET S |-> t[s]]
    BY <1>5 DEF Solves
  <2>2. t[{}] = 0
    BY <1>7
  <2> QED
    BY <1>11, <2>1, <2>2 DEF SumsOver
<1> QED
  BY <1>6, <1>12

\* The sum of a list is its first number and the sum of the others.
LEMMA SumOfTail ==
  ASSUME NEW a \in Seq(Int), a # <<>>
  PROVE  /\ Sum(a) = a[1] + Sum(Tail(a))
         /\ Sum(a) \in Int /\ Sum(Tail(a)) \in Int
<1> DEFINE b == Tail(a)
           N == Len(b)
<1>1. /\ b \in Seq(Int) /\ Len(a) = N + 1 /\ N \in Nat
      /\ \A i \in 1..N : b[i] = a[i + 1]
  BY HeadTailProperties, LenProperties
<1>2. a \in [1..(N + 1) -> Int] /\ b \in [1..N -> Int]
  BY <1>1, LenProperties
<1> HIDE DEF b, N
<1>3. IsFiniteSet(1..(N + 1)) /\ IsFiniteSet(1..N)
  BY <1>1, FS_Interval
<1>4. PICK t : SumsOver(t, 1..(N + 1), a) /\ Sum(a) = t[1..(N + 1)]
  BY <1>2, <1>3, SumIsOverDomain
<1>5. PICK u : SumsOver(u, 1..N, b) /\ Sum(b) = u[1..N]
  BY <1>2, <1>3, SumIsOverDomain
<1> DEFINE T == {n \in 0..N : u[1..n] = t[2..(n + 1)]}
<1>6. 0 \in T
  <2>1. 1..0 = {} /\ 2..(0 + 1) = {}
    OBVIOUS
  <2> QED
    BY <1>1, <1>4, <1>5, <2>1 DEF SumsOver
<1>7. ASSUME NEW n \in T, n < N
      PROVE  n + 1 \in T
  <2>1. n \in Nat /\ n + 1 \in 1..N
    BY <1>1, <1>7
  <2> DEFINE r == 1..(n + 1)
             q == 2..(n + 1 + 1)
  <2>2. r \in SUBSET (1..N) /\ n + 1 \in r /\ r \ {n + 1} = 1..n
    <3>1. r \in SUBSET (1..N) /\ n + 1 \in r
      BY <1>1, <2>1
    <3>2. \A x : x \in r \ {n + 1} <=> x \in 1..n
      BY <2>1
    <3> QED
      BY <3>1, <3>2
  <2>3. u[r] = b[n + 1] + u[1..n]
    <3> HIDE DEF r
    <3>1. u[r] = b[n + 1] + u[r \ {n + 1}]
      BY <1>5, <2>2 DEF SumsOver
    <3> QED
      BY <2>2, <3>1
  <2>4. q \in SUBSET (1..(N + 1)) /\ n + 1 + 1 \in q /\ q \ {n + 1 + 1} = 2..(n + 1)
    <3>1. q \in SUBSET (1..(N + 1)) /\ n + 1 + 1 \in q
      BY <1>1, <2>1
    <3>2. \A x : x \in q \ {n + 1 + 1} <=> x \in 2..(n + 1)
      BY <2>1
    <3> QED
      BY <3>1, <3>2
  <2>5. t[q] = a[n + 1 + 1] + t[2..(n + 1)]
    <3> HIDE DEF q
    <3>1. t[q] = a[n + 1 + 1] + t[q \ {n + 1 + 1}]
      BY <1>4, <2>4 DEF SumsOver
    <3> QED
      BY <2>4, <3>1
  <2>6. b[n + 1] = a[n + 1 + 1]
    BY <1>1, <2>1
  <2> QED
    BY <1>1, <2>1, <2>3, <2>5, <2>6
<1>8. u[1..N] = t[2..(N + 1)]
  <2>1. T \in SUBSET (0..N)
    OBVIOUS
  <2>a. N \in Nat /\ N \in 0..N
    BY <1>1
  <2> HIDE DEF T
  <2>b. \A n \in 0..N : n \in T
    BY <1>6, <1>7, <2>a, <2>1, SetInductionUpTo
  <2>2. N \in T
    BY <2>a, <2>b
  <2> QED
    BY <2>2 DEF T
<1>9. t[1..(N + 1)] = a[1] + t[2..(N + 1)]
  <2> DEFINE r == 1..(N + 1)
  <2>1. 1 \in r /\ r \ {1} = 2..(N + 1)
    BY <1>1
  <2> HIDE DEF r
  <2>2. t[r] = a[1] + t[r \ {1}]
    BY <1>4, <2>1 DEF SumsOver, r
  <2> QED
    BY <2>1, <2>2 DEF r
<1>10. t[1..(N + 1)] \in Int /\ u[1..N] \in Int
  BY <1>4, <1>5 DEF SumsOver
<1> QED
  BY <1>4, <1>5, <1>8, <1>9, <1>10 DEF b

\* What the outputs of a transaction take from the treasury is the fee and the
\* sum of the outputs after the first.
LEMMA FeeAndPayouts ==
  ASSUME NEW b \in RawBlocks, NEW t \in DOMAIN b.txs
  PROVE  LET tx == b.txs[t]
         IN /\ tx.in[1].out.value - tx.out[1].value = fee(tx) + Sum(Values(Tail(tx.out)))
            /\ 1 \in DOMAIN tx.in /\ 1 \in DOMAIN tx.out
<1> DEFINE tx == b.txs[t]
           out == tx.out
           R == Range(out)
<1>1. /\ tx.in \in Seq(Range(tx.in)) /\ tx.in # <<>>
      /\ out \in Seq(R) /\ out # <<>>
      /\ \A j \in DOMAIN tx.in : tx.in[j].out.value \in Nat
      /\ \A j \in DOMAIN out : out[j].value \in Nat
  BY BlockTypes
<1> HIDE DEF tx, out, R
<1>2. /\ 1 \in DOMAIN tx.in /\ 1 \in DOMAIN out
      /\ DOMAIN out = 1..Len(out) /\ Len(out) \in Nat
  BY <1>1, EmptySeq, LenProperties
<1>3. /\ Tail(out) \in Seq(R) /\ Len(Tail(out)) = Len(out) - 1
      /\ \A i \in 1..Len(Tail(out)) : Tail(out)[i] = out[i + 1]
      /\ Len(Tail(out)) \in Nat
  BY <1>1, HeadTailProperties, LenProperties
<1>4. DOMAIN Tail(out) = 1..Len(Tail(out))
  BY <1>3, LenProperties
<1> DEFINE a == Values(out)
           c == Values(Tail(out))
<1>5. /\ a \in Seq(Int) /\ DOMAIN a = 1..Len(out)
      /\ \A i \in 1..Len(out) : a[i] = out[i].value
  BY <1>1, <1>2, IsASeq DEF Values
<1>6. Len(a) = Len(out) /\ a # <<>>
  BY <1>2, <1>5, LenProperties, EmptySeq
<1>7. /\ c \in Seq(Int) /\ DOMAIN c = 1..Len(Tail(out))
      /\ \A i \in 1..Len(Tail(out)) : c[i] = out[i + 1].value
  BY <1>1, <1>2, <1>3, <1>4 DEF Values
<1>8. Tail(a) = c
  <2> HIDE DEF a, c
  <2>1. /\ Tail(a) \in Seq(Int) /\ Len(Tail(a)) = Len(a) - 1
        /\ \A i \in 1..Len(Tail(a)) : Tail(a)[i] = a[i + 1]
    BY <1>5, <1>6, HeadTailProperties
  <2>2. Len(c) = Len(Tail(out))
    <3>1. Len(c) \in Nat /\ DOMAIN c = 1..Len(c)
      BY <1>7, LenProperties
    <3>2. Len(Tail(out)) \in Nat /\ DOMAIN c = 1..Len(Tail(out))
      BY <1>3, <1>7
    <3> HIDE DEF c
    <3>3. ASSUME NEW m \in Nat, NEW n \in Nat, 1..m = 1..n
          PROVE  m = n
      BY <3>3
    <3> QED
      BY <3>1, <3>2, <3>3
  <2>3. \A i \in 1..Len(c) : Tail(a)[i] = c[i]
    <3> TAKE i \in 1..Len(c)
    <3>1. i \in 1..Len(Tail(out)) /\ i \in 1..Len(Tail(a)) /\ i + 1 \in 1..Len(out)
      BY <1>2, <1>3, <1>6, <2>1, <2>2
    <3> QED
      BY <1>5, <1>7, <2>1, <3>1
  <2> QED
    BY <1>3, <1>6, <1>7, <2>1, <2>2, <2>3, SeqEqual
<1> HIDE DEF a, c
<1>9. Sum(a) = a[1] + Sum(c) /\ Sum(a) \in Int /\ Sum(c) \in Int
  BY <1>5, <1>6, <1>8, SumOfTail
<1>10. a[1] = out[1].value /\ out[1].value \in Nat /\ tx.in[1].out.value \in Nat
  BY <1>1, <1>2, <1>5
<1>11. fee(tx) = tx.in[1].out.value - Sum(a)
  BY DEF fee, a, out
<1>12. tx.in[1].out.value - out[1].value = fee(tx) + Sum(c)
  BY <1>9, <1>10, <1>11
<1> QED
  BY <1>2, <1>12 DEF c, out, tx
-----------------------------------------------------------------------------
(* The invariant holds at the start and every step preserves it.           *)

\* No message is a list of messages in order.
LEMMA EmptyList ==
  ASSUME NEW S
  PROVE  <<>> \in Seq(S) /\ DOMAIN <<>> = {} /\ InBlockOrder(<<>>)
BY EmptySeq DEF InBlockOrder

LEMMA InitIInv == Init => IInv
<1> SUFFICES ASSUME Init
             PROVE  IInv
  OBVIOUS
<1>1. LoopsInv
  <2>1. Len(block.coinbase) \in Nat
    BY BlockTypes DEF Init
  <2> QED
    BY <2>1 DEF Init, LoopsInv
<1>2. ReadInv
  BY EmptyList DEF Init, ReadInv
<1> QED
  BY <1>1, <1>2 DEF Init, IInv, BidsInv, WithdrawalsInv, SlotsInv, BmmMatched

\* An output of the coinbase adds a message to the end, or none.
LEMMA ParseCoinbaseStep ==
  ASSUME IInv, parseCoinbase
  PROVE  IInv'
<1> DEFINE o == block.coinbase[next]
           msg == IF o.ret THEN parseCoinbaseBody(o.tag, o.body) ELSE None
           e == [transaction |-> 0, output |-> next - 1, msg |-> msg]
<1>1. /\ pc = "coinbase" /\ next <= Len(block.coinbase)
      /\ ms' = IF msg = None THEN ms ELSE Append(ms, e)
      /\ next' = next + 1 /\ block' = block /\ pc' = pc
  BY DEF parseCoinbase, Add
<1>2. /\ block \in RawBlocks /\ next \in 1..(Len(block.coinbase) + 1)
      /\ ms \in Seq(Entries(block)) /\ InBlockOrder(ms)
      /\ \A i \in DOMAIN ms : ms[i].transaction = 0 /\ ms[i].output + 1 < next
  BY <1>1 DEF IInv, LoopsInv, ReadInv
<1>3. /\ Len(block.coinbase) \in Nat /\ next \in DOMAIN block.coinbase /\ next \in Nat
  BY <1>1, <1>2, BlockTypes
<1>4. LoopsInv'
  BY <1>1, <1>2, <1>3 DEF LoopsInv
<1>5. ReadInv'
  <2>1. CASE msg = None
    <3>1. \A i \in DOMAIN ms : ms[i].transaction = 0 /\ ms[i].output + 1 < next + 1
      <4> TAKE i \in DOMAIN ms
      <4>1. ms[i] \in Entries(block)
        BY <1>2, LenProperties, ElementOfSeq
      <4>2. ms[i].output \in Nat
        BY <1>2, <4>1, EntryTypes
      <4> QED
        BY <1>2, <1>3, <4>2
    <3>2. ms' = ms
      BY <1>1, <2>1
    <3> QED
      BY <1>1, <1>2, <3>1, <3>2 DEF ReadInv
  <2>2. CASE msg # None
    <3>1. e \in Entries(block)
      <4>1. o.ret /\ msg = parseCoinbaseBody(o.tag, o.body)
        BY <2>2
      <4> QED
        BY <1>3, <2>2, <4>1 DEF Entries, CoinbaseEntries
    <3>2. \A i \in DOMAIN ms : Earlier(ms[i], e) /\ ms[i].output + 1 < next + 1
      <4> TAKE i \in DOMAIN ms
      <4>1. ms[i] \in Entries(block)
        BY <1>2, LenProperties, ElementOfSeq
      <4>2. ms[i].output \in Nat
        BY <1>2, <4>1, EntryTypes
      <4>3. e.transaction = 0 /\ e.output = next - 1
        OBVIOUS
      <4>4. ms[i].transaction = 0 /\ ms[i].output + 1 < next
        BY <1>2
      <4> QED
        BY <1>3, <4>2, <4>3, <4>4 DEF Earlier
    <3>3. e.transaction = 0 /\ e.output + 1 < next + 1
      BY <1>3
    <3>4. ms' = Append(ms, e)
      BY <1>1, <2>2
    <3> HIDE DEF e
    <3>5. /\ ms' \in Seq(Entries(block))
          /\ InBlockOrder(ms')
          /\ DOMAIN ms' = 1..(Len(ms) + 1)
          /\ Len(ms) \in Nat /\ DOMAIN ms = 1..Len(ms)
          /\ ms'[Len(ms) + 1] = e
          /\ \A i \in DOMAIN ms : ms'[i] = ms[i]
      BY <1>2, <3>1, <3>2, <3>4, AppendInOrder
    <3>6. \A i \in DOMAIN ms' : ms'[i].transaction = 0 /\ ms'[i].output + 1 < next + 1
      <4> TAKE i \in DOMAIN ms'
      <4>1. CASE i = Len(ms) + 1
        BY <3>3, <3>5, <4>1
      <4>2. CASE i # Len(ms) + 1
        <5>1. i \in DOMAIN ms
          BY <3>5, <4>2
        <5> QED
          BY <1>2, <3>2, <3>5, <5>1
      <4> QED
        BY <4>1, <4>2
    <3> QED
      BY <1>1, <3>5, <3>6 DEF ReadInv
  <2> QED
    BY <2>1, <2>2
<1>6. BidsInv' /\ WithdrawalsInv' /\ SlotsInv' /\ BmmMatched'
  BY <1>1 DEF BidsInv, WithdrawalsInv, SlotsInv, BmmMatched
<1> QED
  BY <1>4, <1>5, <1>6 DEF IInv

\* A block that is refused has no messages.
LEMMA InvalidStep ==
  ASSUME IInv, Invalid, UNCHANGED block
  PROVE  IInv'
<1>1. pc' = "invalid" /\ ms' = <<>> /\ block' = block
  BY DEF Invalid
<1>2. LoopsInv'
  BY <1>1 DEF IInv, LoopsInv
<1>3. ReadInv'
  BY <1>1, EmptyList DEF ReadInv
<1>4. BidsInv' /\ WithdrawalsInv' /\ SlotsInv' /\ BmmMatched'
  BY <1>1 DEF BidsInv, WithdrawalsInv, SlotsInv, BmmMatched
<1> QED
  BY <1>2, <1>3, <1>4 DEF IInv

LEMMA CheckCoinbaseStep ==
  ASSUME IInv, checkCoinbase
  PROVE  IInv'
<1>1. CASE checkBlockValidity(ms) /\ pc' = "transactions" /\ next' = 1 /\ UNCHANGED ms
  <2>1. pc = "coinbase" /\ block' = block
    BY DEF checkCoinbase
  <2>2. LoopsInv'
    <3>1. block \in RawBlocks
      BY DEF IInv, LoopsInv
    <3>2. Len(block.txs) \in Nat
      BY <3>1, BlockTypes
    <3> QED
      BY <1>1, <2>1, <3>1, <3>2 DEF LoopsInv
  <2>3. ReadInv'
    BY <1>1, <2>1 DEF IInv, ReadInv
  <2>4. BidsInv' /\ WithdrawalsInv'
    <3>1. block \in RawBlocks
      BY DEF IInv, LoopsInv
    <3>2. DOMAIN block.txs = 1..Len(block.txs) /\ Len(block.txs) \in Nat
      BY <3>1, BlockTypes
    <3>3. \A t \in DOMAIN block.txs : ~(t < 1)
      BY <3>2
    <3> QED
      BY <1>1, <2>1, <3>3 DEF BidsInv, WithdrawalsInv
  <2>5. SlotsInv' /\ BmmMatched'
    <3>1. ~SameSlotTwice(ms, "M3")
      BY <1>1 DEF checkBlockValidity
    <3>2. ms' = ms
      BY <1>1
    <3>3. ~SameSlotTwice(ms', "M3")
      BY <3>1, <3>2
    <3> QED
      BY <1>1, <3>3 DEF SlotsInv, BmmMatched
  <2> QED
    BY <2>2, <2>3, <2>4, <2>5 DEF IInv
<1>2. CASE Invalid
  BY <1>2, InvalidStep DEF checkCoinbase
<1> QED
  BY <1>1, <1>2 DEF checkCoinbase
\* A transaction with fewer than two readings has no two different ones, one
\* with two or more has.
LEMMA ReadingsCounted ==
  ASSUME NEW tx, NEW result
  PROVE  LET R == Readings(tx, result)
         IN /\ Cardinality(R) \in Nat
            /\ Cardinality(R) < 2 <=> \A x, y \in R : x = y
<1> DEFINE R == Readings(tx, result)
<1>1. IsFiniteSet(R)
  <2> DEFINE A == {M5Message(tx)} \cup {M6Message(tx)} \cup {M8Message(tx)}
  <2>1. IsFiniteSet(A)
    BY FS_Singleton, FS_AddElement
  <2>2. R \in SUBSET A
    BY DEF Readings
  <2> HIDE DEF A, R
  <2> QED
    BY <2>1, <2>2, FS_Subset
<1> HIDE DEF R
<1>2. Cardinality(R) \in Nat
  BY <1>1, FS_CardinalityType
<1>3. ASSUME NEW x \in R, NEW y \in R, x # y
      PROVE  ~(Cardinality(R) < 2)
  <2> DEFINE B == {x} \cup {y}
  <2>1. Cardinality(B) = 2
    <3>1. IsFiniteSet({x}) /\ Cardinality({x}) = 1 /\ y \notin {x}
      BY <1>3, FS_Singleton
    <3>2. Cardinality({x} \cup {y}) = Cardinality({x}) + 1
      BY <3>1, FS_AddElement
    <3> QED
      BY <3>1, <3>2
  <2>2. B \in SUBSET R
    OBVIOUS
  <2> HIDE DEF B
  <2>3. Cardinality(B) <= Cardinality(R)
    BY <1>1, <2>2, FS_Subset
  <2> QED
    BY <1>2, <2>1, <2>3
<1>4. ASSUME \A x, y \in R : x = y
      PROVE  Cardinality(R) < 2
  <2>1. CASE R = {}
    BY <2>1, FS_EmptySet
  <2>2. CASE R # {}
    <3>1. PICK x : R = {x}
      BY <1>4, <2>2
    <3> QED
      BY <3>1, FS_Singleton
  <2> QED
    BY <2>1, <2>2
<1> QED
  BY <1>2, <1>3, <1>4 DEF R

\* A transaction adds its only reading, makes the program panic, or has the
\* block refused.
LEMMA ParseTransactionStep ==
  ASSUME IInv, parseTransaction
  PROVE  IInv'
<1> DEFINE tx == block.txs[next]
<1>1. /\ pc = "transactions" /\ next <= Len(block.txs) /\ block' = block
      /\ block \in RawBlocks /\ next \in 1..(Len(block.txs) + 1)
      /\ ms \in Seq(Entries(block)) /\ InBlockOrder(ms)
      /\ \A i \in DOMAIN ms : ms[i].transaction < next
  BY DEF parseTransaction, IInv, LoopsInv, ReadInv
<1>2. Len(block.txs) \in Nat /\ DOMAIN block.txs = 1..Len(block.txs) /\ next \in DOMAIN block.txs
  BY <1>1, BlockTypes
<1>3. PICK result \in parseM5(tx) :
        \/ /\ result = "panic"
           /\ pc' = "panicked"
           /\ UNCHANGED <<next, ms>>
        \/ /\ result # "panic"
           /\ Cardinality(Readings(tx, result)) < 2
           /\ Add(next, 0, IF Readings(tx, result) = {} THEN None
                           ELSE CHOOSE msg \in Readings(tx, result) : TRUE)
           /\ next' = next + 1
           /\ UNCHANGED pc
        \/ /\ result # "panic"
           /\ Cardinality(Readings(tx, result)) >= 2
           /\ Invalid
  BY DEF parseTransaction
<1>4. CASE pc' = "panicked" /\ UNCHANGED <<next, ms>>
  BY <1>1, <1>4 DEF IInv, LoopsInv, ReadInv, BidsInv, WithdrawalsInv, SlotsInv, BmmMatched
<1>5. CASE Invalid
  BY <1>1, <1>5, InvalidStep
<1> DEFINE R == Readings(tx, result)
           msg == IF R = {} THEN None ELSE CHOOSE msg \in R : TRUE
           e == [transaction |-> next, output |-> 0, msg |-> msg]
<1>6. CASE /\ Cardinality(R) < 2
           /\ Add(next, 0, msg)
           /\ next' = next + 1
           /\ UNCHANGED pc
  <2>1. \A x, y \in R : x = y
    BY <1>6, ReadingsCounted
  <2>2. R # {} => msg \in R /\ msg # None
    <3>1. R # {} => msg \in R
      OBVIOUS
    <3> HIDE DEF msg
    <3> QED
      BY <3>1, ReadingTypes
  <2>3. ms' = IF msg = None THEN ms ELSE Append(ms, e)
    BY <1>6 DEF Add
  <2>4. LoopsInv'
    BY <1>1, <1>2, <1>6 DEF LoopsInv
  <2>5. /\ ms' \in Seq(Entries(block)) /\ InBlockOrder(ms')
        /\ \A i \in DOMAIN ms' : ms'[i].transaction < next + 1
        /\ \A i \in DOMAIN ms : i \in DOMAIN ms' /\ ms'[i] = ms[i]
        /\ SameSlotTwice(ms', "M3") => SameSlotTwice(ms, "M3")
        /\ R # {} => \E i \in DOMAIN ms' : ms'[i].msg = msg
    <3>0. \A i \in DOMAIN ms : ms[i].transaction \in Nat
      <4> TAKE i \in DOMAIN ms
      <4>1. ms[i] \in Entries(block)
        BY <1>1, LenProperties, ElementOfSeq
      <4> QED
        BY <1>1, <4>1, EntryTypes
    <3>1. CASE R = {}
      <4>1. ms' = ms
        BY <2>3, <3>1
      <4> QED
        BY <1>1, <1>2, <3>0, <3>1, <4>1
    <3>2. CASE R # {}
      <4>1. e \in Entries(block)
        <5> DEFINE read(t, r) == {[transaction |-> t, output |-> 0, msg |-> m] :
                                    m \in Readings(block.txs[t], r)}
                   all(t) == UNION {read(t, r) : r \in parseM5(block.txs[t])}
        <5>a. e \in read(next, result)
          BY <2>2, <3>2
        <5>b. e \in all(next)
          BY <5>a
        <5>c. e \in UNION {all(t) : t \in DOMAIN block.txs}
          <6> HIDE DEF all, e
          <6> QED
            BY <1>2, <5>b
        <5>1. e \in TransactionEntries(block)
          BY <5>c DEF TransactionEntries
        <5> QED
          BY <5>1 DEF Entries
      <4>2. e.transaction = next /\ e.msg = msg
        OBVIOUS
      <4>3. ms' = Append(ms, e)
        BY <2>2, <2>3, <3>2
      <4>4. msg.type # "M3"
        <5> HIDE DEF msg
        <5> QED
          BY <2>2, <3>2, ReadingTypes
      <4> HIDE DEF e, msg
      <4>5. \A i \in DOMAIN ms : Earlier(ms[i], e)
        BY <1>1, <4>2 DEF Earlier
      <4>6. /\ ms' \in Seq(Entries(block))
            /\ InBlockOrder(ms')
            /\ DOMAIN ms' = 1..(Len(ms) + 1)
            /\ Len(ms) \in Nat /\ DOMAIN ms = 1..Len(ms)
            /\ ms'[Len(ms) + 1] = e
            /\ \A i \in DOMAIN ms : ms'[i] = ms[i]
        BY <1>1, <4>1, <4>3, <4>5, AppendInOrder
      <4>7. \A i \in DOMAIN ms' : i = Len(ms) + 1 \/ i \in DOMAIN ms
        BY <4>6
      <4>8. \A i \in DOMAIN ms' : ms'[i].transaction < next + 1
        BY <1>1, <1>2, <3>0, <4>2, <4>6, <4>7
      <4>9. \A i \in Of(ms', "M3") : i \in Of(ms, "M3") /\ ms'[i] = ms[i]
        BY <4>2, <4>4, <4>6, <4>7 DEF Of
      <4>10. SameSlotTwice(ms', "M3") => SameSlotTwice(ms, "M3")
        BY <4>9 DEF SameSlotTwice
      <4>11. Len(ms) + 1 \in DOMAIN ms' /\ \A i \in DOMAIN ms : i \in DOMAIN ms'
        BY <4>6
      <4> QED
        BY <4>2, <4>6, <4>8, <4>10, <4>11
    <3> QED
      BY <3>1, <3>2
  <2>6. ReadInv'
    BY <1>1, <1>6, <2>5 DEF ReadInv
  <2>7. BidsInv'
    <3> SUFFICES ASSUME NEW t \in DOMAIN block.txs, t < next + 1,
                        block.txs[t].out[1].kind = "m8"
                 PROVE  \E i \in DOMAIN ms' : ms'[i].msg = M8Message(block.txs[t])
      BY <1>1, <1>6 DEF BidsInv
    <3>1. CASE t < next
      <4>1. PICK i \in DOMAIN ms : ms[i].msg = M8Message(block.txs[t])
        BY <1>1, <3>1 DEF IInv, BidsInv
      <4> QED
        BY <2>5, <4>1
    <3>2. CASE ~(t < next)
      <4>1. t = next
        BY <1>2, <3>2
      <4>2. M8Message(tx) \in R
        BY <4>1 DEF Readings, parseM8
      <4>3. msg = M8Message(tx)
        <5> HIDE DEF msg, R
        <5> QED
          BY <2>1, <2>2, <4>2
      <4> HIDE DEF msg, R
      <4> QED
        BY <2>5, <4>1, <4>2, <4>3
    <3> QED
      BY <3>1, <3>2
  <2>9. WithdrawalsInv'
    <3> SUFFICES ASSUME NEW t \in DOMAIN block.txs, t < next + 1, parseM6(block.txs[t])
                 PROVE  \E i \in DOMAIN ms' : ms'[i].msg = M6Message(block.txs[t])
      BY <1>1, <1>6 DEF WithdrawalsInv
    <3>1. CASE t < next
      <4>1. PICK i \in DOMAIN ms : ms[i].msg = M6Message(block.txs[t])
        BY <1>1, <3>1 DEF IInv, WithdrawalsInv
      <4> QED
        BY <2>5, <4>1
    <3>2. CASE ~(t < next)
      <4>1. t = next
        BY <1>2, <3>2
      <4>2. M6Message(tx) \in R
        BY <4>1 DEF Readings
      <4>3. msg = M6Message(tx)
        <5> HIDE DEF msg, R
        <5> QED
          BY <2>1, <2>2, <4>2
      <4> HIDE DEF msg, R
      <4> QED
        BY <2>5, <4>1, <4>2, <4>3
    <3> QED
      BY <3>1, <3>2
  <2>8. SlotsInv' /\ BmmMatched'
    <3>1. ~SameSlotTwice(ms, "M3")
      BY <1>1 DEF IInv, SlotsInv
    <3>2. pc' = "transactions"
      BY <1>1, <1>6
    <3> QED
      BY <2>5, <3>1, <3>2 DEF SlotsInv, BmmMatched
  <2> QED
    BY <2>4, <2>6, <2>7, <2>8, <2>9 DEF IInv
<1> QED
  BY <1>3, <1>4, <1>5, <1>6
\* A body of one byte and more is its first byte and the others.
LEMMA FirstAndOthers ==
  ASSUME NEW R, NEW body \in Seq(R), Len(body) >= 1
  PROVE  body = <<body[1]>> \o SubSeq(body, 2, Len(body))
<1>1. Len(body) \in Nat /\ 1 \in 1..Len(body) /\ Len(body) \in 1..Len(body)
  BY LenProperties
<1>2. SubSeq(body, 1, Len(body)) = <<body[1]>> \o SubSeq(body, 1 + 1, Len(body))
  BY <1>1, SubSeqRecursiveFirst
<1> QED
  BY <1>2, SubSeqFull

\* An M7 that was read is an output of the coinbase with its slot and its hash.
LEMMA M7FromCoinbase ==
  ASSUME NEW b \in RawBlocks, NEW e \in Entries(b), e.msg.type = "M7"
  PROVE  \E c \in DOMAIN b.coinbase :
           /\ b.coinbase[c].ret
           /\ b.coinbase[c].tag = "M7"
           /\ b.coinbase[c].body = <<e.msg.slot>> \o e.msg.hash
<1> DEFINE c == e.output + 1
           o == b.coinbase[c]
<1>1. /\ c \in DOMAIN b.coinbase
      /\ o.ret /\ o.tag \in Tags
      /\ e.msg = parseCoinbaseBody(o.tag, o.body)
      /\ e.msg # None
      /\ e.msg.type = o.tag
  BY EntryTypes
<1>2. o.tag = "M7" /\ o.body \in Seq(Range(o.body))
  BY <1>1, BlockTypes
<1> HIDE DEF o
<1>3. /\ Len(o.body) = 1 + HashLen
      /\ e.msg.slot = o.body[1]
      /\ e.msg.hash = SubSeq(o.body, 2, Len(o.body))
  BY <1>1, <1>2, BodyTypes
<1>4. Len(o.body) >= 1
  BY <1>3, RawBlocksAssumption
<1>5. o.body = <<o.body[1]>> \o SubSeq(o.body, 2, Len(o.body))
  BY <1>2, <1>4, FirstAndOthers
<1> QED
  BY <1>1, <1>2, <1>3, <1>5 DEF o

\* A block whose bids all have their M7s loses the expired ones; any other is
\* refused.
LEMMA CheckM8sStep ==
  ASSUME IInv, checkM8s
  PROVE  IInv'
<1>1. /\ pc = "transactions" /\ next > Len(block.txs) /\ block' = block
      /\ block \in RawBlocks
      /\ ms \in Seq(Entries(block)) /\ InBlockOrder(ms)
  BY DEF checkM8s, IInv, LoopsInv, ReadInv
<1>2. CASE Invalid
  BY <1>1, <1>2, InvalidStep
<1>3. CASE /\ \A i \in Of(ms, "M8") : checkM8(ms, ms[i].msg)
           /\ pc' = "done"
           /\ ms' = Unexpired(ms, block.prev)
  <2>1. /\ ms' \in Seq(Entries(block))
        /\ \A i \in DOMAIN ms' : ms'[i].msg.type = "M8" => ms'[i].msg.prev = block.prev
        /\ \E p \in [DOMAIN ms' -> DOMAIN ms] :
             /\ \A i, j \in DOMAIN ms' : i < j => p[i] < p[j]
             /\ \A i \in DOMAIN ms' : ms'[i] = ms[p[i]]
        /\ \A k \in DOMAIN ms : ms[k].msg.type # "M8" => \E i \in DOMAIN ms' : ms'[i] = ms[k]
    <3> DEFINE left == Unexpired(ms, block.prev)
    <3>1. /\ left \in Seq(Entries(block))
          /\ \A i \in DOMAIN left : left[i].msg.type = "M8" => left[i].msg.prev = block.prev
          /\ \E p \in [DOMAIN left -> DOMAIN ms] :
               /\ \A i, j \in DOMAIN left : i < j => p[i] < p[j]
               /\ \A i \in DOMAIN left : left[i] = ms[p[i]]
          /\ \A k \in DOMAIN ms :
               ms[k].msg.type # "M8" => \E i \in DOMAIN left : left[i] = ms[k]
      BY <1>1, UnexpiredSelects
    <3>2. ms' = left
      BY <1>3
    <3> HIDE DEF left
    <3> QED
      BY <3>1, <3>2
  <2>2. PICK p \in [DOMAIN ms' -> DOMAIN ms] :
          /\ \A i, j \in DOMAIN ms' : i < j => p[i] < p[j]
          /\ \A i \in DOMAIN ms' : ms'[i] = ms[p[i]]
    BY <2>1
  <2>3. DOMAIN ms \subseteq Nat /\ DOMAIN ms' \subseteq Nat
    BY <1>1, <2>1, LenProperties
  <2>4. LoopsInv'
    BY <1>1, <1>3 DEF LoopsInv
  <2>5. ReadInv'
    <3>1. InBlockOrder(ms')
      <4> SUFFICES ASSUME NEW i \in DOMAIN ms', NEW j \in DOMAIN ms', i < j
                   PROVE  Earlier(ms'[i], ms'[j])
        BY DEF InBlockOrder
      <4>1. p[i] \in DOMAIN ms /\ p[j] \in DOMAIN ms /\ p[i] < p[j]
        BY <2>2
      <4>2. Earlier(ms[p[i]], ms[p[j]])
        BY <1>1, <4>1 DEF InBlockOrder
      <4> QED
        BY <2>2, <4>2
    <3> QED
      BY <1>1, <1>3, <2>1, <3>1 DEF ReadInv
  <2>6. SlotsInv'
    <3> SUFFICES ASSUME NEW i \in Of(ms', "M3"), NEW j \in Of(ms', "M3"),
                        i # j, ms'[i].msg.slot = ms'[j].msg.slot
                 PROVE  FALSE
      BY <1>3 DEF SlotsInv, SameSlotTwice
    <3>1. i \in DOMAIN ms' /\ j \in DOMAIN ms'
      BY DEF Of
    <3>2. p[i] # p[j]
      <4>1. i < j \/ j < i
        BY <2>3, <3>1
      <4>2. p[i] \in Nat /\ p[j] \in Nat
        BY <2>3, <3>1
      <4> QED
        BY <2>2, <3>1, <4>1, <4>2
    <3>3. p[i] \in Of(ms, "M3") /\ p[j] \in Of(ms, "M3")
      BY <2>2, <3>1 DEF Of
    <3>4. ms[p[i]].msg.slot = ms[p[j]].msg.slot
      BY <2>2, <3>1
    <3> QED
      BY <1>1, <3>2, <3>3, <3>4 DEF IInv, SlotsInv, SameSlotTwice
  <2>7. BmmMatched'
    <3>1. ASSUME NEW t \in DOMAIN block.txs, block.txs[t].out[1].kind = "m8"
          PROVE  \E c \in DOMAIN block.coinbase :
                   /\ block.coinbase[c].ret
                   /\ block.coinbase[c].tag = "M7"
                   /\ block.coinbase[c].body =
                        <<block.txs[t].out[1].slot>> \o block.txs[t].out[1].hash
      <4> DEFINE m8 == M8Message(block.txs[t])
      <4>1. t < next
        <5>1. Len(block.txs) \in Nat /\ DOMAIN block.txs = 1..Len(block.txs)
          BY <1>1, BlockTypes
        <5>2. next \in Int
          BY <1>1, <5>1 DEF IInv, LoopsInv
        <5> QED
          BY <1>1, <5>1, <5>2
      <4>2. PICK i \in DOMAIN ms : ms[i].msg = m8
        BY <1>1, <3>1, <4>1 DEF IInv, BidsInv
      <4>3. /\ m8.type = "M8"
            /\ m8.slot = block.txs[t].out[1].slot
            /\ m8.hash = block.txs[t].out[1].hash
        BY DEF M8Message
      <4> HIDE DEF m8
      <4>4. i \in Of(ms, "M8")
        BY <4>2, <4>3 DEF Of
      <4>5. Corresponding(ms, m8) # {}
        BY <1>3, <4>2, <4>4 DEF checkM8
      <4>6. PICK j \in DOMAIN ms : /\ ms[j].msg.type = "M7"
                                   /\ ms[j].msg.slot = m8.slot
                                   /\ ms[j].msg.hash = m8.hash
        BY <4>5 DEF Corresponding, Of
      <4>7. ms[j] \in Entries(block)
        BY <1>1, LenProperties, ElementOfSeq
      <4>8. \E c \in DOMAIN block.coinbase :
              /\ block.coinbase[c].ret
              /\ block.coinbase[c].tag = "M7"
              /\ block.coinbase[c].body = <<ms[j].msg.slot>> \o ms[j].msg.hash
        BY <1>1, <4>6, <4>7, M7FromCoinbase
      <4> QED
        BY <4>3, <4>6, <4>8
    <3> QED
      BY <1>1, <2>1, <3>1 DEF BmmMatched
  <2>8. WithdrawalsInv'
    <3> SUFFICES ASSUME NEW t \in DOMAIN block.txs, parseM6(block.txs[t])
                 PROVE  \E i \in DOMAIN ms' : ms'[i].msg = M6Message(block.txs[t])
      BY <1>1, <1>3 DEF WithdrawalsInv
    <3>1. t < next
      <4>1. Len(block.txs) \in Nat /\ DOMAIN block.txs = 1..Len(block.txs)
        BY <1>1, BlockTypes
      <4>2. next \in Int
        BY <1>1, <4>1 DEF IInv, LoopsInv
      <4> QED
        BY <1>1, <4>1, <4>2
    <3>2. PICK k \in DOMAIN ms : ms[k].msg = M6Message(block.txs[t])
      BY <1>1, <3>1 DEF IInv, WithdrawalsInv
    <3>3. ms[k].msg.type # "M8"
      BY <3>2 DEF M6Message
    <3>4. PICK i \in DOMAIN ms' : ms'[i] = ms[k]
      BY <2>1, <3>3
    <3> QED
      BY <3>2, <3>4
  <2> QED
    BY <2>4, <2>5, <2>6, <2>7, <2>8, <1>3 DEF IInv, BidsInv
<1> QED
  BY <1>2, <1>3 DEF checkM8s

LEMMA NextIInv ==
  ASSUME IInv, [Next]_vars
  PROVE  IInv'
<1>1. CASE parseCoinbase
  BY <1>1, ParseCoinbaseStep
<1>2. CASE checkCoinbase
  BY <1>2, CheckCoinbaseStep
<1>3. CASE parseTransaction
  BY <1>3, ParseTransactionStep
<1>4. CASE checkM8s
  BY <1>4, CheckM8sStep
<1>5. CASE UNCHANGED vars
  BY <1>5 DEF vars, IInv, LoopsInv, ReadInv, BidsInv, WithdrawalsInv, SlotsInv, BmmMatched
<1> QED
  BY <1>1, <1>2, <1>3, <1>4, <1>5 DEF Next

\* The invariant holds at every step of reading a block.
LEMMA Invariant == Spec => []IInv
<1>1. Init => IInv
  BY InitIInv
<1>2. IInv /\ [Next]_vars => IInv'
  BY NextIInv
<1> QED
  BY <1>1, <1>2, PTL DEF Spec

-----------------------------------------------------------------------------
\* The loop indexes stay within the block, a block found invalid has no
\* messages, and every message is of one of the eight kinds (enforcer.go:635-666).
THEOREM TypeOKHolds == Spec => []TypeOK
<1>1. IInv => TypeOK
  <2> SUFFICES ASSUME IInv
               PROVE  \A i \in DOMAIN ms :
                        ms[i].msg.type \in {"M1", "M2", "M3", "M4", "M5", "M6", "M7", "M8"}
    BY DEF IInv, LoopsInv, TypeOK
  <2> TAKE i \in DOMAIN ms
  <2>1. ms[i] \in Entries(block) /\ block \in RawBlocks
    BY LenProperties, ElementOfSeq DEF IInv, LoopsInv, ReadInv
  <2> QED
    BY <2>1, EntryTypes DEF Tags
<1> QED
  BY <1>1, Invariant, PTL

\* Of any block, the messages D2 gets are in the order of its transactions and
\* outputs, and no two M3s name one slot (enforcer.go:202-294, 611-666).
THEOREM SuitD2Holds == Spec => []SuitD2
<1>1. IInv => SuitD2
  <2> SUFFICES ASSUME IInv, pc = "done"
               PROVE  /\ InBlockOrder(ms)
                      /\ ~SameSlotTwice(ms, "M3")
    BY DEF SuitD2, InBlockOrder, Earlier, SameSlotTwice, Of
  <2> QED
    BY DEF IInv, ReadInv, SlotsInv
<1> QED
  BY <1>1, Invariant, PTL

\* In any block that is read to its end each bid has its M7, and the bids that
\* are left bid on the parent of the block (enforcer.go:593-633).
THEOREM BmmMatchedHolds == Spec => []BmmMatched
<1>1. IInv => BmmMatched
  BY DEF IInv
<1> QED
  BY <1>1, Invariant, PTL

\* The ID of a withdrawal fixes what it takes from the treasury, for transactions
\* of any number of outputs and any amounts (enforcer.go:423-510).
THEOREM PayoutFixedByIDHolds == Spec => []PayoutFixedByID
<1>1. IInv => PayoutFixedByID
  <2> SUFFICES ASSUME IInv, NEW i \in DOMAIN ms, ms[i].msg.type = "M6"
               PROVE  LET tx == block.txs[ms[i].transaction]
                          id == ms[i].msg.id
                      IN tx.in[1].out.value - tx.out[1].value
                           = id.fee + Sum(Values(id.payouts))
    BY DEF PayoutFixedByID
  <2> DEFINE t == ms[i].transaction
             tx == block.txs[t]
  <2>1. ms[i] \in Entries(block) /\ block \in RawBlocks
    BY LenProperties, ElementOfSeq DEF IInv, LoopsInv, ReadInv
  <2>2. t \in DOMAIN block.txs /\ \E result \in parseM5(tx) : ms[i].msg \in Readings(tx, result)
    <3>1. "M6" \notin Tags
      BY DEF Tags
    <3> QED
      BY <2>1, <3>1, EntryTypes
  <2>3. ms[i].msg = M6Message(tx)
    BY <2>2, ReadingTypes
  <2>4. ms[i].msg.id.fee = fee(tx) /\ ms[i].msg.id.payouts = Tail(tx.out)
    BY <2>3 DEF M6Message, computeM6ID
  <2> QED
    BY <2>1, <2>2, <2>4, FeeAndPayouts
<1> QED
  BY <1>1, Invariant, PTL

\* A transaction that can be read both as a deposit and as a withdrawal leaves
\* the treasury at the same amount.
LEMMA BothReadings ==
  ASSUME NEW b \in RawBlocks, NEW t \in DOMAIN b.txs,
         parseM6(b.txs[t]), "ok" \in parseM5(b.txs[t])
  PROVE  LET tx == b.txs[t]
         IN \A i \in Treasuries(tx.out) : \A j \in OldCtip(tx, i) :
              tx.out[i].value = tx.in[j].out.value
<1> DEFINE tx == b.txs[t]
<1>0. /\ Len(tx.in) = 1 /\ Treasuries(tx.out) = {1}
      /\ tx.in[1].out.value >= tx.out[1].value
  BY DEF parseM6
<1>1. /\ 1 \in DOMAIN tx.in /\ 1 \in DOMAIN tx.out /\ DOMAIN tx.in = 1..1
      /\ tx.in[1].out.value \in Nat /\ tx.out[1].value \in Nat
  <2>1. tx.in \in Seq(Range(tx.in))
    BY BlockTypes
  <2>2. DOMAIN tx.in = 1..1
    BY <1>0, <2>1, LenProperties
  <2> QED
    BY <2>2, BlockTypes, FeeAndPayouts
<1>2. M5Output(tx, 1) = "ok"
  <2>1. \A i \in Treasuries(tx.out) : M5Output(tx, i) = "ok"
    BY DEF parseM5
  <2> QED
    BY <1>0, <2>1
<1> SUFFICES ASSUME NEW j \in OldCtip(tx, 1)
             PROVE  tx.out[1].value = tx.in[j].out.value
  BY <1>0
<1>3. j = 1
  BY <1>1 DEF OldCtip, Treasuries, Spent
<1>4. tx.out[1].value >= tx.in[j].out.value
  BY <1>2 DEF M5Output
<1> QED
  BY <1>0, <1>1, <1>3, <1>4

\* Whatever its inputs and outputs, a transaction that is refused as ambiguous
\* and is no bid moves nothing (enforcer.go:540-569).
THEOREM AmbiguousMovesNothingHolds == Spec => AmbiguousMovesNothing
<1> DEFINE A == pc = "transactions" /\ next <= Len(block.txs) /\ pc' = "invalid" =>
                  LET tx == block.txs[next]
                  IN tx.out[1].kind # "m8" =>
                       \A i \in Treasuries(tx.out) : \A j \in OldCtip(tx, i) :
                         tx.out[i].value = tx.in[j].out.value
<1>1. IInv /\ [Next]_vars => [A]_vars
  <2> SUFFICES ASSUME IInv, Next,
                      pc = "transactions", next <= Len(block.txs), pc' = "invalid",
                      block.txs[next].out[1].kind # "m8"
               PROVE  LET tx == block.txs[next]
                      IN \A i \in Treasuries(tx.out) : \A j \in OldCtip(tx, i) :
                           tx.out[i].value = tx.in[j].out.value
    OBVIOUS
  <2> DEFINE tx == block.txs[next]
  <2>1. /\ block \in RawBlocks /\ next \in Nat /\ next \in DOMAIN block.txs
        /\ Len(block.txs) \in Nat
    BY BlockTypes DEF IInv, LoopsInv
  <2>2. parseTransaction
    BY <2>1 DEF Next, parseCoinbase, checkCoinbase, checkM8s
  <2>3. PICK result \in parseM5(tx) : ~(Cardinality(Readings(tx, result)) < 2)
    <3>1. PICK result \in parseM5(tx) :
            \/ pc' = "panicked" \/ pc' = pc
            \/ Cardinality(Readings(tx, result)) >= 2
      BY <2>2 DEF parseTransaction
    <3>2. Cardinality(Readings(tx, result)) >= 2
      BY <3>1
    <3> QED
      BY <3>2, ReadingsCounted
  <2>4. PICK x \in Readings(tx, result) : \E y \in Readings(tx, result) : x # y
    BY <2>3, ReadingsCounted
  <2>5. parseM6(tx) /\ result = "ok"
    BY <2>4 DEF Readings, parseM8
  <2> QED
    BY <2>1, <2>5, BothReadings
<1> QED
  BY <1>1, Invariant, PTL DEF Spec, AmbiguousMovesNothing
=============================================================================
