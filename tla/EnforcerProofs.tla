--------------------------- MODULE EnforcerProofs ---------------------------
(***************************************************************************)
(* Theorems about the driver of the enforcer (module Enforcer): what is    *)
(* shown of the reading of a block (module MessagesProofs) and of the      *)
(* withdrawal list (module D2Proofs) holds of the two together, for every  *)
(* chain of blocks.                                                        *)
(***************************************************************************)
EXTENDS Enforcer, SequenceTheorems, TLAPS

GetP == INSTANCE MessagesProofs WITH HashLen <- 1

\* Module D2 with all the calls it allows.
Calls == {call \in Seq(D!Message) : D!InVoutOrder(call)}

DP == INSTANCE D2Proofs WITH
        Vouts <- Nat, VoteValues <- Nat, Blocks <- Calls

-----------------------------------------------------------------------------
(* Enforcer and this module instantiate Messages and D2 each in their own  *)
(* name; what the steps of Get and D do, those of GetP and DP do.          *)

LEMMA ReadInitSame == Get!Init => GetP!Init
BY DEF Get!Init, GetP!Init

LEMMA ListInitSame == D!Init => DP!Init
BY DEF D!Init, DP!Init

LEMMA HandleMsgsSame ==
  ASSUME NEW ms0
  PROVE  D!HandleMsgs(ms0) => DP!HandleMsgs(ms0)
BY DEF D!HandleMsgs, DP!HandleMsgs, D!checkVotedM6Withdrawn, DP!checkVotedM6Withdrawn,
   D!canBeWithdrawn, DP!canBeWithdrawn

LEMMA handleM3Same == D!handleM3 => DP!handleM3
BY DEF D!handleM3, DP!handleM3, D!Current, DP!Current, D!Bundles, DP!Bundles,
   D!IndexesOf, DP!IndexesOf, D!SetBundles, DP!SetBundles, D!SortChrono,
   DP!SortChrono, D!NextMessage, DP!NextMessage, D!Reject, DP!Reject, D!Before,
   DP!Before, D!Precedes, DP!Precedes, D!Cardinality, DP!Cardinality

LEMMA SumSame ==
  ASSUME NEW a
  PROVE  Get!Sum(a) = GetP!Sum(a)
BY DEF Get!Sum, GetP!Sum, Get!FoldFunction, GetP!FoldFunction, Get!FoldFunctionOnSet,
   GetP!FoldFunctionOnSet, Get!MapThenFoldSet, GetP!MapThenFoldSet

LEMMA parseM5Same ==
  ASSUME NEW tx
  PROVE  Get!parseM5(tx) = GetP!parseM5(tx)
BY DEF Get!parseM5, GetP!parseM5, Get!parseTxOutputFails, GetP!parseTxOutputFails,
   Get!parseTxInputFails, GetP!parseTxInputFails, Get!Treasuries, GetP!Treasuries,
   Get!M5Output, GetP!M5Output, Get!Repeats, GetP!Repeats, Get!Spent, GetP!Spent,
   Get!OldCtip, GetP!OldCtip, Get!IsTreasury, GetP!IsTreasury

LEMMA feeSame ==
  ASSUME NEW tx
  PROVE  Get!fee(tx) = GetP!fee(tx)
BY SumSame DEF Get!fee, GetP!fee, Get!Values, GetP!Values

LEMMA parseM6Same ==
  ASSUME NEW tx
  PROVE  Get!parseM6(tx) = GetP!parseM6(tx)
BY feeSame DEF Get!parseM6, GetP!parseM6, Get!parseTxOutputFails,
   GetP!parseTxOutputFails, Get!Repeats, GetP!Repeats, Get!Treasuries,
   GetP!Treasuries, Get!IsTreasury, GetP!IsTreasury

LEMMA TransactionMessagesSame ==
  ASSUME NEW tx
  PROVE  Get!M5Message(tx) = GetP!M5Message(tx) /\ Get!M6Message(tx) = GetP!M6Message(tx)
BY feeSame DEF Get!M5Message, GetP!M5Message, Get!Deposits, GetP!Deposits,
   Get!M6Message, GetP!M6Message, Get!computeM6ID, GetP!computeM6ID, Get!Treasuries,
   GetP!Treasuries, Get!IsTreasury, GetP!IsTreasury, Get!OldCtip, GetP!OldCtip,
   Get!Spent, GetP!Spent

LEMMA ReadingsSame ==
  ASSUME NEW tx, NEW result
  PROVE  Get!Readings(tx, result) = GetP!Readings(tx, result)
BY parseM6Same, TransactionMessagesSame DEF Get!Readings, GetP!Readings, Get!parseM8,
   GetP!parseM8, Get!M8Message, GetP!M8Message

LEMMA CardinalitySame ==
  ASSUME NEW S
  PROVE  Get!Cardinality(S) = GetP!Cardinality(S)
BY DEF Get!Cardinality, GetP!Cardinality

LEMMA AddSame ==
  ASSUME NEW t, NEW o, NEW msg
  PROVE  Get!Add(t, o, msg) <=> GetP!Add(t, o, msg)
BY DEF Get!Add, GetP!Add, Get!None, GetP!None

LEMMA parseTransactionSame == Get!parseTransaction => GetP!parseTransaction
<1> SUFFICES ASSUME Get!parseTransaction PROVE GetP!parseTransaction
  OBVIOUS
<1> DEFINE tx == block.txs[next]
           R(result) == GetP!Readings(tx, result)
<1>1. PICK result \in GetP!parseM5(tx) :
        \/ /\ result = "panic"
           /\ pc' = "panicked"
           /\ UNCHANGED <<next, ms>>
        \/ /\ result # "panic"
           /\ GetP!Cardinality(R(result)) < 2
           /\ GetP!Add(next, 0, IF R(result) = {} THEN GetP!None
                           ELSE CHOOSE msg \in R(result) : TRUE)
           /\ next' = next + 1
           /\ UNCHANGED pc
        \/ /\ result # "panic"
           /\ GetP!Cardinality(R(result)) >= 2
           /\ GetP!Invalid
  <2>1. Get!None = GetP!None /\ (Get!Invalid => GetP!Invalid)
    BY DEF Get!None, GetP!None, Get!Invalid, GetP!Invalid
  <2>2. PICK result \in Get!parseM5(tx) :
        \/ /\ result = "panic"
           /\ pc' = "panicked"
           /\ UNCHANGED <<next, ms>>
        \/ /\ result # "panic"
           /\ Get!Cardinality(Get!Readings(tx, result)) < 2
           /\ Get!Add(next, 0, IF Get!Readings(tx, result) = {} THEN Get!None
                           ELSE CHOOSE msg \in Get!Readings(tx, result) : TRUE)
           /\ next' = next + 1
           /\ UNCHANGED pc
        \/ /\ result # "panic"
           /\ Get!Cardinality(Get!Readings(tx, result)) >= 2
           /\ Get!Invalid
    BY DEF Get!parseTransaction
  <2>3. Get!Readings(tx, result) = R(result) /\ result \in GetP!parseM5(tx)
    BY parseM5Same, ReadingsSame
  <2> HIDE DEF tx, R
  <2> QED
    BY <2>1, <2>2, <2>3, CardinalitySame, AddSame
<1>2. pc = "transactions" /\ next <= Len(block.txs) /\ UNCHANGED block
  BY DEF Get!parseTransaction
<1> QED
  BY <1>1, <1>2 DEF GetP!parseTransaction

LEMMA parseCoinbaseSame == Get!parseCoinbase => GetP!parseCoinbase
BY AddSame DEF Get!parseCoinbase, GetP!parseCoinbase, Get!None, GetP!None,
   Get!parseCoinbaseBody, GetP!parseCoinbaseBody, Get!parseM1, GetP!parseM1,
   Get!parseM4, GetP!parseM4, Get!SlotHash, GetP!SlotHash, Get!littleEndian16,
   GetP!littleEndian16

LEMMA checkBlockValiditySame ==
  ASSUME NEW list
  PROVE  Get!checkBlockValidity(list) <=> GetP!checkBlockValidity(list)
BY DEF Get!checkBlockValidity, GetP!checkBlockValidity, Get!SameSlotTwice,
   GetP!SameSlotTwice, Get!Of, GetP!Of, Get!Cardinality, GetP!Cardinality

LEMMA checkCoinbaseSame == Get!checkCoinbase => GetP!checkCoinbase
BY checkBlockValiditySame DEF Get!checkCoinbase, GetP!checkCoinbase, Get!Invalid,
   GetP!Invalid

LEMMA checkM8sSame == Get!checkM8s => GetP!checkM8s
BY DEF Get!checkM8s, GetP!checkM8s, Get!Invalid, GetP!Invalid, Get!SameSlotTwice,
   GetP!SameSlotTwice, Get!Of, GetP!Of, Get!checkM8, GetP!checkM8, Get!Corresponding,
   GetP!Corresponding, Get!Unexpired, GetP!Unexpired, Get!Expired, GetP!Expired

LEMMA ReadNextSame == Get!Next => GetP!Next
BY parseCoinbaseSame, checkCoinbaseSame, checkM8sSame, parseTransactionSame DEF
   Get!Next, GetP!Next

LEMMA handleM4RepeatSame == D!handleM4Repeat => DP!handleM4Repeat
BY DEF D!handleM4Repeat, DP!handleM4Repeat, D!CurrentM4, DP!CurrentM4, D!Current,
   DP!Current

LEMMA PositionSame ==
  ASSUME NEW s
  PROVE  D!Position(s) = DP!Position(s)
BY DEF D!Position, DP!Position, D!Cardinality, DP!Cardinality

LEMMA GoodVoteSame ==
  ASSUME NEW v, NEW i
  PROVE  D!GoodVote(v, i) <=> DP!GoodVote(v, i)
BY PositionSame DEF D!GoodVote, DP!GoodVote, D!Alarm, DP!Alarm, D!Abstain, DP!Abstain

LEMMA AfterVoteSame ==
  ASSUME NEW v, NEW w, NEW bs
  PROVE  D!AfterVote(v, w, bs) = DP!AfterVote(v, w, bs)
BY DEF D!AfterVote, DP!AfterVote, D!Alarm, DP!Alarm, D!Abstain, DP!Abstain,
   D!downvoteAll, DP!downvoteAll, D!upvote, DP!upvote, D!Upvoted, DP!Upvoted,
   D!Downvoted, DP!Downvoted

LEMMA VotesSame ==
  ASSUME NEW v
  PROVE  D!Votes(v) <=> DP!Votes(v)
<1> DEFINE F(s) == IF D!Position(s) \in DOMAIN v.V /\ \A i \in 1..D!Position(s) : D!GoodVote(v, i)
                   THEN D!AfterVote(v, v.V[D!Position(s)], m[s])
                   ELSE m[s]
           G(s) == IF DP!Position(s) \in DOMAIN v.V /\ \A i \in 1..DP!Position(s) : DP!GoodVote(v, i)
                   THEN DP!AfterVote(v, v.V[DP!Position(s)], m[s])
                   ELSE m[s]
<1>1. ASSUME NEW s
      PROVE  F(s) = G(s)
  <2>1. D!Position(s) = DP!Position(s)
    BY PositionSame
  <2>2. \A i : D!GoodVote(v, i) <=> DP!GoodVote(v, i)
    BY GoodVoteSame
  <2>3. D!AfterVote(v, v.V[DP!Position(s)], m[s]) = DP!AfterVote(v, v.V[DP!Position(s)], m[s])
    BY AfterVoteSame
  <2> QED
    BY <2>1, <2>2, <2>3
<1>2. [s \in DOMAIN m |-> F(s)] = [s \in DOMAIN m |-> G(s)]
  <2> HIDE DEF F, G
  <2> QED
    BY <1>1
<1> QED
  BY <1>2 DEF D!Votes, DP!Votes

LEMMA handleM4VotesSame == D!handleM4Votes => DP!handleM4Votes
BY GoodVoteSame, VotesSame DEF D!handleM4Votes, DP!handleM4Votes, D!CurrentM4,
   DP!CurrentM4, D!Current, DP!Current, D!NextMessage, DP!NextMessage, D!Reject,
   DP!Reject

LEMMA handleM4LeadingSame == D!handleM4Leading => DP!handleM4Leading
BY DEF D!handleM4Leading, DP!handleM4Leading, D!CurrentM4, DP!CurrentM4, D!Current,
   DP!Current, D!By50, DP!By50, D!Leading, DP!Leading, D!upvote, DP!upvote, D!Upvoted,
   DP!Upvoted, D!Downvoted, DP!Downvoted, D!NextMessage, DP!NextMessage

LEMMA handleM4UnknownSame == D!handleM4Unknown => DP!handleM4Unknown
BY DEF D!handleM4Unknown, DP!handleM4Unknown, D!CurrentM4, DP!CurrentM4, D!Current,
   DP!Current, D!NextMessage, DP!NextMessage

LEMMA handleM6Same == D!handleM6 => DP!handleM6
BY DEF D!handleM6, DP!handleM6, D!Current, DP!Current, D!Bundles, DP!Bundles,
   D!IndexesOf, DP!IndexesOf, D!canBeWithdrawn, DP!canBeWithdrawn, D!SetBundles,
   DP!SetBundles, D!SortChrono, DP!SortChrono, D!Before, DP!Before, D!Precedes,
   DP!Precedes, D!Cardinality, DP!Cardinality, D!NextMessage, DP!NextMessage,
   D!Reject, DP!Reject

LEMMA handleOtherSame == D!handleOther => DP!handleOther
BY DEF D!handleOther, DP!handleOther, D!Current, DP!Current, D!NextMessage,
   DP!NextMessage

LEMMA delExpiredSame == D!delExpired => DP!delExpired
BY DEF D!delExpired, DP!delExpired, D!Fresh, DP!Fresh, D!SortChrono, DP!SortChrono,
   D!Before, DP!Before, D!Precedes, DP!Precedes, D!Cardinality, DP!Cardinality

LEMMA HandlingSame == D!Handling => DP!Handling
BY handleM3Same, handleM4RepeatSame, handleM4VotesSame, handleM4LeadingSame,
   handleM4UnknownSame, handleM6Same, handleOtherSame, delExpiredSame DEF D!Handling,
   DP!Handling

LEMMA ListPropertiesSame == (D!AtRest <=> DP!AtRest) /\ (D!Chronological <=> DP!Chronological) /\ (D!UniqueIDs <=> DP!UniqueIDs)
BY DEF D!AtRest, DP!AtRest, D!Chronological, DP!Chronological, D!UniqueIDs, DP!UniqueIDs

LEMMA InVoutOrderSame ==
  ASSUME NEW ms0
  PROVE  D!InVoutOrder(ms0) <=> DP!InVoutOrder(ms0)
BY DEF D!InVoutOrder, DP!InVoutOrder

LEMMA MessageSame == D!Message = DP!Message
BY DEF D!Message, DP!Message, D!M4, DP!M4, D!M4Version, DP!M4Version

-----------------------------------------------------------------------------
\* Every bundle of the list, and every M3 still to be handled, was proposed.
ProposalsInv ==
  /\ BundlesProposed
  /\ \A k \in DOMAIN todo : todo[k].type = "M3" => <<todo[k].slot, todo[k].id>> \in proposed

\* Every M6 of a block that is not rejected was proposed, or is still to be handled.
PaymentsInv ==
  phase = "handle" /\ status \in {"handling", "accepted"} =>
    \A i \in DOMAIN ms :
      ms[i].msg.type = "M6" =>
        \/ <<ms[i].msg.slot, <<ms[i].msg.id>>>> \in proposed
        \/ \E k \in DOMAIN todo : todo[k] = Seen(ms[i])

IInv == GetP!IInv /\ DP!IInv /\ ProposalsInv /\ PaymentsInv

-----------------------------------------------------------------------------
(* The assumptions of the two modules.                                     *)

LEMMA ReadingAssumption == GetP!RawBlocksAssumption
BY RawBlocksAssumption DEF GetP!RawBlocksAssumption, Get!WellFormed, GetP!WellFormed,
   Get!IsSequence, GetP!IsSequence, Get!Tags, GetP!Tags

LEMMA ListAssumptions == DP!ConstantsAssumption /\ DP!BlocksAssumption
BY ConstantsAssumption, MessageSame, InVoutOrderSame
   DEF DP!ConstantsAssumption, DP!BlocksAssumption, Calls

-----------------------------------------------------------------------------
(* What D2 sees of the messages of a block.                                *)

\* The vector of an M4 holds natural numbers, as its bytes do.
LEMMA VectorOfNumbers ==
  ASSUME NEW b \in Seq(Nat), GetP!parseM4(b) # GetP!None
  PROVE  GetP!parseM4(b).V \in Seq(Nat)
<1>1. b # <<>>
  BY DEF GetP!parseM4
<1>2. /\ Tail(b) \in Seq(Nat) /\ Len(Tail(b)) = Len(b) - 1
      /\ Len(b) \in Nat
  BY <1>1, HeadTailProperties, LenProperties
<1>3. ASSUME Len(b) % 2 = 1
      PROVE  GetP!littleEndian16(Tail(b)) \in Seq(Nat)
  <2> DEFINE c == Tail(b)
             h == Len(c) \div 2
  <2>1. h \in Nat /\ 2 * h <= Len(c) /\ c \in Seq(Nat)
    BY <1>2
  <2>2. \A i \in 1..Len(c) : c[i] \in Nat
    BY <2>1, ElementOfSeq
  <2>3. \A i \in 1..h : 2 * i - 1 \in 1..Len(c) /\ 2 * i \in 1..Len(c)
    <3>1. Len(c) \in Nat
      BY <2>1, LenProperties
    <3> HIDE DEF h, c
    <3> QED
      BY <2>1, <3>1
  <2>4. \A i \in 1..h : c[2 * i - 1] + 256 * c[2 * i] \in Nat
    <3> TAKE i \in 1..h
    <3>1. c[2 * i - 1] \in Nat /\ c[2 * i] \in Nat
      BY <2>2, <2>3
    <3>2. ASSUME NEW x \in Nat, NEW y \in Nat
          PROVE  x + 256 * y \in Nat
      OBVIOUS
    <3> HIDE DEF c
    <3> QED
      BY <3>1, <3>2
  <2>5. [i \in 1..h |-> c[2 * i - 1] + 256 * c[2 * i]] \in Seq(Nat)
    <3> HIDE DEF h, c
    <3> QED
      BY <2>1, <2>4, IsASeq
  <2> QED
    BY <2>5 DEF GetP!littleEndian16
<1>4. <<>> \in Seq(Nat)
  BY EmptySeq
<1> QED
  BY <1>1, <1>2, <1>3, <1>4 DEF GetP!parseM4, GetP!None

\* A message of a block is one that D2 expects.
LEMMA SeenTypes ==
  ASSUME NEW b \in RawBlocks, NEW e \in GetP!Entries(b)
  PROVE  /\ Seen(e) \in DP!Message
         /\ Seen(e).type = "M3" =>
              /\ e.msg.type = "M3"
              /\ Seen(e).slot = e.msg.slot /\ Seen(e).id = e.msg.hash /\ Seen(e).vout = e.output
         /\ e.msg.type = "M3" => e.transaction = 0 /\ e.output \in Nat
         /\ e.msg.type = "M6" =>
              Seen(e).type = "M6" /\ Seen(e).slot = e.msg.slot /\ Seen(e).id = <<e.msg.id>>
<1>1. /\ Seen(e).type = "M3" =>
              /\ e.msg.type = "M3"
              /\ Seen(e).slot = e.msg.slot /\ Seen(e).id = e.msg.hash /\ Seen(e).vout = e.output
      /\ e.msg.type = "M6" =>
              Seen(e).type = "M6" /\ Seen(e).slot = e.msg.slot /\ Seen(e).id = <<e.msg.id>>
  BY DEF Seen
<1>2. Bytes(b) /\ GetP!WellFormed(b)
  BY RawBlocksAssumption, ReadingAssumption DEF GetP!RawBlocksAssumption
<1>3. CASE /\ e.transaction = 0 /\ e.output + 1 \in DOMAIN b.coinbase /\ e.output \in Nat
           /\ LET o == b.coinbase[e.output + 1]
              IN /\ o.tag \in GetP!Tags \ {"none"}
                 /\ e.msg = GetP!parseCoinbaseBody(o.tag, o.body)
                 /\ e.msg # GetP!None
                 /\ e.msg.type = o.tag
  <2> DEFINE o == b.coinbase[e.output + 1]
  <2>1. CASE o.tag = "M3"
    <3>1. Len(o.body) = 2 /\ e.msg = [type |-> "M3", slot |-> o.body[1], hash |-> SubSeq(o.body, 2, 2)]
      <4>1. e.msg = GetP!SlotHash("M3", o.body) /\ e.msg # GetP!None
        BY <1>3, <2>1 DEF GetP!parseCoinbaseBody
      <4>2. Len(o.body) = 1 + 1
        BY <4>1 DEF GetP!SlotHash
      <4> QED
        BY <4>1, <4>2 DEF GetP!SlotHash
    <3>2. o.body[1] \in SidechainNumbers /\ SubSeq(o.body, 2, 2) \in M6IDs
      BY <1>2, <1>3, <2>1, <3>1 DEF Bytes
    <3>3. Seen(e) \in DP!Message
      BY <1>3, <3>1, <3>2 DEF Seen, DP!Message
    <3> QED
      BY <1>1, <1>3, <3>3
  <2>2. CASE o.tag = "M4"
    <3>1. e.msg = GetP!parseM4(o.body) /\ e.msg.type = "M4"
      BY <1>3, <2>2 DEF GetP!parseCoinbaseBody
    <3>2. o.body \in Seq(Nat)
      <4>1. GetP!IsSequence(o.body)
        BY <1>2, <1>3 DEF GetP!WellFormed
      <4>2. o.body = [i \in 1..Len(o.body) |-> o.body[i]] /\ Len(o.body) \in Nat
        BY <4>1 DEF GetP!IsSequence
      <4>3. \A i \in 1..Len(o.body) : o.body[i] \in Nat
        BY <1>2, <1>3, <2>2, <4>2 DEF Bytes
      <4> HIDE DEF o
      <4>4. [i \in 1..Len(o.body) |-> o.body[i]] \in Seq(Nat)
        BY <4>2, <4>3, IsASeq
      <4> QED
        BY <4>2, <4>4
    <3>3. e.msg.V \in Seq(Nat)
      <4> HIDE DEF o
      <4> QED
        BY <1>3, <3>1, <3>2, VectorOfNumbers DEF o
    <3>4. Version(e.msg.Enum) \in DP!M4Version
      BY DEF Version, DP!M4Version
    <3>5. Seen(e) = [type |-> "M4", m4 |-> [Enum |-> Version(e.msg.Enum), V |-> e.msg.V]]
      BY <3>1 DEF Seen
    <3>6. Seen(e) \in DP!Message
      <4>1. [Enum |-> Version(e.msg.Enum), V |-> e.msg.V] \in DP!M4
        BY <3>3, <3>4 DEF DP!M4
      <4> QED
        BY <3>5, <4>1 DEF DP!Message
    <3> QED
      BY <1>1, <1>3, <3>1, <3>6
  <2>3. CASE o.tag \notin {"M3", "M4"}
    <3>1. e.msg.type \notin {"M3", "M4", "M6"}
      BY <1>3, <2>3 DEF GetP!Tags
    <3>2. Seen(e) \in DP!Message
      BY <3>1 DEF Seen, DP!Message
    <3> QED
      BY <1>1, <3>1, <3>2
  <2> QED
    BY <2>1, <2>2, <2>3
<1>4. CASE /\ e.transaction \in DOMAIN b.txs
           /\ \E result \in GetP!parseM5(b.txs[e.transaction]) :
                e.msg \in GetP!Readings(b.txs[e.transaction], result)
           /\ e.msg.type \in {"M5", "M6", "M8"}
  <2>1. CASE e.msg.type = "M6"
    <3> DEFINE tx == b.txs[e.transaction]
    <3>1. GetP!parseM6(tx) /\ e.msg = GetP!M6Message(tx)
      BY <1>4, <2>1, ReadingAssumption, GetP!ReadingTypes
    <3>2. Get!parseM6(tx) /\ GetP!computeM6ID(tx) = Get!computeM6ID(tx)
      BY <3>1, parseM6Same, feeSame DEF GetP!computeM6ID, Get!computeM6ID
    <3>3. tx.out[1].slot \in SidechainNumbers /\ <<GetP!computeM6ID(tx)>> \in M6IDs
      BY <1>2, <1>4, <3>2 DEF Bytes
    <3>4. e.msg.slot \in SidechainNumbers /\ <<e.msg.id>> \in M6IDs
      BY <3>1, <3>3 DEF GetP!M6Message
    <3>5. Seen(e) \in DP!Message
      BY <2>1, <3>4 DEF Seen, DP!Message
    <3> QED
      BY <1>1, <2>1, <3>5
  <2>2. CASE e.msg.type # "M6"
    <3>1. Seen(e) \in DP!Message
      BY <1>4, <2>2 DEF Seen, DP!Message
    <3> QED
      BY <1>1, <1>4, <2>2, <3>1
  <2> QED
    BY <2>1, <2>2
<1>5. \/ /\ e.transaction = 0 /\ e.output + 1 \in DOMAIN b.coinbase /\ e.output \in Nat
         /\ LET o == b.coinbase[e.output + 1]
            IN /\ o.ret /\ o.tag \in GetP!Tags \ {"none"}
               /\ e.msg = GetP!parseCoinbaseBody(o.tag, o.body)
               /\ e.msg # GetP!None
               /\ e.msg.type = o.tag
      \/ /\ e.transaction \in DOMAIN b.txs /\ e.output = 0
         /\ e.transaction \in Nat \ {0}
         /\ \E result \in GetP!parseM5(b.txs[e.transaction]) :
              e.msg \in GetP!Readings(b.txs[e.transaction], result)
         /\ e.msg.type \in {"M5", "M6", "M8"}
  BY ReadingAssumption, GetP!EntryTypes
<1> QED
  BY <1>3, <1>4, <1>5

\* The messages D2 gets of a block.
SeenAll == [i \in DOMAIN ms |-> Seen(ms[i])]

LEMMA SeenInOrder ==
  ASSUME GetP!IInv
  PROVE  /\ SeenAll \in Seq(DP!Message) /\ DOMAIN SeenAll = DOMAIN ms
         /\ DP!InVoutOrder(SeenAll)
         /\ \A i \in DOMAIN ms : block \in RawBlocks /\ ms[i] \in GetP!Entries(block)
<1>1. block \in RawBlocks /\ ms \in Seq(GetP!Entries(block)) /\ GetP!InBlockOrder(ms)
  BY DEF GetP!IInv, GetP!LoopsInv, GetP!ReadInv
<1>2. DOMAIN ms = 1..Len(ms) /\ Len(ms) \in Nat
  BY <1>1, LenProperties
<1>3. \A i \in DOMAIN ms : ms[i] \in GetP!Entries(block)
  BY <1>1, <1>2, ElementOfSeq
<1>4. SeenAll \in Seq(DP!Message)
  <2>1. \A i \in 1..Len(ms) : Seen(ms[i]) \in DP!Message
    BY <1>1, <1>2, <1>3, SeenTypes
  <2>2. [i \in 1..Len(ms) |-> Seen(ms[i])] \in Seq(DP!Message)
    BY <1>2, <2>1, IsASeq
  <2> QED
    BY <1>2, <2>2 DEF SeenAll
<1>5. ASSUME NEW i \in DOMAIN ms, NEW j \in DOMAIN ms, i < j,
             Seen(ms[i]).type = "M3", Seen(ms[j]).type = "M3"
      PROVE  Seen(ms[i]).vout < Seen(ms[j]).vout
  <2>1. /\ ms[i].transaction = 0 /\ Seen(ms[i]).vout = ms[i].output
        /\ ms[j].transaction = 0 /\ Seen(ms[j]).vout = ms[j].output
    BY <1>1, <1>3, <1>5, SeenTypes
  <2>2. GetP!Earlier(ms[i], ms[j])
    BY <1>1, <1>5 DEF GetP!InBlockOrder
  <2> QED
    BY <2>1, <2>2 DEF GetP!Earlier
<1>6. DP!InVoutOrder(SeenAll)
  BY <1>5 DEF SeenAll, DP!InVoutOrder
<1> QED
  BY <1>1, <1>3, <1>4, <1>6 DEF SeenAll

-----------------------------------------------------------------------------
(* The invariant holds at the start and every step preserves it.           *)

LEMMA InitIInv == Init => IInv
<1> SUFFICES ASSUME Init
             PROVE  IInv
  OBVIOUS
<1>1. GetP!IInv
  BY ReadInitSame, ReadingAssumption, GetP!InitIInv DEF Init
<1>2. DP!IInv
  BY ListInitSame, ListAssumptions, DP!InitOK DEF Init
<1>3. ProposalsInv /\ PaymentsInv
  BY EmptySeq DEF Init, D!Init, ProposalsInv, PaymentsInv, BundlesProposed
<1> QED
  BY <1>1, <1>2, <1>3 DEF IInv

LEMMA ReadingStep == IInv /\ getMessages => IInv'
<1> SUFFICES ASSUME IInv, getMessages
             PROVE  IInv'
  OBVIOUS
<1>1. GetP!IInv'
  <2>1. GetP!Next
    BY ReadNextSame DEF getMessages
  <2> QED
    BY <2>1, ReadingAssumption, GetP!NextIInv DEF IInv
<1>2. DP!IInv'
  <2>1. UNCHANGED DP!vars
    BY DEF getMessages, d2Vars, DP!vars
  <2> QED
    BY <2>1, ListAssumptions, DP!StepOK DEF IInv
<1>3. ProposalsInv' /\ PaymentsInv'
  BY DEF getMessages, d2Vars, IInv, ProposalsInv, PaymentsInv, BundlesProposed
<1> QED
  BY <1>1, <1>2, <1>3 DEF IInv

LEMMA HandleMsgsStep == IInv /\ HandleMsgs => IInv'
<1> SUFFICES ASSUME IInv, HandleMsgs
             PROVE  IInv'
  OBVIOUS
<1>1. GetP!IInv'
  <2>1. UNCHANGED GetP!vars
    BY DEF HandleMsgs, readVars, GetP!vars
  <2> QED
    BY <2>1, ReadingAssumption, GetP!NextIInv DEF IInv
<1>2. /\ SeenAll \in Seq(DP!Message) /\ DOMAIN SeenAll = DOMAIN ms
      /\ DP!InVoutOrder(SeenAll)
      /\ \A i \in DOMAIN ms : block \in RawBlocks /\ ms[i] \in GetP!Entries(block)
  BY SeenInOrder DEF IInv
<1>3. DP!HandleMsgs(SeenAll) /\ DP!AtRest /\ height < MaxHeight
  BY HandleMsgsSame, ListPropertiesSame DEF HandleMsgs, SeenAll
<1>4. DP!IInv'
  BY <1>2, <1>3, ListAssumptions, DP!HandleMsgsOK DEF IInv
<1>5. m' = m /\ todo' \in {SeenAll, <<>>} /\ (status' \in {"handling", "accepted"} => todo' = SeenAll)
  BY <1>3 DEF DP!HandleMsgs
<1>6. /\ ms' = ms
      /\ proposed' = proposed \cup {<<ms[i].msg.slot, ms[i].msg.hash>> : i \in Get!Of(ms, "M3")}
  BY DEF HandleMsgs, readVars
<1>7. ProposalsInv'
  <2>1. ASSUME NEW k \in DOMAIN todo', todo'[k].type = "M3"
        PROVE  <<todo'[k].slot, todo'[k].id>> \in proposed'
    <3>1. k \in DOMAIN ms /\ todo'[k] = Seen(ms[k])
      BY <1>2, <1>5, <2>1, EmptySeq DEF SeenAll
    <3>2. ms[k].msg.type = "M3" /\ todo'[k].slot = ms[k].msg.slot /\ todo'[k].id = ms[k].msg.hash
      BY <1>2, <2>1, <3>1, SeenTypes
    <3> QED
      BY <1>6, <3>1, <3>2 DEF Get!Of
  <2> QED
    BY <1>5, <1>6, <2>1 DEF IInv, ProposalsInv, BundlesProposed
<1>8. PaymentsInv'
  <2> SUFFICES ASSUME status' \in {"handling", "accepted"}, NEW i \in DOMAIN ms
               PROVE  \E k \in DOMAIN todo' : todo'[k] = Seen(ms[i])
    BY <1>6 DEF PaymentsInv
  <2> QED
    BY <1>2, <1>5 DEF SeenAll
<1> QED
  BY <1>1, <1>4, <1>7, <1>8 DEF IInv

\* A step that pays a bundle finds it in the list, and every bundle of the list
\* was proposed.
LEMMA HandlingStep == IInv /\ Handling => IInv'
<1> SUFFICES ASSUME IInv, Handling
             PROVE  IInv'
  OBVIOUS
<1>1. GetP!IInv'
  <2>1. UNCHANGED GetP!vars
    BY DEF Handling, readVars, GetP!vars
  <2> QED
    BY <2>1, ReadingAssumption, GetP!NextIInv DEF IInv
<1>2. DP!IInv /\ DP!Handling
  BY HandlingSame DEF Handling, IInv
<1>3. DP!IInv'
  BY <1>2, ListAssumptions, DP!HandlingOK
<1>4. ms' = ms /\ block' = block /\ proposed' = proposed /\ phase' = phase
  BY DEF Handling, readVars
<1>5. ASSUME DP!Current("M3")
      PROVE  <<Head(todo).slot, Head(todo).id>> \in proposed
  <2>1. todo \in Seq(DP!Message) /\ todo # <<>> /\ Head(todo).type = "M3"
    BY <1>2, <1>5 DEF DP!IInv, DP!TodoOK, DP!Current
  <2>2. 1 \in DOMAIN todo /\ Head(todo) = todo[1]
    BY <2>1, LenProperties, HeadTailProperties
  <2> QED
    BY <2>1, <2>2 DEF IInv, ProposalsInv
<1>6. BundlesProposed'
  <2> SUFFICES ASSUME NEW s \in DOMAIN m', NEW i \in DOMAIN m'[s]
               PROVE  <<s, m'[s][i].id>> \in proposed
    BY <1>4 DEF BundlesProposed
  <2>1. \/ s \in DOMAIN m /\ \E j \in DOMAIN m[s] : m[s][j].id = m'[s][i].id
        \/ DP!Current("M3") /\ s = Head(todo).slot /\ m'[s][i].id = Head(todo).id
    BY <1>2, ListAssumptions, DP!IDsOfStep
  <2> QED
    BY <1>5, <2>1 DEF IInv, ProposalsInv, BundlesProposed
<1>7. /\ \A k \in DOMAIN todo' : todo'[k].type = "M3" => \E j \in DOMAIN todo : todo'[k] = todo[j]
      /\ status' \in {"handling", "accepted"} =>
           /\ status = "handling"
           /\ \A k \in DOMAIN todo :
                todo[k].type = "M6" =>
                  \/ \E j \in DOMAIN todo' : todo'[j] = todo[k]
                  \/ DP!IndexesOf(todo[k].slot, todo[k].id) # {}
  BY <1>2, ListAssumptions, DP!TodoOfStep
<1>8. ProposalsInv'
  BY <1>4, <1>6, <1>7 DEF IInv, ProposalsInv
<1>9. PaymentsInv'
  <2> SUFFICES ASSUME phase = "handle", status' \in {"handling", "accepted"},
                      NEW i \in DOMAIN ms, ms[i].msg.type = "M6"
               PROVE  \/ <<ms[i].msg.slot, <<ms[i].msg.id>>>> \in proposed
                      \/ \E k \in DOMAIN todo' : todo'[k] = Seen(ms[i])
    BY <1>4 DEF PaymentsInv, Seen
  <2>1. CASE <<ms[i].msg.slot, <<ms[i].msg.id>>>> \in proposed
    BY <2>1
  <2>2. ASSUME NEW k \in DOMAIN todo, todo[k] = Seen(ms[i])
        PROVE  \/ <<ms[i].msg.slot, <<ms[i].msg.id>>>> \in proposed
               \/ \E j \in DOMAIN todo' : todo'[j] = Seen(ms[i])
    <3>1. todo[k].type = "M6" /\ todo[k].slot = ms[i].msg.slot /\ todo[k].id = <<ms[i].msg.id>>
      BY <2>2, SeenInOrder, SeenTypes DEF IInv
    <3>2. CASE DP!IndexesOf(todo[k].slot, todo[k].id) # {}
      <4>1. PICK j \in DOMAIN DP!Bundles(todo[k].slot) : DP!Bundles(todo[k].slot)[j].id = todo[k].id
        BY <3>2 DEF DP!IndexesOf
      <4>2. todo[k].slot \in DOMAIN m
        <5>1. DP!Bundles(todo[k].slot) # <<>>
          BY <4>1, EmptySeq
        <5> QED
          BY <5>1 DEF DP!Bundles
      <4>3. <<todo[k].slot, todo[k].id>> \in proposed
        BY <4>1, <4>2 DEF DP!Bundles, IInv, ProposalsInv, BundlesProposed
      <4> QED
        BY <3>1, <4>3
    <3> QED
      BY <1>7, <2>2, <3>1, <3>2
  <2> QED
    BY <1>7, <2>1, <2>2 DEF IInv, PaymentsInv
<1> QED
  BY <1>1, <1>3, <1>8, <1>9 DEF IInv

LEMMA NextBlockStep == IInv /\ NextBlock => IInv'
<1>1. GetP!Init => GetP!IInv
  BY ReadingAssumption, GetP!InitIInv
<1>2. GetP!Init' => GetP!IInv'
  BY <1>1, PTL
<1> SUFFICES ASSUME IInv, NextBlock
             PROVE  IInv'
  OBVIOUS
<1>3. GetP!Init'
  BY DEF NextBlock, GetP!Init
<1>4. DP!IInv'
  <2>1. UNCHANGED DP!vars
    BY DEF NextBlock, d2Vars, DP!vars
  <2> QED
    BY <2>1, ListAssumptions, DP!StepOK DEF IInv
<1>5. ProposalsInv' /\ PaymentsInv'
  BY DEF NextBlock, d2Vars, IInv, ProposalsInv, PaymentsInv, BundlesProposed
<1> QED
  BY <1>2, <1>3, <1>4, <1>5 DEF IInv

LEMMA Invariant == Spec => []IInv
<1>1. IInv /\ [Next]_vars => IInv'
  <2> SUFFICES ASSUME IInv, [Next]_vars
               PROVE  IInv'
    OBVIOUS
  <2>1. CASE UNCHANGED vars
    <3>1. UNCHANGED GetP!vars /\ UNCHANGED DP!vars
      BY <2>1 DEF vars, readVars, d2Vars, GetP!vars, DP!vars
    <3>2. GetP!IInv' /\ DP!IInv'
      BY <3>1, ReadingAssumption, ListAssumptions, GetP!NextIInv, DP!StepOK DEF IInv
    <3>3. ProposalsInv' /\ PaymentsInv'
      BY <2>1 DEF vars, readVars, d2Vars, IInv, ProposalsInv, PaymentsInv, BundlesProposed
    <3> QED
      BY <3>2, <3>3 DEF IInv
  <2> QED
    BY <2>1, ReadingStep, HandleMsgsStep, HandlingStep, NextBlockStep DEF Next
<1> QED
  BY <1>1, InitIInv, PTL DEF Spec

-----------------------------------------------------------------------------
\* What D2 gets of any chain of blocks is what module D2 assumes: the M3s come
\* in the order of their outputs (enforcer.go:266-294, d2.go:106-129).
THEOREM CallInOrderHolds == Spec => []CallInOrder
<1>1. IInv => CallInOrder
  BY InVoutOrderSame DEF IInv, DP!IInv, DP!TodoOK, CallInOrder
<1> QED
  BY <1>1, Invariant, PTL

\* The lists are in order and without duplicates after every chain of blocks,
\* valid or not (d2.go:106-126, 267-292).
THEOREM ListsInOrderHolds == Spec => []ListsInOrder
<1>1. IInv => ListsInOrder
  <2> SUFFICES ASSUME IInv
               PROVE  DP!Chronological /\ DP!UniqueIDs
    BY ListPropertiesSame DEF ListsInOrder
  <2> QED
    BY DEF IInv, DP!IInv, DP!ListsOK, DP!Good, DP!Chrono, DP!Unique, DP!Precedes,
       DP!Chronological, DP!UniqueIDs
<1> QED
  BY <1>1, Invariant, PTL

\* Every bundle of the list was proposed by an M3 of some block, for its slot
\* (enforcer.go:111-119, d2.go:114-129).
THEOREM BundlesProposedHolds == Spec => []BundlesProposed
<1>1. IInv => BundlesProposed
  BY DEF IInv, ProposalsInv
<1> QED
  BY <1>1, Invariant, PTL

\* In an accepted block no transaction takes from the treasury of a slot what
\* was not proposed, to the last unit, in an M3 for that slot
\* (enforcer.go:423-510, d2.go:114-129, 267-292).
THEOREM WithdrawalsProposedHolds == Spec => []WithdrawalsProposed
<1>1. IInv => WithdrawalsProposed
  <2> SUFFICES ASSUME IInv, phase = "handle", status = "accepted", pc = "done",
                      NEW t \in DOMAIN block.txs, Get!parseM6(block.txs[t])
               PROVE  LET tx == block.txs[t]
                      IN \E p \in proposed :
                           /\ p[1] = tx.out[1].slot
                           /\ tx.in[1].out.value - tx.out[1].value
                                = p[2][1].fee + Get!Sum(Get!Values(p[2][1].payouts))
                           /\ p[2][1].payouts = Tail(tx.out)
    BY DEF WithdrawalsProposed
  <2> DEFINE tx == block.txs[t]
  <2>1. GetP!parseM6(tx)
    BY parseM6Same
  <2>2. PICK i \in DOMAIN ms : ms[i].msg = GetP!M6Message(tx)
    BY <2>1 DEF IInv, GetP!IInv, GetP!WithdrawalsInv
  <2>3. /\ ms[i].msg.type = "M6" /\ ms[i].msg.slot = tx.out[1].slot
        /\ ms[i].msg.id.fee = GetP!fee(tx) /\ ms[i].msg.id.payouts = Tail(tx.out)
    BY <2>2 DEF GetP!M6Message, GetP!computeM6ID
  <2>4. todo = <<>>
    BY DEF IInv, DP!IInv, DP!RestOK
  <2>5. <<ms[i].msg.slot, <<ms[i].msg.id>>>> \in proposed
    BY <2>3, <2>4, EmptySeq DEF IInv, PaymentsInv
  <2>6. block \in RawBlocks
    BY DEF IInv, GetP!IInv, GetP!LoopsInv
  <2>7. tx.in[1].out.value - tx.out[1].value = GetP!fee(tx) + GetP!Sum(GetP!Values(Tail(tx.out)))
    BY <2>6, ReadingAssumption, GetP!FeeAndPayouts
  <2>8. Get!Sum(Get!Values(Tail(tx.out))) = GetP!Sum(GetP!Values(Tail(tx.out)))
    BY SumSame DEF Get!Values, GetP!Values
  <2> DEFINE p == <<ms[i].msg.slot, <<ms[i].msg.id>>>>
  <2>9. p[1] = ms[i].msg.slot /\ p[2][1] = ms[i].msg.id
    OBVIOUS
  <2>10. /\ p \in proposed
         /\ p[1] = tx.out[1].slot
         /\ tx.in[1].out.value - tx.out[1].value
              = p[2][1].fee + Get!Sum(Get!Values(p[2][1].payouts))
         /\ p[2][1].payouts = Tail(tx.out)
    <3> HIDE DEF p, tx
    <3> QED
      BY <2>3, <2>5, <2>7, <2>8, <2>9 DEF p
  <2> HIDE DEF p
  <2> QED
    BY <2>10
<1> QED
  BY <1>1, Invariant, PTL

\* In the driver the withdrawal list behaves as module D2 says, for the calls
\* that module D2 allows: every theorem about D2 holds of the list in the driver
\* (enforcer_test.go:60-80, d2.go:57-74).
THEOREM ListIsD2 == Spec => DP!Spec
<1>1. Init => DP!Init
  BY ListInitSame DEF Init
<1>2. IInv /\ [Next]_vars => [DP!Next]_DP!vars
  <2> SUFFICES ASSUME IInv, [Next]_vars
               PROVE  [DP!Next]_DP!vars
    OBVIOUS
  <2>1. CASE getMessages \/ NextBlock \/ UNCHANGED vars
    BY <2>1 DEF getMessages, NextBlock, vars, d2Vars, DP!vars
  <2>2. CASE HandleMsgs
    <3>1. SeenAll \in Calls
      BY SeenInOrder, MessageSame, InVoutOrderSame DEF IInv, Calls
    <3>2. DP!HandleMsgs(SeenAll) /\ DP!AtRest /\ height < MaxHeight
      BY <2>2, HandleMsgsSame, ListPropertiesSame DEF HandleMsgs, SeenAll
    <3> QED
      BY <3>1, <3>2 DEF DP!Next, DP!NextBlock
  <2>3. CASE Handling
    BY <2>3, HandlingSame DEF Handling, DP!Next
  <2> QED
    BY <2>1, <2>2, <2>3 DEF Next
<1> QED
  BY <1>1, <1>2, Invariant, PTL DEF Spec, DP!Spec

\* So in every chain of blocks an accepted block leaves no expired bundle, what
\* RepeatPrevious repeats is a vote, and the votes of a slot change together
\* (d2.go:131-253, 320-329).
THEOREM ListTheoremsHold == Spec => [](DP!NoneExpired /\ DP!PrevM4Replayable) /\ DP!VotesTogether
<1>1. DP!Spec => []DP!NoneExpired
  BY ListAssumptions, DP!NoneExpiredHolds
<1>2. DP!Spec => []DP!PrevM4Replayable
  BY ListAssumptions, DP!PrevM4ReplayableHolds
<1>3. DP!Spec => DP!VotesTogether
  BY ListAssumptions, DP!VotesTogetherHolds
<1> QED
  BY <1>1, <1>2, <1>3, ListIsD2, PTL
=============================================================================
