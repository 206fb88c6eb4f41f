------------------------------ MODULE Messages ------------------------------
(***************************************************************************)
(* How src/enforcer/enforcer.go reads the BIP300 and BIP301 messages of a  *)
(* block: getMessages parses the outputs of the coinbase, checks them      *)
(* together, classifies the other transactions as M5, M6, M8 or none of    *)
(* them, and matches the M8s with the M7s.  One action per iteration of    *)
(* the loops over outputs and transactions.                                *)
(***************************************************************************)
EXTENDS Integers, Sequences, FiniteSets, Functions

CONSTANTS
  RawBlocks, \* the blocks read
  HashLen    \* bytes of a hash (sha256.Size in the code)

Tags == {"M1", "M2", "M3", "M4", "M7", "none"}

(***************************************************************************)
(* A coinbase output: whether its script is OP_RETURN and one push, which  *)
(* of the four-byte tags the push starts with, and the bytes after it.     *)
(* Another output: a treasury of a slot (OP_DRIVECHAIN <slot> OP_TRUE), an *)
(* OP_RETURN with one push, the script of an M8, or a payment.  An input   *)
(* holds the output it spends, if txMap knows it.                          *)
(***************************************************************************)
IsTreasury(o) == o.kind = "treasury"

IsSequence(s) == Len(s) \in Nat /\ s = [i \in 1..Len(s) |-> s[i]]

WellFormed(b) ==
  /\ DOMAIN b = {"coinbase", "txs", "prev"}
  /\ IsSequence(b.coinbase) /\ IsSequence(b.txs)
  /\ \A i \in DOMAIN b.coinbase :
       b.coinbase[i].tag \in Tags /\ IsSequence(b.coinbase[i].body)
  /\ \A i \in DOMAIN b.txs :
       LET tx == b.txs[i]
       IN /\ IsSequence(tx.in) /\ tx.in # <<>>
          /\ IsSequence(tx.out) /\ tx.out # <<>>
          /\ \A j \in DOMAIN tx.in : tx.in[j].out.value \in Nat
          /\ \A j \in DOMAIN tx.out : tx.out[j].value \in Nat

ASSUME RawBlocksAssumption ==
  HashLen \in Nat /\ \A b \in RawBlocks : WellFormed(b)

-----------------------------------------------------------------------------
(* Messages of the coinbase.                                               *)

None == [type |-> "none"]

\* A slot and a hash, the body of an M2, M3 or M7.
SlotHash(type, b) ==
  IF Len(b) = 1 + HashLen
  THEN [type |-> type, slot |-> b[1], hash |-> SubSeq(b, 2, Len(b))]
  ELSE None

parseM1(b) == IF b # <<>> THEN [type |-> "M1", slot |-> b[1]] ELSE None

littleEndian16(b) == [i \in 1..(Len(b) \div 2) |-> b[2 * i - 1] + 256 * b[2 * i]]

\* An unknown version parses, with an empty vector.
parseM4(b) ==
  IF b = <<>> THEN None
  ELSE LET Parsed(V) == [type |-> "M4", Enum |-> b[1], V |-> V]
       IN CASE b[1] \in {0, 3} -> IF Len(b) = 1 THEN Parsed(<<>>) ELSE None
            [] b[1] = 1 -> Parsed(Tail(b))
            [] b[1] = 2 -> IF Len(b) % 2 = 1 THEN Parsed(littleEndian16(Tail(b))) ELSE None
            [] OTHER -> Parsed(<<>>)

parseCoinbaseBody(tag, b) ==
  CASE tag = "M1" -> parseM1(b)
    [] tag = "M4" -> parseM4(b)
    [] tag = "none" -> None
    [] OTHER -> SlotHash(tag, b)

\* The messages of a list with a type.
Of(list, type) == {i \in DOMAIN list : list[i].msg.type = type}

SameSlotTwice(list, type) ==
  \E i, j \in Of(list, type) : i # j /\ list[i].msg.slot = list[j].msg.slot

\* Mutated form of checkBlockValidity: two M3s for one slot are let through.
checkBlockValidity_manyM3s(list) ==
  /\ Cardinality(Of(list, "M2")) < 2
  /\ ~SameSlotTwice(list, "M7")

checkBlockValidity(list) ==
  /\ Cardinality(Of(list, "M2")) < 2
  /\ ~SameSlotTwice(list, "M3")
  /\ \A i \in Of(list, "M4") :
       list[i].msg.Enum = 2 => \E k \in DOMAIN list[i].msg.V : list[i].msg.V[k] > 253
  /\ ~SameSlotTwice(list, "M7")

-----------------------------------------------------------------------------
(* Transactions after the coinbase.                                        *)

Sum(amounts) == FoldFunction(+, 0, amounts)

Values(outs) == [i \in DOMAIN outs |-> outs[i].value]

Treasuries(outs) == {i \in DOMAIN outs : IsTreasury(outs[i])}

Spent(tx) == [i \in DOMAIN tx.in |-> tx.in[i].out]

Repeats(outs) ==
  \E i, j \in Treasuries(outs) : i # j /\ outs[i].slot = outs[j].slot

parseTxOutputFails(tx) == Repeats(tx.out)

parseTxInputFails(tx) == (\E i \in DOMAIN tx.in : ~tx.in[i].known) \/ Repeats(Spent(tx))

\* The treasury inputs of the slot of output i.
OldCtip(tx, i) ==
  {j \in Treasuries(Spent(tx)) : tx.in[j].out.slot = tx.out[i].slot}

\* Mutated form of M5Output: a deposit may take from the treasury.
M5Output_anyValue(tx, i) ==
  CASE OldCtip(tx, i) = {} -> "error"
    [] OldCtip(tx, i) # {} /\ i + 1 \notin DOMAIN tx.out -> "panic"
    [] OTHER -> IF tx.out[i + 1].kind = "return" THEN "ok" ELSE "error"

\* One iteration of the loop over newCtips.  The output after the last one is
\* indexed without a check.
M5Output(tx, i) ==
  CASE OldCtip(tx, i) = {} -> "error"
    [] OldCtip(tx, i) # {} /\ i + 1 \notin DOMAIN tx.out -> "panic"
    [] OTHER -> IF /\ tx.out[i + 1].kind = "return"
                   /\ \A j \in OldCtip(tx, i) : tx.out[i].value >= tx.in[j].out.value
                THEN "ok" ELSE "error"

\* newCtips is a Go map: which of several failures comes first is not
\* determined, so the result is one of a set.
parseM5(tx) ==
  IF parseTxOutputFails(tx) \/ parseTxInputFails(tx) \/ Treasuries(tx.out) = {}
  THEN {"error"}
  ELSE LET results == {M5Output(tx, i) : i \in Treasuries(tx.out)}
       IN IF results = {"ok"} THEN {"ok"} ELSE results \ {"ok"}

\* The deposits of an M5: the slots of its treasury outputs and the differences.
Deposits(tx) ==
  UNION {{[slot |-> tx.out[i].slot, value |-> tx.out[i].value - tx.in[j].out.value] :
            j \in OldCtip(tx, i)} : i \in Treasuries(tx.out)}

\* Mutated form of fee: the new treasury is not subtracted.
fee_gross(tx) == tx.in[1].out.value - Sum(Values(Tail(tx.out)))

\* What the outputs leave of the old treasury; negative if they exceed it.
fee(tx) == tx.in[1].out.value - Sum(Values(tx.out))

\* The hash covers the fee, which replaces output 0, and the other outputs.
computeM6ID(tx) == [fee |-> fee(tx), payouts |-> Tail(tx.out)]

parseM6(tx) ==
  /\ ~parseTxOutputFails(tx)
  /\ Treasuries(tx.out) = {1}
  /\ Len(tx.in) = 1
  /\ tx.in[1].known
  /\ IsTreasury(tx.in[1].out)
  /\ tx.in[1].out.slot = tx.out[1].slot
  /\ tx.in[1].out.value >= tx.out[1].value
  /\ fee(tx) >= 0

parseM8(tx) == tx.out[1].kind = "m8"

M5Message(tx) == [type |-> "M5", deposits |-> Deposits(tx)]
M6Message(tx) == [type |-> "M6", slot |-> tx.out[1].slot, id |-> computeM6ID(tx)]
M8Message(tx) ==
  [type |-> "M8", slot |-> tx.out[1].slot, hash |-> tx.out[1].hash, prev |-> tx.out[1].prev]

\* The messages a transaction can be read as, if its M5 reading is result.
Readings(tx, result) ==
  (IF result = "ok" THEN {M5Message(tx)} ELSE {})
    \cup (IF parseM6(tx) THEN {M6Message(tx)} ELSE {})
    \cup (IF parseM8(tx) THEN {M8Message(tx)} ELSE {})

-----------------------------------------------------------------------------
VARIABLES
  block,  \* the block being read
  pc,     \* where getMessages is
  next,   \* the index of the next output or transaction, counted from 1
  ms      \* the messages so far, with the indexes of Go, counted from 0

vars == <<block, pc, next, ms>>

Init ==
  /\ block \in RawBlocks
  /\ pc = "coinbase"
  /\ next = 1
  /\ ms = <<>>

Add(transaction, output, msg) ==
  ms' = IF msg = None THEN ms
        ELSE Append(ms, [transaction |-> transaction, output |-> output, msg |-> msg])

\* Outputs that do not decode or do not parse are skipped.
parseCoinbase ==
  /\ pc = "coinbase"
  /\ next <= Len(block.coinbase)
  /\ LET o == block.coinbase[next]
     IN Add(0, next - 1, IF o.ret THEN parseCoinbaseBody(o.tag, o.body) ELSE None)
  /\ next' = next + 1
  /\ UNCHANGED <<block, pc>>

\* Mutated form of Invalid: the messages so far are returned with the error.
Invalid_keepsMessages == pc' = "invalid" /\ next' = 1 /\ UNCHANGED ms

\* An invalid block ends getMessages with an error and without messages.
Invalid == pc' = "invalid" /\ ms' = <<>> /\ next' = 1

checkCoinbase ==
  /\ pc = "coinbase"
  /\ next > Len(block.coinbase)
  /\ \/ checkBlockValidity(ms) /\ pc' = "transactions" /\ next' = 1 /\ UNCHANGED ms
     \/ ~checkBlockValidity(ms) /\ Invalid
  /\ UNCHANGED block

\* One iteration of parseTransactions; the coinbase is transaction 0.
parseTransaction ==
  /\ pc = "transactions"
  /\ next <= Len(block.txs)
  /\ LET tx == block.txs[next]
     IN \E result \in parseM5(tx) :
          \/ /\ result = "panic"
             /\ pc' = "panicked"
             /\ UNCHANGED <<next, ms>>
          \/ /\ result # "panic"
             /\ Cardinality(Readings(tx, result)) < 2
             /\ Add(next, 0, IF Readings(tx, result) = {} THEN None
                             ELSE CHOOSE msg \in Readings(tx, result) : TRUE)
             /\ next' = next + 1
             /\ UNCHANGED pc
          \/ /\ result # "panic"
             /\ Cardinality(Readings(tx, result)) >= 2
             /\ Invalid
  /\ UNCHANGED block

\* Mutated form of Corresponding: any M7 of the slot.
Corresponding_slotOnly(list, m8) == {i \in Of(list, "M7") : list[i].msg.slot = m8.slot}

\* The M7 with the slot and the hash of an M8.
Corresponding(list, m8) ==
  {i \in Of(list, "M7") : list[i].msg.slot = m8.slot /\ list[i].msg.hash = m8.hash}

checkM8(list, m8) == Corresponding(list, m8) # {}

Expired(m8, prevBlock) == m8.prev # prevBlock

\* slices.DeleteFunc of the expired M8s: the others, in their order.
Unexpired(list, prevBlock) ==
  LET kept[n \in 0..Len(list)] ==
        IF n = 0 THEN <<>>
        ELSE IF list[n].msg.type = "M8" /\ Expired(list[n].msg, prevBlock) THEN kept[n - 1]
        ELSE Append(kept[n - 1], list[n])
  IN kept[Len(list)]

checkM8s ==
  /\ pc = "transactions"
  /\ next > Len(block.txs)
  /\ \/ /\ ~SameSlotTwice(ms, "M7") \* findM7s
        /\ \A i \in Of(ms, "M8") : checkM8(ms, ms[i].msg)
        /\ pc' = "done"
        /\ ms' = Unexpired(ms, block.prev)
        /\ next' = 1
     \/ /\ SameSlotTwice(ms, "M7") \/ \E i \in Of(ms, "M8") : ~checkM8(ms, ms[i].msg)
        /\ Invalid
  /\ UNCHANGED block

Next == parseCoinbase \/ checkCoinbase \/ parseTransaction \/ checkM8s

Spec == Init /\ [][Next]_vars

\* getMessages is a sequence of loops over finite lists.
FairSpec == Spec /\ WF_vars(Next)

-----------------------------------------------------------------------------
\* The loop indexes stay within the block, and messages exist only while the
\* block has not been found invalid (enforcer.go:635-666).
TypeOK ==
  /\ pc \in {"coinbase", "transactions", "done", "invalid", "panicked"}
  /\ pc = "coinbase" => next \in 1..(Len(block.coinbase) + 1)
  /\ pc = "transactions" => next \in 1..(Len(block.txs) + 1)
  /\ pc = "invalid" => ms = <<>>
  /\ \A i \in DOMAIN ms : ms[i].msg.type \in {"M1", "M2", "M3", "M4", "M5", "M6", "M7", "M8"}

\* What D2 relies on: the messages come in the order of the transactions and,
\* within the coinbase, of its outputs, and no two M3s name one slot, whatever
\* was skipped, deleted or refused on the way (enforcer.go:202-294, 611-666).
SuitD2 ==
  pc = "done" =>
    /\ \A i, j \in DOMAIN ms :
         i < j => \/ ms[i].transaction < ms[j].transaction
                  \/ /\ ms[i].transaction = 0 /\ ms[j].transaction = 0
                     /\ ms[i].output < ms[j].output
    /\ \A i, j \in DOMAIN ms :
         /\ ms[i].msg.type = "M3" /\ ms[j].msg.type = "M3"
         /\ ms[i].msg.slot = ms[j].msg.slot
         => i = j

\* A block is good only if each of its M8s, expired or not, has an M7 output in
\* the coinbase with its slot and its hash; and the M8s that are left bid on the
\* parent of this very block (enforcer.go:593-633).
BmmMatched ==
  pc = "done" =>
    /\ \A t \in DOMAIN block.txs :
         LET m8 == block.txs[t].out[1]
         IN m8.kind = "m8" =>
              \E c \in DOMAIN block.coinbase :
                /\ block.coinbase[c].ret
                /\ block.coinbase[c].tag = "M7"
                /\ block.coinbase[c].body = <<m8.slot>> \o m8.hash
    /\ \A i \in DOMAIN ms : ms[i].msg.type = "M8" => ms[i].msg.prev = block.prev

\* The ID of an M6 fixes what the withdrawal takes from the treasury: the fee
\* and the payouts it hashes are the whole difference, though the ID commits
\* neither to the new treasury output nor to the one spent (enforcer.go:423-510).
PayoutFixedByID ==
  \A i \in DOMAIN ms :
    ms[i].msg.type = "M6" =>
      LET tx == block.txs[ms[i].transaction]
          id == ms[i].msg.id
      IN tx.in[1].out.value - tx.out[1].value = id.fee + Sum(Values(id.payouts))

\* A transaction that is refused as ambiguous, and is no bid, moves nothing: a
\* deposit or a withdrawal of any amount has one reading (enforcer.go:540-569).
AmbiguousMovesNothing ==
  [][pc = "transactions" /\ next <= Len(block.txs) /\ pc' = "invalid" =>
       LET tx == block.txs[next]
       IN tx.out[1].kind # "m8" =>
            \A i \in Treasuries(tx.out) : \A j \in OldCtip(tx, i) :
              tx.out[i].value = tx.in[j].out.value]_vars

\* enforcer.go:563: "All non coinbase transactions in the block MUST be valid
\* according to transaction validation rules": a transaction that spends the
\* treasury of a slot is a deposit to that slot or a withdrawal from it.
TreasuryAccounted ==
  pc = "done" =>
    \A t \in DOMAIN block.txs : \A j \in Treasuries(Spent(block.txs[t])) :
      \E i \in DOMAIN ms :
        /\ ms[i].transaction = t
        /\ \/ /\ ms[i].msg.type = "M5"
              /\ \E d \in ms[i].msg.deposits : d.slot = block.txs[t].in[j].out.slot
           \/ /\ ms[i].msg.type = "M6"
              /\ ms[i].msg.slot = block.txs[t].in[j].out.slot
=============================================================================
