---------------------------- MODULE Transactions ----------------------------
(***************************************************************************)
(* The bytes a transaction is hashed with: the variable-length integers of *)
(* src/bitcoin/bitcoin.go, its Transaction.ID and that of                  *)
(* src/blkdat/blkdat.go, and hashTx, which the signature of an input is    *)
(* checked against.  SHA-256 is taken to be injective: a hash is what is   *)
(* hashed, as one cell.                                                    *)
(*                                                                         *)
(* A sequence of cells stands for the bytes.  A cell <<n>> is one byte, or *)
(* a field of fixed width: a number, an amount, a TxID.                    *)
(***************************************************************************)
EXTENDS ByteOrder, SequencesExt

CONSTANTS
  Numbers, \* records [n, rest]: a number and the bytes that follow it
  Pairs,   \* pairs of transactions
  Spends   \* pairs of records [tx, nIn, prevOut, hashType] that are signed; the
           \* script of prevOut is a record [decodes, instrcs], what Decode returns

VARIABLES
  given, \* an element of Numbers, Pairs or Spends
  text,  \* the bytes of a number
  got,   \* a number with its length, or the hashes of a pair
  pc

vars == <<given, text, got, pc>>

-----------------------------------------------------------------------------
(* What is written.  A length, as a number, takes eight bytes at most; a   *)
(* hash, an amount and the like are numbers.                               *)

Byte == 0..(Base - 1)
List(S) == {s \in Seq(S) : Len(s) < Power[8]}

TxIn == [prevOut : [txID : Nat, vout : Nat], script : List(Byte), sequence : Nat]
TxOut == [amount : Nat, script : List(Byte)]
Tx == [version : Nat, input : List(TxIn), output : List(TxOut), lockTime : Nat]

IsSpend(s) ==
  /\ s.tx \in Tx
  /\ s.nIn \in DOMAIN s.tx.input
  /\ s.prevOut.amount \in Nat
  /\ s.hashType \in Nat

\* Instanced: the module that instances it checks this.  The last three values of a
\* byte announce a number of several bytes.
TransactionsAssumption ==
  /\ Base \in Nat /\ Base > 3
  /\ Numbers \subseteq [n : 0..(Power[8] - 1), rest : Seq(Byte)]
  /\ Pairs \subseteq Tx \X Tx
  /\ \A p \in Spends : IsSpend(p[1]) /\ IsSpend(p[2])

-----------------------------------------------------------------------------
\* Mutated form of AppendVarInt: two bytes are used for one number too many.
AppendVarInt_late(b, n) ==
  b \o CASE n < Base - 3 -> <<n>>
         [] n >= Base - 3 /\ n <= Power[2] -> <<Base - 3>> \o LittleEndian(n, 2)
         [] n > Power[2] /\ n <= Power[4] - 1 -> <<Base - 2>> \o LittleEndian(n, 4)
         [] n >= Power[4] -> <<Base - 1>> \o LittleEndian(n, 8)

AppendVarInt(b, n) ==
  b \o CASE n < Base - 3 -> <<n>>
         [] n >= Base - 3 /\ n <= Power[2] - 1 -> <<Base - 3>> \o LittleEndian(n, 2)
         [] n >= Power[2] /\ n <= Power[4] - 1 -> <<Base - 2>> \o LittleEndian(n, 4)
         [] n >= Power[4] -> <<Base - 1>> \o LittleEndian(n, 8)

\* The number, and how many bytes it took.
DecodeVarInt(data) ==
  LET width == CASE data[1] = Base - 3 -> 2
                 [] data[1] = Base - 2 -> 4
                 [] data[1] = Base - 1 -> 8
                 [] OTHER -> 0
  IN IF width = 0 THEN <<data[1], 1>> ELSE <<Number(SubSeq(data, 2, width + 1)), width + 1>>

-----------------------------------------------------------------------------
Cells(b) == [i \in DOMAIN b |-> <<b[i]>>]
VarInt(n) == Cells(AppendVarInt(<<>>, n))
Fixed(n) == <<<<n>>>>
DoubleSha256(cells) == <<<<"hash", cells>>>>

\* Mutated form of WithLength: the length is left out.
WithLength_bare(script) == Cells(script)

\* A script after its length.
WithLength(script) == VarInt(Len(script)) \o Cells(script)

Outpoint(o) == Fixed(o.txID) \o Fixed(o.vout)
Output(out) == Fixed(out.amount) \o WithLength(out.script)

All(Bytes(_), s) == FlattenSeq([i \in DOMAIN s |-> Bytes(s[i])])

ID(tx) ==
  LET Input(inp) == Outpoint(inp.prevOut) \o WithLength(inp.script) \o Fixed(inp.sequence)
  IN DoubleSha256(Fixed(tx.version)
                    \o VarInt(Len(tx.input)) \o All(Input, tx.input)
                    \o VarInt(Len(tx.output)) \o All(Output, tx.output)
                    \o Fixed(tx.lockTime))

-----------------------------------------------------------------------------
SIGHASH_NONE == 2
SIGHASH_SINGLE == 3
SIGHASH_ANYONECANPAY == 128

AnyoneCanPay(hashType) == (hashType \div SIGHASH_ANYONECANPAY) % 2 = 1
Last5(hashType) == hashType % 32

\* The script of P2PKH for the second instruction of the script of an output, as
\* one push; script.Encode is injective.
p2pkhScript(script) == <<<<"p2pkh", script.instrcs[2]>>>>

SignsAll(hashType) == Last5(hashType) \notin {SIGHASH_SINGLE, SIGHASH_NONE}

\* An input that has an output of its own.
SignsOne(s) == Last5(s.hashType) = SIGHASH_SINGLE /\ s.nIn <= Len(s.tx.output)

\* The outputs that a hash type commits to.
SignedOutputs(s) ==
  CASE SignsAll(s.hashType) -> s.tx.output
    [] SignsOne(s) -> <<s.tx.output[s.nIn]>>
    [] OTHER -> <<>>

\* Mutated form of SignsSequences: ALL leaves them open.
SignsSequences_never(hashType) == FALSE

SignsSequences(hashType) == ~AnyoneCanPay(hashType) /\ SignsAll(hashType)

\* What is hashed for the signature of the input nIn, counted from 1.
hashTx(s) ==
  LET input == s.tx.input[s.nIn]
      PrevOut(inp) == Outpoint(inp.prevOut)
      Sequence(inp) == Fixed(inp.sequence)
  IN Fixed(s.tx.version)
       \o (IF AnyoneCanPay(s.hashType) THEN <<>> ELSE DoubleSha256(All(PrevOut, s.tx.input)))
       \o (IF SignsSequences(s.hashType) THEN DoubleSha256(All(Sequence, s.tx.input)) ELSE <<>>)
       \o Outpoint(input.prevOut)
       \o p2pkhScript(s.prevOut.script)
       \o Fixed(s.prevOut.amount)
       \o Fixed(input.sequence)
       \o DoubleSha256(All(Output, SignedOutputs(s)))
       \o Fixed(s.tx.lockTime)
       \o Fixed(s.hashType)

-----------------------------------------------------------------------------
Init ==
  /\ \/ given \in Numbers /\ pc = "append"
     \/ given \in Pairs /\ pc = "identify"
     \/ given \in Spends /\ pc = "sign"
  /\ text = <<>>
  /\ got = <<>>

append ==
  /\ pc = "append"
  /\ text' = AppendVarInt(<<>>, given.n) \o given.rest
  /\ pc' = "appended"
  /\ UNCHANGED <<given, got>>

decode ==
  /\ pc = "appended"
  /\ got' = DecodeVarInt(text)
  /\ pc' = "decoded"
  /\ UNCHANGED <<given, text>>

identify ==
  /\ pc = "identify"
  /\ got' = <<ID(given[1]), ID(given[2])>>
  /\ pc' = "identified"
  /\ UNCHANGED <<given, text>>

\* A script of one instruction has no instrcs[1].
sign ==
  /\ pc = "sign"
  /\ LET scripts == {given[i].prevOut.script : i \in 1..2}
     IN \/ /\ \A s \in scripts : s.decodes /\ Len(s.instrcs) >= 2
           /\ got' = <<hashTx(given[1]), hashTx(given[2])>>
           /\ pc' = "signed"
        \/ /\ \E s \in scripts : ~s.decodes
           /\ pc' = "error"
           /\ UNCHANGED got
        \/ /\ \E s \in scripts : s.decodes /\ Len(s.instrcs) < 2
           /\ pc' = "panicked"
           /\ UNCHANGED got
  /\ UNCHANGED <<given, text>>

Next == append \/ decode \/ identify \/ sign

Spec == Init /\ [][Next]_vars

-----------------------------------------------------------------------------
\* A number is read back from the bytes it was written as, and the reader stops
\* where they end, at every change of width (bitcoin.go:42-74).
VarIntRoundTrip ==
  pc = "decoded" => got = <<given.n, Len(text) - Len(given.rest)>>

\* Two transactions with the same ID have the same version, inputs, outputs and
\* lock time: no byte of a script can be taken for a length, an amount or a
\* count (bitcoin.go:17-40, blkdat.go:54-77).
IDBinds == pc = "identified" /\ got[1] = got[2] => given[1] = given[2]

\* What a signature of an input vouches for.
Committed(s) ==
  LET input == s.tx.input[s.nIn]
  IN <<s.hashType, s.tx.version, s.tx.lockTime, input.prevOut, input.sequence,
       s.prevOut.amount, s.prevOut.script.instrcs[2],
       IF AnyoneCanPay(s.hashType) THEN <<>>
       ELSE [i \in DOMAIN s.tx.input |-> s.tx.input[i].prevOut],
       IF AnyoneCanPay(s.hashType) \/ ~SignsAll(s.hashType) THEN <<>>
       ELSE [i \in DOMAIN s.tx.input |-> s.tx.input[i].sequence],
       SignedOutputs(s)>>

\* A signature is good for one spend only: two spends that hash alike have the
\* same hash type and the same of everything it commits to (blkdat.go:171-230).
SighashBinds ==
  pc = "signed" /\ got[1] = got[2] => Committed(given[1]) = Committed(given[2])

\* What BIP143 hashes: a field that a hash type leaves open is 32 zeros, and so
\* is the hash of no outputs.
BIP143(s) ==
  LET input == s.tx.input[s.nIn]
      PrevOut(inp) == Outpoint(inp.prevOut)
      Sequence(inp) == Fixed(inp.sequence)
      OrZeros(signed, cells) == IF signed THEN DoubleSha256(cells) ELSE <<<<"zeros">>>>
  IN Fixed(s.tx.version)
       \o OrZeros(~AnyoneCanPay(s.hashType), All(PrevOut, s.tx.input))
       \o OrZeros(SignsSequences(s.hashType), All(Sequence, s.tx.input))
       \o Outpoint(input.prevOut) \o p2pkhScript(s.prevOut.script)
       \o Fixed(s.prevOut.amount) \o Fixed(input.sequence)
       \o OrZeros(SignsAll(s.hashType) \/ SignsOne(s), All(Output, SignedOutputs(s)))
       \o Fixed(s.tx.lockTime) \o Fixed(s.hashType)

\* hashTx is the hash of BIP143 for every hash type (blkdat.go:171).
HashedAsBIP143 == pc = "signed" => got[1] = BIP143(given[1])
=============================================================================
