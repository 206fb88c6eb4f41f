------------------------------ MODULE BlkFormat ------------------------------
(***************************************************************************)
(* Where the blocks of a file lie and what they say: the format that the   *)
(* reader of BlkFile reads field by field.  A file is a sequence of cells: *)
(* <<n>> stands for a byte, or a few bytes of a field, and <<"root", h>>   *)
(* for the bytes of a Merkle root.                                         *)
(***************************************************************************)
EXTENDS Integers, Sequences, SequencesExt, MerkleTree

CONSTANTS
  Magic,       \* the value of the magic bytes
  Word,        \* cells of a 32-bit field
  Wide,        \* cells of a hash
  Amount,      \* cells of an amount
  RootByte(_)  \* the number that is read at the bytes of a Merkle root

ASSUME WidthsAssumption == {Word, Wide, Amount} \subseteq Nat \ {0}

\* The count that a cell is.
Size(c) == IF Len(c) = 1 THEN c[1] ELSE RootByte(c[2])

MagicBytes == [i \in 1..Word |-> <<Magic>>]
RootBytes(h) == [i \in 1..Wide |-> <<"root", h>>]

\* The n cells at offset o of the data d, and the count there.
Cut(d, o, n) == SubSeq(d, o + 1, o + n)
CountAt(d, o) == IF o + 1 \in DOMAIN d THEN Size(d[o + 1]) ELSE 0

\* The offsets of the parts that follow one another from o on: part k + 1 starts
\* where part k ends.
Starts(end, o) == LET s[k \in Nat] == IF k = 0 THEN o ELSE end[s[k - 1]] IN s

EndOf(end, o, n) == Starts(end, o)[n]

\* What the n parts at o have in them.
Contents(ids, end, o, n) == FlattenSeq([i \in 1..n |-> ids[Starts(end, o)[i - 1]]])

-----------------------------------------------------------------------------
(* A transaction: where its parts end, and the fields that its ID covers.  *)

scriptEnd(d) == [o \in Nat |-> o + 1 + CountAt(d, o)]
scriptIds(d) == [o \in Nat |-> <<Cut(d, o, 1), Cut(d, o + 1, CountAt(d, o))>>]

inputEnd(d) == [o \in Nat |-> scriptEnd(d)[o + Wide + Word] + Word]
inputIds(d) ==
  [o \in Nat |->
     <<Cut(d, o, Wide), Cut(d, o + Wide, Word)>> \o scriptIds(d)[o + Wide + Word]
       \o <<Cut(d, scriptEnd(d)[o + Wide + Word], Word)>>]

outputEnd(d) == [o \in Nat |-> scriptEnd(d)[o + Amount]]
outputIds(d) == [o \in Nat |-> <<Cut(d, o, Amount)>> \o scriptIds(d)[o + Amount]]

\* The witness of an input is a number of items, each written like a script.
witnessEnd(d) == [o \in Nat |-> EndOf(scriptEnd(d), o + 1, CountAt(d, o))]

IsSegwit(d, o) == o + Word + 1 \in DOMAIN d /\ d[o + Word + 1] = <<0>>

\* Where the counts of inputs and outputs of the transaction at o are, and its
\* last field.
parts(d) ==
  [o \in Nat |->
     LET inputs == o + Word + (IF IsSegwit(d, o) THEN 2 ELSE 0)
         outputs == EndOf(inputEnd(d), inputs + 1, CountAt(d, inputs))
         witnesses == EndOf(outputEnd(d), outputs + 1, CountAt(d, outputs))
     IN [inputs |-> inputs, outputs |-> outputs,
         lock |-> IF IsSegwit(d, o)
                  THEN EndOf(witnessEnd(d), witnesses, CountAt(d, inputs))
                  ELSE witnesses]]

transactionEnd(d) == [o \in Nat |-> parts(d)[o].lock + Word]

transactionId(d) ==
  [o \in Nat |->
     LET p == parts(d)[o]
     IN <<Cut(d, o, Word), Cut(d, p.inputs, 1)>>
          \o Contents(inputIds(d), inputEnd(d), p.inputs + 1, CountAt(d, p.inputs))
          \o <<Cut(d, p.outputs, 1)>>
          \o Contents(outputIds(d), outputEnd(d), p.outputs + 1, CountAt(d, p.outputs))
          \o <<Cut(d, p.lock, Word)>>]

-----------------------------------------------------------------------------
(* A block, and the blocks of a file.                                      *)

rootAt(o) == o + 3 * Word + Wide
transactionsAt(o) == o + 6 * Word + 2 * Wide

blockEnd(d) ==
  [o \in Nat |-> EndOf(transactionEnd(d), transactionsAt(o) + 1, CountAt(d, transactionsAt(o)))]

\* The IDs of the transactions of the block at o.
Transactions(d, o) ==
  [i \in 1..CountAt(d, transactionsAt(o)) |->
     transactionId(d)[Starts(transactionEnd(d), transactionsAt(o) + 1)[i - 1]]]

HasMagic(d, o) == Cut(d, o, Word) = MagicBytes

\* All of a block is there, whatever its header commits to.
IsComplete(d, o) == blockEnd(d)[o] <= Len(d) /\ HasMagic(d, o)

\* A block whose header commits to its transactions.
IsBlock(d, o) ==
  /\ IsComplete(d, o)
  /\ Transactions(d, o) # <<>>
  /\ LET r == computeTxMerkleRoot(Transactions(d, o))
     IN Cut(d, rootAt(o), Wide) = RootBytes(r.root) /\ ~r.mutated

\* The first n blocks of a file lie one after the other.
HasBlocks(d, n) == \A i \in 1..n : IsBlock(d, Starts(blockEnd(d), 0)[i - 1])

BlocksEnd(d, n) == EndOf(blockEnd(d), 0, n)

BlocksOf(d, n) == [i \in 1..n |-> Transactions(d, Starts(blockEnd(d), 0)[i - 1])]
=============================================================================
