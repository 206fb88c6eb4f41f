------------------------------- MODULE BlkFile -------------------------------
(***************************************************************************)
(* The reader of bitcoind's blk*.dat files, src/blkdat/blkdat.go.          *)
(*                                                                         *)
(* Fields keep their order and their reader and have the widths of the     *)
(* constants of BlkFormat.  What the reader has still to read of a block   *)
(* is a list of fields, plan: a count that has been read is replaced by    *)
(* that many copies of what it counts, as the loops of readBlock and       *)
(* readTransaction do.                                                     *)
(***************************************************************************)
EXTENDS BlkFormat

CONSTANT
  Files     \* records [key, raw, chain, whole]: the byte of xor.dat, the bytes of
            \* a file, the lists of transactions its headers commit to, and
            \* whether it is undamaged

\* XOR with the key: an involution that swaps zero and the key.
xor(key, c) == CASE c = <<0>> -> <<key>> [] c = <<key>> -> <<0>> [] OTHER -> c

unxor(key, raw) == [i \in DOMAIN raw |-> xor(key, raw[i])]

\* A field: its reader, its cells, and whether it is part of a transaction's ID.
Field(op, n, id) == [op |-> op, n |-> n, id |-> id]
Fixed(n) == Field("fixed", n, TRUE)
Bytes(n) == Field("bytes", n, TRUE)
Header(n) == Field("bytes", n, FALSE)
Count(what, id) == [op |-> what, n |-> 1, id |-> id]
Step(op) == [op |-> op, n |-> 0, id |-> FALSE]

Copies(n, fields) == FlattenSeq([i \in 1..n |-> fields])

BlockFields ==
  <<Field("magic", Word, FALSE), Field("fixed", Word, FALSE), Header(Word), Header(Wide),
    Field("merkle", Wide, FALSE), Field("fixed", Word, FALSE), Header(Word), Header(Word),
    Step("header"), Count("transactions", FALSE), Step("block")>>

TransactionFields ==
  <<Fixed(Word), Step("marker"), Count("inputs", TRUE), Count("outputs", TRUE),
    Step("witnesses"), Fixed(Word), Step("transaction")>>

InputFields == <<Bytes(Wide), Fixed(Word), Count("script", TRUE), Bytes(Word)>>
OutputFields == <<Fixed(Amount), Count("script", TRUE)>>

VARIABLES
  file,
  offset, boffset, \* p.offset, and the offset of the current block
  err,             \* whether p.err is set
  plan,
  segwit, inputLen, seen, \* of the transaction being read
  root, txs,              \* of the block being read
  blocks,
  status  \* "reading", "done", "error" or "panicked"

txVars == <<segwit, inputLen, seen>>
blockVars == <<root, txs, blocks>>
vars == <<file, offset, boffset, err, plan, txVars, blockVars, status>>

data == unxor(file.key, file.raw)

Init ==
  /\ file \in Files
  /\ offset = 0 /\ boffset = 0
  /\ err = FALSE
  /\ plan = <<>>
  /\ segwit = FALSE /\ inputLen = 0 /\ seen = <<>>
  /\ root = <<>> /\ txs = <<>> /\ blocks = <<>>
  /\ status = "reading"

\* Mutated form of isEndOfFile: zeros are looked for after the XOR.
isEndOfFile_unxored(raw, from) == \A i \in (from + 1)..Len(raw) : data[i] = <<0>>

\* The raw bytes from an offset on are zero: what bitcoind has preallocated.
isEndOfFile(raw, from) == \A i \in (from + 1)..Len(raw) : raw[i] = <<0>>

\* readBlock returns an error.
Stop == status' = IF isEndOfFile(file.raw, boffset) THEN "done" ELSE "error"

\* The loop of read.
nextBlock ==
  /\ status = "reading" /\ plan = <<>>
  /\ \/ /\ offset < Len(data)
        /\ plan' = BlockFields
        /\ boffset' = offset
        /\ txs' = <<>>
        /\ UNCHANGED status
     \/ /\ offset >= Len(data)
        /\ status' = "done"
        /\ UNCHANGED <<plan, boffset, txs>>
  /\ UNCHANGED <<file, offset, err, txVars, root, blocks>>

At(ops) == status = "reading" /\ plan # <<>> /\ Head(plan).op \in ops

Counts == {"transactions", "inputs", "outputs", "script", "witnesses of input", "item"}

Readers == {"fixed", "magic", "bytes", "merkle"} \cup Counts

Value == SubSeq(data, offset + 1, offset + Head(plan).n)

\* Once p.err is set every reader returns at once; the loops run no further.
skipField ==
  /\ err /\ At(Readers)
  /\ plan' = Tail(plan)
  /\ UNCHANGED <<file, offset, boffset, err, txVars, blockVars, status>>

\* A slice beyond the data: readInt32, readInt64, readTime, readByte, varInt
\* and checkMagic do not look at the length.
readBeyond ==
  /\ ~err /\ At({"fixed", "magic"} \cup Counts)
  /\ offset + Head(plan).n > Len(data)
  /\ status' = "panicked"
  /\ UNCHANGED <<file, offset, boffset, err, plan, txVars, blockVars>>

\* readBytes wants a byte after those it reads.
readTooFar ==
  /\ ~err /\ At({"bytes", "merkle"})
  /\ offset + Head(plan).n >= Len(data)
  /\ err' = TRUE
  /\ plan' = Tail(plan)
  /\ UNCHANGED <<file, offset, boffset, txVars, blockVars, status>>

Seen == seen' = IF Head(plan).id THEN Append(seen, Value) ELSE seen

readField ==
  /\ ~err /\ At({"fixed", "bytes", "merkle"})
  /\ \/ Head(plan).op = "fixed" /\ offset + Head(plan).n <= Len(data)
     \/ Head(plan).op # "fixed" /\ offset + Head(plan).n < Len(data)
  /\ Seen
  /\ root' = IF Head(plan).op = "merkle" THEN Value ELSE root
  /\ offset' = offset + Head(plan).n
  /\ plan' = Tail(plan)
  /\ UNCHANGED <<file, boffset, err, segwit, inputLen, txs, blocks, status>>

checkMagic ==
  /\ ~err /\ At({"magic"})
  /\ offset + Word <= Len(data)
  /\ \/ /\ Value = MagicBytes
        /\ offset' = offset + Word
        /\ UNCHANGED err
     \/ /\ Value # MagicBytes
        /\ err' = TRUE
        /\ UNCHANGED offset
  /\ plan' = Tail(plan)
  /\ UNCHANGED <<file, boffset, txVars, blockVars, status>>

\* What n of a count stands for.
Counted(what, n) ==
  CASE what = "transactions" -> Copies(n, TransactionFields)
    [] what = "inputs" -> Copies(n, InputFields)
    [] what = "outputs" -> Copies(n, OutputFields)
    [] what = "script" -> <<Bytes(n)>>
    [] what = "witnesses of input" -> Copies(n, <<Count("item", FALSE)>>)
    [] what = "item" -> <<Header(n)>>

varInt ==
  /\ ~err /\ At(Counts)
  /\ offset < Len(data)
  /\ plan' = Counted(Head(plan).op, Size(Value[1])) \o Tail(plan)
  /\ inputLen' = IF Head(plan).op = "inputs" THEN Size(Value[1]) ELSE inputLen
  /\ Seen
  /\ offset' = offset + 1
  /\ UNCHANGED <<file, boffset, err, segwit, blockVars, status>>

\* The marker 0 and the flag of a segwit transaction; anything else is the
\* count of the inputs and is read again.
readMarker ==
  /\ At({"marker"})
  /\ \/ /\ err
        /\ segwit' = FALSE /\ offset' = offset - 1
        /\ UNCHANGED status
     \/ /\ ~err /\ offset + 2 <= Len(data) /\ data[offset + 1] = <<0>>
        /\ segwit' = TRUE /\ offset' = offset + 2
        /\ UNCHANGED status
     \/ /\ ~err /\ offset + 1 <= Len(data) /\ data[offset + 1] # <<0>>
        /\ segwit' = FALSE
        /\ UNCHANGED <<offset, status>>
     \/ /\ ~err
        /\ \/ offset + 1 > Len(data)
           \/ offset + 1 = Len(data) /\ data[offset + 1] = <<0>>
        /\ status' = "panicked"
        /\ UNCHANGED <<segwit, offset>>
  /\ plan' = Tail(plan)
  /\ UNCHANGED <<file, boffset, err, inputLen, seen, blockVars>>

readWitnesses ==
  /\ At({"witnesses"})
  /\ plan' = (IF segwit /\ ~err THEN Copies(inputLen, <<Count("witnesses of input", FALSE)>>)
              ELSE <<>>) \o Tail(plan)
  /\ UNCHANGED <<file, offset, boffset, err, txVars, blockVars, status>>

\* Mutated form of endHeader: at the end of the file the loop goes on.
endHeader_goesOn ==
  /\ At({"header"})
  /\ status' = IF err /\ ~isEndOfFile(file.raw, boffset) THEN "error" ELSE status
  /\ plan' = IF err THEN <<>> ELSE Tail(plan)
  /\ seen' = <<>>
  /\ UNCHANGED <<file, offset, boffset, err, segwit, inputLen, blockVars>>

\* The tests of p.err after the header and after each transaction.
endHeader ==
  /\ At({"header"})
  /\ IF err THEN Stop ELSE UNCHANGED status
  /\ plan' = Tail(plan)
  /\ seen' = <<>>
  /\ UNCHANGED <<file, offset, boffset, err, segwit, inputLen, blockVars>>

endTransaction ==
  /\ At({"transaction"})
  /\ IF err THEN Stop /\ UNCHANGED txs ELSE txs' = Append(txs, seen) /\ UNCHANGED status
  /\ plan' = Tail(plan)
  /\ seen' = <<>>
  /\ UNCHANGED <<file, offset, boffset, err, segwit, inputLen, root, blocks>>

\* Mutated form of RootMatches: the flag is dropped.
RootMatches_anyTree(ts) == root = RootBytes(computeTxMerkleRoot(ts).root)

RootMatches(ts) ==
  LET r == computeTxMerkleRoot(ts)
  IN root = RootBytes(r.root) /\ ~r.mutated

\* The check of the Merkle root; hashes[0] of no transactions is out of range.
endBlock ==
  /\ At({"block"})
  /\ \/ /\ txs # <<>> /\ RootMatches(txs)
        /\ blocks' = Append(blocks, txs)
        /\ UNCHANGED status
     \/ /\ txs # <<>> /\ ~RootMatches(txs)
        /\ Stop
        /\ UNCHANGED blocks
     \/ /\ txs = <<>>
        /\ status' = "panicked"
        /\ UNCHANGED blocks
  /\ plan' = Tail(plan)
  /\ UNCHANGED <<file, offset, boffset, err, txVars, root, txs>>

Next ==
  \/ nextBlock \/ skipField \/ readBeyond \/ readTooFar \/ readField \/ checkMagic
  \/ varInt \/ readMarker \/ readWitnesses \/ endHeader \/ endTransaction \/ endBlock

Spec == Init /\ [][Next]_vars

\* One loop that runs on.
FairSpec == Spec /\ WF_vars(Next)

-----------------------------------------------------------------------------
\* What read returns without an error is every block whose header the file
\* holds, in order, with the transactions the header commits to: a torn or
\* forged block never passes and never hides the blocks (blkdat.go:252-312).
ReadsTheChain == status = "done" => file.whole /\ blocks = file.chain

\* A file of whole blocks, with or without preallocated zeros after them, is
\* read to its end, whatever the XOR key (blkdat.go:259-271, 507-533).
WholeFilesRead == file.whole => status \notin {"error", "panicked"}

\* The reader comes to an end, although the counts it loops over are read from
\* the data it may be lost in (blkdat.go:259-312, 404-442).
Ends == <>(status # "reading")
=============================================================================
