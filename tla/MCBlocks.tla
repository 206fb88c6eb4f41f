------------------------------ MODULE MCBlocks ------------------------------
(***************************************************************************)
(* Instances for TLC of the block file reader, and, side by side with it,  *)
(* of the loop that computes a Merkle root over more transactions than the *)
(* blocks of the files have.                                               *)
(***************************************************************************)
EXTENDS BlkFile

CONSTANTS
  Keys,    \* the XOR keys
  Padding, \* the numbers of zeros after the last block
  Tears    \* whether torn and forged files are among the files

n32(v) == [i \in 1..Word |-> <<v>>]
hash(v) == [i \in 1..Wide |-> <<v>>]
amount(v) == [i \in 1..Amount |-> <<v>>]

Script(s) == <<<<Len(s)>>>> \o s
OneInput(s) == hash(3) \o n32(1) \o Script(s) \o n32(2)
OneOutput(s) == amount(2) \o Script(s)

\* The ID of a transaction with one input and one output, the fields as read.
IdOf(si, so) ==
  <<n32(2), <<<<1>>>>, hash(3), n32(1), <<<<Len(si)>>>>, si, n32(2),
    <<<<1>>>>, amount(2), <<<<Len(so)>>>>, so, n32(4)>>

legacy ==
  [id |-> IdOf(<<>>, <<<<1>>>>),
   bytes |-> n32(2) \o <<<<1>>>> \o OneInput(<<>>) \o <<<<1>>>> \o OneOutput(<<<<1>>>>) \o n32(4)]

\* The same fields, and a witness of two items.
Segwit(si, so, items) ==
  [id |-> IdOf(si, so),
   bytes |-> n32(2) \o <<<<0>>, <<1>>>> \o <<<<1>>>> \o OneInput(si) \o <<<<1>>>> \o OneOutput(so)
             \o <<<<Len(items)>>>> \o FlattenSeq([i \in DOMAIN items |-> Script(items[i])]) \o n32(4)]

segwit1 == Segwit(<<<<0>>>>, <<>>, <<<<<<5>>>>, <<>>>>)
segwit2 == Segwit(<<>>, <<<<0>>>>, <<<<<<0>>>>>>)

Ids(ts) == [i \in DOMAIN ts |-> ts[i].id]

\* A block of the transactions ts whose header commits to the list own.
Encoded(own, ts) ==
  n32(Magic) \o n32(7) \o n32(1) \o hash(0) \o RootBytes(computeTxMerkleRoot(Ids(own)).root)
    \o n32(5) \o n32(6) \o n32(0) \o <<<<Len(ts)>>>>
    \o FlattenSeq([i \in DOMAIN ts |-> ts[i].bytes])

BlockLists == {<<legacy>>, <<segwit1>>, <<legacy, segwit1, segwit2>>}

Chains == {<<>>} \cup {<<b>> : b \in BlockLists} \cup {<<b, c>> : b \in BlockLists, c \in BlockLists}

ChainBytes(c) == FlattenSeq([i \in DOMAIN c |-> Encoded(c[i], c[i])])
Zeros(n) == [i \in 1..n |-> <<0>>]

\* bitcoind writes the bytes through the key, and the padding without it.
File(key, c, content, n, whole) ==
  [key |-> key, raw |-> unxor(key, content) \o Zeros(n),
   chain |-> [i \in DOMAIN c |-> Ids(c[i])], whole |-> whole]

WholeFiles == {File(k, c, ChainBytes(c), n, TRUE) : k \in Keys, c \in Chains, n \in Padding}

\* The last block cut at any cell, with or without zeros after it.
TornFiles ==
  UNION {{File(k, <<b>>, SubSeq(ChainBytes(<<b, c>>), 1, cut), n, FALSE) :
            cut \in (Len(ChainBytes(<<b>>)) + 1)..(Len(ChainBytes(<<b, c>>)) - 1),
            k \in Keys, n \in Padding}
          : b \in {<<segwit1>>}, c \in {<<legacy>>, <<legacy, segwit1, segwit2>>}}

\* The transactions are not those of the header: another one, one missing, and
\* the last one twice.
ForgedFiles ==
  {File(k, <<own>>, Encoded(own, ts), n, FALSE) :
     own \in {<<legacy, segwit1, segwit2>>},
     ts \in {<<legacy, segwit1, segwit1>>, <<legacy, segwit1>>,
             <<legacy, segwit1, segwit2, segwit2>>},
     k \in Keys, n \in Padding}

NoneOrMany == {0, 2, 70}

MCFiles == WholeFiles \cup (IF Tears THEN TornFiles \cup ForgedFiles ELSE {})

\* No file has a count where a Merkle root is.
FirstByte(h) == 0

\* A file is its cells, and each cell can be read as a count.
ASSUME CellsAssumption ==
  \A f \in Files :
    /\ Len(f.raw) \in Nat /\ f.raw = [i \in 1..Len(f.raw) |-> f.raw[i]]
    /\ \A i \in 1..Len(f.raw) : Size(unxor(f.key, f.raw)[i]) \in Nat

\* The file has zeros from an offset on.
IsZeros(f, o) == \A i \in 1..Len(f.raw) : i > o => f.raw[i] = <<0>>

\* What is left of the file from an offset on is padding: as little as nothing,
\* or enough to see that it is not a block.
IsPadding(f, o) ==
  /\ IsZeros(f, o)
  /\ \/ o = Len(f.raw)
     \/ o + Word <= Len(f.raw) /\ ~HasMagic(unxor(f.key, f.raw), o)

\* The chain of an undamaged file are its blocks, and after them is padding.  A
\* damaged file has, after its blocks, something that is neither.
ASSUME FilesAssumption ==
  \A f \in Files :
    LET d == unxor(f.key, f.raw)
    IN IF f.whole
       THEN /\ Len(f.chain) \in Nat /\ HasBlocks(d, Len(f.chain))
            /\ f.chain = BlocksOf(d, Len(f.chain))
            /\ IsPadding(f, BlocksEnd(d, Len(f.chain)))
       ELSE \E n \in 0..Len(f.raw) :
              /\ HasBlocks(d, n)
              /\ ~IsBlock(d, BlocksEnd(d, n))
              /\ ~IsZeros(f, BlocksEnd(d, n))

-----------------------------------------------------------------------------
CONSTANT MaxLen \* bound: transactions of a list of two different ones

\* Every list of two transactions, the list of distinct ones of each length, and
\* distinct ones with the last repeated as an odd level would repeat them.
Lists ==
  UNION {[1..n -> {1, 2}] : n \in 1..MaxLen} \cup {[i \in 1..n |-> i] : n \in 1..9}
    \cup {[i \in 1..r.n |-> IF i > r.m THEN i - (r.n - r.m) ELSE i] :
            r \in {[n |-> 4, m |-> 3], [n |-> 8, m |-> 6], [n |-> 6, m |-> 5]}}

VARIABLES list, hashes, mutation

treeVars == <<list, hashes, mutation>>

Tree == INSTANCE Merkle WITH txs <- list

ASSUME TreeAssumption == Tree!ListsAssumption

FileInit == Init /\ list = <<>> /\ hashes = <<>> /\ mutation = FALSE

TreeInit ==
  /\ Tree!Init
  /\ file = [key |-> 0, raw |-> <<>>, chain |-> <<>>, whole |-> FALSE]
  /\ offset = 0 /\ boffset = 0 /\ err = FALSE /\ plan = <<>>
  /\ segwit = FALSE /\ inputLen = 0 /\ seen = <<>>
  /\ root = <<>> /\ txs = <<>> /\ blocks = <<>>
  /\ status = "none"

FileNext == Next /\ UNCHANGED treeVars
TreeNext == Tree!Climb /\ UNCHANGED vars

\* Both are loops that run on.
BlocksSpec ==
  /\ FileInit \/ TreeInit
  /\ [][FileNext \/ TreeNext]_<<vars, treeVars>>
  /\ WF_<<vars, treeVars>>(FileNext)

\* An unflagged root stands for one list (RootBinds in Merkle; blkdat.go:303-309,
\* 375-397).
RootBinds == list # <<>> => Tree!RootBinds

\* A list of distinct transactions is never flagged (DistinctAccepted in Merkle;
\* blkdat.go:378-386).
DistinctAccepted == list # <<>> => Tree!DistinctAccepted
=============================================================================
