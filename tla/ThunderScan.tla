----------------------------- MODULE ThunderScan -----------------------------
(***************************************************************************)
(* scan of src/thunder/scan.go, which reads the blocks of a Thunder node   *)
(* from its database and puts them in the order of the chain, while the    *)
(* node, another process, goes on connecting blocks.  ScanDB and each Get  *)
(* of src/util/lmdb.go are a read transaction of their own, so that each   *)
(* of them is one step, of the database as it then is.                     *)
(***************************************************************************)
EXTENDS Integers, Sequences, FiniteSets, SequencesExt

CONSTANTS
  Hashes,  \* block hashes: numbers, in the order of the keys of LMDB
  Bodyless \* BOOLEAN: whether the node may write a header before its body

ASSUME HashesAssumption ==
  /\ Hashes \subseteq Nat
  /\ IsFiniteSet(Hashes)
  /\ Bodyless \in BOOLEAN

None == -1 \* header.PrevSideHash == nil

VARIABLES
  headers,  \* the node's: from hash to the previous hash
  bodies,   \* the node's: the hashes that have a body
  keys,     \* what ScanDB returned and is not read yet
  header,   \* getBlockHeader's: the previous hash
  unsorted, \* blocksUnsorted
  blocks,
  pc,
  found     \* history: the hashes of the version of the database that ScanDB saw

node == <<headers, bodies>>
reading == <<keys, header, found>>
ordering == <<unsorted, blocks>>
vars == <<node, reading, ordering, pc>>

Block(h, prev) == [Hash |-> h, PrevSideHash |-> prev]

Init ==
  /\ headers \in UNION {[H -> Hashes \cup {None}] : H \in SUBSET Hashes}
  /\ \A h \in DOMAIN headers : headers[h] \in DOMAIN headers \cup {None}
  \* No block is its own ancestor.
  /\ \E age \in [Hashes -> 0..Cardinality(Hashes)] :
       \A h \in DOMAIN headers : headers[h] # None => age[headers[h]] < age[h]
  /\ bodies = DOMAIN headers
  /\ keys = <<>> /\ header = None /\ found = {}
  /\ unsorted = <<>> /\ blocks = <<>>
  /\ pc = "scan"

-----------------------------------------------------------------------------
(* The node.                                                               *)

\* Bound: what the node does after the last read is left out, as nothing sees it.
Seen == pc \in {"scan", "header", "body"} /\ (pc = "header" => keys # <<>>)

\* External: the node connects a block to one it has, or a first block.
Connect ==
  /\ Seen
  /\ \E h \in Hashes \ DOMAIN headers, prev \in DOMAIN headers \cup {None} :
       /\ headers' = [k \in DOMAIN headers \cup {h} |->
                        IF k = h THEN prev ELSE headers[k]]
       /\ \/ bodies' = bodies \cup {h}
          \/ Bodyless /\ UNCHANGED bodies
  /\ UNCHANGED <<reading, ordering, pc>>

\* External: the node writes a body it owed.
StoreBody ==
  /\ Seen
  /\ \E h \in DOMAIN headers \ bodies : bodies' = bodies \cup {h}
  /\ UNCHANGED <<headers, reading, ordering, pc>>

-----------------------------------------------------------------------------
\* Every key of one transaction, in their order.
ScanDB ==
  /\ pc = "scan"
  /\ \E s \in [1..Cardinality(DOMAIN headers) -> DOMAIN headers] :
       /\ \A i, j \in DOMAIN s : i < j => s[i] < s[j]
       /\ keys' = s
  /\ found' = DOMAIN headers
  /\ pc' = "header"
  /\ UNCHANGED <<node, header, ordering>>

\* A header is never removed, so that Get finds it.
getBlockHeader ==
  /\ pc = "header" /\ keys # <<>>
  /\ header' = headers[Head(keys)]
  /\ pc' = "body"
  /\ UNCHANGED <<node, keys, found, ordering>>

\* Mutated form of getBlockBody: a block without a body is passed over.
getBlockBody_passes ==
  /\ pc = "body"
  /\ unsorted' = IF Head(keys) \in bodies
                 THEN Append(unsorted, Block(Head(keys), header)) ELSE unsorted
  /\ keys' = Tail(keys)
  /\ header' = None
  /\ pc' = "header"
  /\ UNCHANGED <<node, found, blocks>>

\* The block of a header whose body is there; scan does not look into the body.
getBlockBody ==
  /\ pc = "body"
  /\ \/ /\ Head(keys) \in bodies
        /\ unsorted' = Append(unsorted, Block(Head(keys), header))
        /\ keys' = Tail(keys)
        /\ header' = None
        /\ pc' = "header"
     \/ /\ Head(keys) \notin bodies
        /\ pc' = "noBody"
        /\ UNCHANGED <<keys, header, unsorted>>
  /\ UNCHANGED <<node, found, blocks>>

Firsts == {i \in DOMAIN unsorted : unsorted[i].PrevSideHash = None}

Take(i) ==
  /\ blocks' = Append(blocks, unsorted[i])
  /\ unsorted' = RemoveAt(unsorted, i)

\* genesisI stays -1 without a genesis block: the index is out of range.
findGenesis ==
  /\ pc = "header" /\ keys = <<>>
  /\ \/ /\ Cardinality(Firsts) = 1
        /\ \E i \in Firsts : Take(i)
        /\ pc' = "grow"
     \/ /\ Cardinality(Firsts) # 1
        /\ pc' = IF Firsts = {} THEN "panicked" ELSE "duplicateGenesis"
        /\ UNCHANGED <<blocks, unsorted>>
  /\ UNCHANGED <<node, reading>>

\* Mutated form of Children: any block that is not taken yet.
Children_any == DOMAIN unsorted

\* Mutated form of Children: the children of the first block.
Children_ofFirst == {i \in DOMAIN unsorted : unsorted[i].PrevSideHash = blocks[1].Hash}

Children == {i \in DOMAIN unsorted : unsorted[i].PrevSideHash = Last(blocks).Hash}

\* Mutated form of grow: a missing child is waited for.
grow_waits ==
  /\ pc = "grow" /\ (unsorted = <<>> \/ Children # {})
  /\ \/ /\ unsorted # <<>>
        /\ \E i \in Children : (\A j \in Children : i <= j) /\ Take(i)
        /\ UNCHANGED pc
     \/ /\ unsorted = <<>>
        /\ pc' = "done"
        /\ UNCHANGED <<blocks, unsorted>>
  /\ UNCHANGED <<node, reading>>

\* The first block whose parent is the last of the chain; nextI stays -1 if
\* there is none.
grow ==
  /\ pc = "grow"
  /\ \/ /\ unsorted # <<>> /\ Children # {}
        /\ \E i \in Children : (\A j \in Children : i <= j) /\ Take(i)
        /\ UNCHANGED pc
     \/ /\ unsorted # <<>> /\ Children = {}
        /\ pc' = "panicked"
        /\ UNCHANGED <<blocks, unsorted>>
     \/ /\ unsorted = <<>>
        /\ pc' = "done"
        /\ UNCHANGED <<blocks, unsorted>>
  /\ UNCHANGED <<node, reading>>

scan == ScanDB \/ getBlockHeader \/ getBlockBody \/ findGenesis \/ grow

Next == scan \/ Connect \/ StoreBody

Spec == Init /\ [][Next]_vars

\* scan is a sequential function; the node owes nothing.
FairSpec == Spec /\ WF_vars(scan)

-----------------------------------------------------------------------------
Read == {blocks[i] : i \in DOMAIN blocks} \cup {unsorted[i] : i \in DOMAIN unsorted}

\* Two of the blocks read have the same parent, or none.
Forked == \E b, c \in Read : b # c /\ b.PrevSideHash = c.PrevSideHash

\* What scan returns starts at the genesis block, and each block follows its
\* parent, whichever blocks the node connected meanwhile and in whatever order
\* the hashes sort; they are blocks of the node (scan.go:36-66).
ChainInOrder ==
  pc = "done" =>
    /\ blocks[1].PrevSideHash = None
    /\ \A i \in 2..Len(blocks) : blocks[i].PrevSideHash = blocks[i - 1].Hash
    /\ \A i \in DOMAIN blocks : blocks[i].PrevSideHash = headers[blocks[i].Hash]

\* What scan returns is one version of the database, though it was read in many
\* transactions: each block that was there at ScanDB, once, and none that the
\* node has connected since (scan.go:18-34, 51-66).
OneVersion ==
  pc = "done" =>
    /\ {blocks[i].Hash : i \in DOMAIN blocks} = found
    /\ \A i, j \in DOMAIN blocks : blocks[i].Hash = blocks[j].Hash => i = j

\* Once every block is read, scan fails only if there was none or the chain had
\* forked: a block that the node connects meanwhile leaves no gap in what is
\* read, wherever its hash sorts (scan.go:36-63).
FailsForAReason ==
  pc \in {"panicked", "duplicateGenesis"} => Read = {} \/ Forked

\* scan ends, however many blocks the node goes on connecting (scan.go:51-64).
ScanEnds ==
  pc = "scan" ~> pc \in {"done", "noBody", "duplicateGenesis", "panicked"}
=============================================================================
