------------------------------- MODULE Merkle -------------------------------
(* The loop of computeMerkleRoot (src/blkdat/blkdat.go), a level per step. *)
EXTENDS MerkleTree

CONSTANT Lists \* the lists of transactions

\* A list is a nonempty sequence.
ListsAssumption ==
  \A l \in Lists : Len(l) \in Nat \ {0} /\ l = [i \in 1..Len(l) |-> l[i]]

VARIABLES
  txs,     \* the transactions of the block
  hashes,  \* the current level
  mutation

vars == <<txs, hashes, mutation>>

Init ==
  /\ txs \in Lists
  /\ hashes = [i \in DOMAIN txs |-> <<txs[i]>>]
  /\ mutation = FALSE

\* Mutated form of Climb: the flag is that of the last level.
Climb_lastLevel ==
  /\ Len(hashes) > 1
  /\ mutation' = EqualPair(hashes)
  /\ hashes' = Level(hashes)
  /\ UNCHANGED txs

\* Mutated form of Climb: a pair is looked for after the padding.
Climb_padded ==
  /\ Len(hashes) > 1
  /\ mutation' = (mutation \/ EqualPair(Padded(hashes)))
  /\ hashes' = Level(hashes)
  /\ UNCHANGED txs

Climb ==
  /\ Len(hashes) > 1
  /\ mutation' = (mutation \/ EqualPair(hashes))
  /\ hashes' = Level(hashes)
  /\ UNCHANGED txs

Spec == Init /\ [][Climb]_vars

\* The lists that are not flagged, with their roots.
Unflagged ==
  LET all == {[txs |-> l, result |-> computeTxMerkleRoot(l)] : l \in Lists}
  IN {u \in all : ~u.result.mutated}

\* Without the flag the root stands for one list only: no other list, longer by
\* repeated transactions or groups of them, passes with the same root
\* (blkdat.go:303-309, 375-397).
RootBinds ==
  Len(hashes) = 1 /\ ~mutation =>
    \A u \in Unflagged : u.result.root = hashes[1] => u.txs = txs

\* The flag is no false alarm: a block whose transactions differ from one
\* another is never refused as mutated, whatever its length (blkdat.go:378-386).
DistinctAccepted ==
  mutation => \E i, j \in DOMAIN txs : i # j /\ txs[i] = txs[j]
=============================================================================
