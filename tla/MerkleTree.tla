----------------------------- MODULE MerkleTree -----------------------------
(***************************************************************************)
(* computeMerkleRoot of src/blkdat/blkdat.go.  A hash is a leaf <<x>> or   *)
(* the hash <<l, r>> of two hashes: SHA-256 is taken to be injective.      *)
(***************************************************************************)
EXTENDS Integers, Sequences, SequencesExt

\* The test made on a level, before the last hash of an odd level is repeated.
EqualPair(hashes) ==
  \E i \in 1..(Len(hashes) \div 2) : hashes[2 * i - 1] = hashes[2 * i]

Padded(hashes) ==
  IF Len(hashes) % 2 = 1 THEN Append(hashes, hashes[Len(hashes)]) ELSE hashes

\* The next level.
Level(hashes) ==
  [i \in 1..(Len(Padded(hashes)) \div 2) |-> <<Padded(hashes)[2 * i - 1], Padded(hashes)[2 * i]>>]

\* A level with the flag so far, and the next one.
Up(l) ==
  IF Len(l.hashes) = 1 THEN l
  ELSE [hashes |-> Level(l.hashes), mutated |-> l.mutated \/ EqualPair(l.hashes)]

\* The root and the mutation flag of a nonempty list.
computeMerkleRoot(hashes) ==
  LET top == FoldLeft(LAMBDA l, h : Up(l), [hashes |-> hashes, mutated |-> FALSE], hashes)
  IN [root |-> top.hashes[1], mutated |-> top.mutated]

\* The IDs of the transactions are the leaves.
computeTxMerkleRoot(txs) == computeMerkleRoot([i \in DOMAIN txs |-> <<txs[i]>>])
=============================================================================
