----------------------------- MODULE Coinbases -----------------------------
(***************************************************************************)
(* Block.Height of src/blkdat/blkdat.go, called on blocks that read has    *)
(* returned, in any order.  The parser copies nothing: a script, as every  *)
(* field of bytes, is a slice of the one buffer that the file was read     *)
(* into, and its capacity reaches to the end of the buffer.                *)
(*                                                                         *)
(* A buffer is a sequence of numbers.  Of a block there is the transaction *)
(* its height is read from, the coinbase, as the slices that the parser    *)
(* made of it: the script of its input, which begins with the height, the  *)
(* sequence after it, the script of an output.                             *)
(***************************************************************************)
EXTENDS ByteOrder, FiniteSetsExt

CONSTANTS
  Word64, \* bytes of a uint64 (8)
  Buffers \* records [bytes, blocks]; a block is [slices, height]: each slice has
          \* its offset and its length, and height is what BIP34 has it say

\* The first byte of a script is the length of the height, and the scripts are
\* further apart than Height looks or writes, as there is a header in between.
IsBlock(bytes, block) ==
  LET script == block.slices[1]
      l == bytes[script.from + 1]
  IN /\ script.from \in Nat /\ script.len \in Nat
     /\ script.len > 0 /\ script.from + script.len <= Len(bytes)
     /\ l < script.len /\ l <= Word64
     /\ block.height = Number(SubSeq(bytes, script.from + 2, script.from + 1 + l))

\* Instanced: the module that instances it checks this.
BuffersAssumption ==
  /\ Word64 \in Nat
  /\ \A b \in Buffers :
       /\ b.bytes \in Seq(Nat)
       /\ \A i \in DOMAIN b.blocks : IsBlock(b.bytes, b.blocks[i])
       /\ \A i, j \in DOMAIN b.blocks :
            LET from(k) == b.blocks[k].slices[1].from
            IN i # j => from(i) + Word64 < from(j) \/ from(j) + Word64 < from(i)

VARIABLES
  given,
  text, \* the buffer
  got,  \* by block, what Height returned last, or None
  pc

vars == <<given, text, got, pc>>

None == -2
Error == -1

Init ==
  /\ given \in Buffers
  /\ text = given.bytes
  /\ got = [i \in DOMAIN given.blocks |-> None]
  /\ pc = "read"

\* The buffer with zeros from a position on.
Zeroed(b, from, n) == [i \in DOMAIN b |-> IF i \in (from + 1)..(from + n) THEN 0 ELSE b[i]]

\* append to the first l bytes of a slice of the buffer at from: in place if the
\* buffer has room for them, otherwise in a copy.
Appended(b, from, l) ==
  IF from + Word64 <= Len(b) THEN Zeroed(b, from + l, Word64 - l) ELSE b

\* Mutated form of heightBytes: the bytes after the height are read too.
heightBytes_uncut(b, from, l) == SubSeq(b, from + 1, Min({from + Word64, Len(b)}))

\* The first l bytes; Uint64 looks at no more than eight.
heightBytes(b, from, l) == SubSeq(b, from + 1, from + Min({l, Word64}))

\* The first byte of the script is the length of the height.
Height(i) ==
  LET script == given.blocks[i].slices[1]
      l == text[script.from + 1]
      at == script.from + 1
  IN /\ \/ /\ script.len - 1 < l
           /\ got' = [got EXCEPT ![i] = Error]
           /\ UNCHANGED text
        \/ /\ script.len - 1 >= l
           /\ got' = [got EXCEPT ![i] = Number(heightBytes(text, at, l))]
           /\ text' = IF l < Word64 THEN Appended(text, at, l) ELSE text
     /\ UNCHANGED <<given, pc>>

Next == \E i \in DOMAIN given.blocks : Height(i)

Spec == Init /\ [][Next]_vars

-----------------------------------------------------------------------------
\* Height is the number that the coinbase of its block begins with, for every
\* block and however often it and the others have been asked before, although a
\* call writes into the buffer that all of them share (blkdat.go:95-120).
HeightsRight ==
  \A i \in DOMAIN got : got[i] \in {None, given.blocks[i].height}

Bytes(b, slice) == SubSeq(b, slice.from + 1, slice.from + slice.len)

\* What a coinbase is hashed from is what was read: asking a block for its height
\* leaves its transactions, and so their IDs, alone (blkdat.go:95, 54-77).
CoinbaseKept ==
  \A i \in DOMAIN given.blocks :
    LET slices == given.blocks[i].slices
    IN \A j \in DOMAIN slices : Bytes(text, slices[j]) = Bytes(given.bytes, slices[j])
=============================================================================
