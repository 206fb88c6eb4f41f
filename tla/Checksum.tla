------------------------------ MODULE Checksum ------------------------------
(***************************************************************************)
(* The shift registers over symbols of five bits that bech32.go and        *)
(* bip380.go compute their checksums with.  A register is the sequence of  *)
(* its symbols, the highest first; a generator is one too.                 *)
(***************************************************************************)
EXTENDS Integers, Sequences, SequencesExt, FiniteSetsExt

Symbol == 0..31

Bit(n, k) == (n \div 2^k) % 2

\* The exclusive or of two symbols, as a table.
Xor == [a, b \in Symbol |-> MapThenSumSet(LAMBDA k : 2^k * ((Bit(a, k) + Bit(b, k)) % 2), 0..4)]

Added(s, t) == [i \in DOMAIN s |-> Xor[s[i], t[i]]]

\* n as w symbols.
Symbols(n, w) == [i \in 1..w |-> (n \div 32^(w - i)) % 32]

\* For each symbol that leaves the register, the generators of its bits.
Feedback(generators) ==
  [top \in Symbol |->
     FoldLeft(Added, [i \in DOMAIN generators[1] |-> 0],
              [k \in 1..5 |-> [i \in DOMAIN generators[k] |-> Bit(top, k - 1) * generators[k][i]]])]

\* The register after a value has been shifted in.
Shift(feedback, chk, v) == Added(Append(Tail(chk), v), feedback[Head(chk)])

\* The characters of checksums and of bech32: "qpzry9x8gf2tvdw0s3jn54khce6mua7l".
charset ==
  <<113, 112, 122, 114, 121, 57, 120, 56, 103, 102, 50, 116, 118, 100, 119, 48,
    115, 51, 106, 110, 53, 52, 107, 104, 99, 101, 54, 109, 117, 97, 55, 108>>
=============================================================================
