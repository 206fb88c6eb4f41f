------------------------------ MODULE ByteOrder ------------------------------
(***************************************************************************)
(* Numbers as bytes, the lowest first: what binary.LittleEndian writes and *)
(* reads for every package of src/.                                        *)
(***************************************************************************)
EXTENDS Integers, Sequences

CONSTANT Base \* 256

\* As many numbers have w bytes.  No codec writes more than eight.
Power[w \in 0..8] == IF w = 0 THEN 1 ELSE Base * Power[w - 1]

\* n as w bytes: what it leaves when it is divided by the base again and again.
LittleEndian(n, w) ==
  LET quotient[i \in 0..w] == IF i = 0 THEN n ELSE quotient[i - 1] \div Base
  IN [i \in 1..w |-> quotient[i - 1] % Base]

\* The number that the bytes b are, read from the last.
Number(b) ==
  LET sum[i \in 0..Len(b)] == IF i = 0 THEN 0 ELSE sum[i - 1] * Base + b[Len(b) + 1 - i]
  IN sum[Len(b)]
=============================================================================
