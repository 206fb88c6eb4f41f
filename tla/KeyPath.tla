------------------------------ MODULE KeyPath ------------------------------
(***************************************************************************)
(* DeriveKeyAtPath of src/bip380/bip380.go with the two functions it is    *)
(* given: bip32Derive for the wallet of the main chain, and derive of      *)
(* src/thunder/bip32ed25519.go for Thunder's, which knows hardened keys    *)
(* only.  deriveKeyAtPath of src/cmd/addr/main.go is a copy of it for      *)
(* bip32.  A derived key is the sequence of the indexes it was derived     *)
(* with: derivation is taken to be injective.                              *)
(***************************************************************************)
EXTENDS Integers, Sequences

CONSTANTS
  FirstHardenedChild, \* 2^31
  Paths               \* records [wallet, path], see below

(***************************************************************************)
(* A path is the sequence of its components.  A component is the number    *)
(* that Sscanf reads, -1 if it begins with none, and whether it ends in    *)
(* "'"; what stands between the two is ignored.                            *)
(***************************************************************************)
Component == [n : Int, hardened : BOOLEAN]

\* Instanced: the module that instances it checks this.
PathsAssumption ==
  /\ FirstHardenedChild \in Nat \ {0}
  /\ \A p \in Paths :
       /\ p.wallet \in {"bip32", "ed25519"}
       /\ p.path \in Seq(Component)

Uint32 == 0..(2 * FirstHardenedChild - 1)

VARIABLES
  given,
  text, \* the components that are not used yet
  got,  \* the key so far
  pc

vars == <<given, text, got, pc>>

Init ==
  /\ given \in Paths
  /\ text = given.path
  /\ got = <<>>
  /\ pc = "derive"

\* index += FirstHardenedChild, in 32 bits.
index(c) ==
  IF c.hardened THEN (c.n + FirstHardenedChild) % (2 * FirstHardenedChild) ELSE c.n

\* Mutated form of Derives: the ed25519 wallet derives any key.
Derives_any(wallet, i) == TRUE

\* Whether the derive function of a wallet has a child with the index.
Derives(wallet, i) == wallet = "bip32" \/ i >= FirstHardenedChild

\* A component that Sscanf does not read ends the loop with an error.
parseFails ==
  /\ pc = "derive" /\ text # <<>>
  /\ Head(text).n \notin Uint32
  /\ pc' = "error"
  /\ UNCHANGED <<given, text, got>>

deriveFails ==
  /\ pc = "derive" /\ text # <<>>
  /\ Head(text).n \in Uint32
  /\ ~Derives(given.wallet, index(Head(text)))
  /\ pc' = "error"
  /\ UNCHANGED <<given, text, got>>

derive ==
  /\ pc = "derive" /\ text # <<>>
  /\ Head(text).n \in Uint32
  /\ Derives(given.wallet, index(Head(text)))
  /\ got' = Append(got, index(Head(text)))
  /\ text' = Tail(text)
  /\ UNCHANGED <<given, pc>>

DeriveKeyAtPath ==
  /\ pc = "derive" /\ text = <<>>
  /\ pc' = "derived"
  /\ UNCHANGED <<given, text, got>>

Next == parseFails \/ deriveFails \/ derive \/ DeriveKeyAtPath

Spec == Init /\ [][Next]_vars

-----------------------------------------------------------------------------
\* A key of Thunder's wallet is that of the numbers in its path: an index whose
\* sum wraps in 32 bits, as that of an address number of 2^31 or more does, ends
\* in an error and never in the key of another path (bip380.go:92-107,
\* bip32ed25519.go:30-33, thunder.go:318-325).
ThunderKeysKept ==
  given.wallet = "ed25519" /\ pc = "derived" =>
    /\ Len(got) = Len(given.path)
    /\ \A i \in DOMAIN got :
         LET c == given.path[i]
         IN got[i] = IF c.hardened THEN c.n + FirstHardenedChild ELSE c.n
=============================================================================
