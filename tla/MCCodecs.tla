------------------------------ MODULE MCCodecs ------------------------------
(***************************************************************************)
(* Instances for TLC of the sequential codecs, with bincode and borsh      *)
(* beside the others.                                                      *)
(***************************************************************************)
EXTENDS Codecs, MCInputs

CONSTANT Sizes \* bound: the sizes of the data pushed

Bin == INSTANCE Bincode WITH
  Inputs <- BincodeInputs, NodeInputs <- ThunderInputs, LenBytes <- 8, EnumBytes <- 4, PayloadKinds <- {"struct"},
  BigBytes <- 2, NaN <- 255
Bor == INSTANCE Borsh WITH Inputs <- BorshInputs, BigBytes <- 2, NaN <- 255

ASSUME SerialAssumption == Bin!WidthsAssumption

Instructions ==
  {Op(o) : o \in {0, OP_PUSHDATA4 + 1, Base - 1}}
    \cup {Push([i \in 1..n |-> x]) : n \in Sizes, x \in {0, OP_PUSHDATA4}}

MCScripts == UpTo(Instructions, 2)

MCRaw == UpTo(0..(Base - 1), 4)

-----------------------------------------------------------------------------
SerialInit ==
  /\ \/ codec = "bincode" /\ Bin!Init
     \/ codec = "borsh" /\ Bor!Init
  /\ NoScript

MCNext ==
  \/ CodecsNext
  \/ Of("bincode") /\ Bin!Next
  \/ Of("borsh") /\ Bor!Next

MCSpec == (CodecsInit \/ SerialInit) /\ [][MCNext]_allVars

-----------------------------------------------------------------------------
\* What the node wrote with bincode is read back; so is what Serialize wrote, of
\* borsh always, of bincode exactly when it follows the format (RoundTrip in Bincode
\* and in Borsh; bincode.go:24-36, 330-382; borsh.go:17-41, 323-370).
ValuesRoundTrip ==
  /\ codec = "bincode" => Bin!RoundTrip
  /\ codec = "borsh" => Bor!RoundTrip

\* In both formats what follows the format and was cut short is refused
\* (TruncatedRefused in Bincode; bincode.go:38-48, borsh.go:31-41).
TruncatedRefused ==
  /\ codec = "bincode" => Bin!TruncatedRefused
  /\ codec = "borsh" => Bor!TruncatedRefused
=============================================================================
