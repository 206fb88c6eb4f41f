-------------------------------- MODULE Codecs --------------------------------
(***************************************************************************)
(* The sequential codecs side by side: codec says which of them a          *)
(* behaviour is of, and the others stay idle.  bincode and borsh, whose    *)
(* operators are recursive, are added in MCCodecs.                         *)
(***************************************************************************)
EXTENDS Script

CONSTANTS
  Witnesses, Strings,        \* of Addresses
  Spans, Letters,            \* of Descriptor
  FirstHardenedChild, Paths, \* of KeyPath
  Numbers, Pairs, Spends,    \* of Transactions
  Word64, Buffers            \* of Coinbases

VARIABLES codec, given, text, got

idle == <<>>
scriptVars == <<script, data, offset, instrcs>>
codecVars == <<given, text, got>>
allVars == <<codec, scriptVars, codecVars, pc>>

Addr == INSTANCE Addresses
Desc == INSTANCE Descriptor
Path == INSTANCE KeyPath
Trans == INSTANCE Transactions
Coin == INSTANCE Coinbases

ASSUME CodecsAssumption ==
  Path!PathsAssumption /\ Trans!TransactionsAssumption /\ Coin!BuffersAssumption

-----------------------------------------------------------------------------
ScriptInit == codec = "script" /\ Init /\ given = idle /\ text = idle /\ got = idle

NoScript == script = idle /\ data = idle /\ offset = 0 /\ instrcs = idle

OthersInit ==
  /\ \/ codec = "address" /\ Addr!Init
     \/ codec = "descriptor" /\ Desc!Init
     \/ codec = "path" /\ Path!Init
     \/ codec = "transaction" /\ Trans!Init
     \/ codec = "height" /\ Coin!Init
  /\ NoScript

CodecsInit == ScriptInit \/ OthersInit

Of(c) == codec = c /\ UNCHANGED <<codec, scriptVars>>

ScriptNext == codec = "script" /\ Next /\ UNCHANGED <<codec, codecVars>>

CodecsNext ==
  \/ ScriptNext
  \/ Of("address") /\ Addr!Next
  \/ Of("descriptor") /\ Desc!Next
  \/ Of("path") /\ Path!Next
  \/ Of("transaction") /\ Trans!Next
  \/ Of("height") /\ Coin!Next

CodecsSpec == CodecsInit /\ [][CodecsNext]_allVars

-----------------------------------------------------------------------------
\* What Encode writes, Decode reads back (RoundTrip in Script; script.go:56-155).
ScriptRoundTrip == codec = "script" => RoundTrip

\* Decode stays inside the script (ReadsInside in Script; script.go:89-155).
ScriptReadsInside == codec = "script" => ReadsInside

\* A faithful copy of an address is read as its witness (AddressRoundTrip in
\* Addresses; bech32.go:181-235).
AddressRoundTrip == codec = "address" => Addr!AddressRoundTrip

\* A miscopied address is refused (MistakesRefused in Addresses; bech32.go:29-69).
MistakesRefused == codec = "address" => Addr!MistakesRefused

\* A witness has one address (OneAddress in Addresses; bech32.go:152-209).
OneAddress == codec = "address" => Addr!OneAddress

\* A miscopied descriptor has another checksum (TypoShows in Descriptor;
\* bip380.go:135-172).
TypoShows == codec = "descriptor" => Desc!TypoShows

\* Thunder derives no key under another number (ThunderKeysKept in KeyPath;
\* bip380.go:92-107, bip32ed25519.go:30-33).
ThunderKeysKept == codec = "path" => Path!ThunderKeysKept

\* A number is read back as it was written (VarIntRoundTrip in Transactions;
\* bitcoin.go:42-74).
VarIntRoundTrip == codec = "transaction" => Trans!VarIntRoundTrip

\* An ID stands for one transaction (IDBinds in Transactions; blkdat.go:54-77).
IDBinds == codec = "transaction" => Trans!IDBinds

\* A signature is good for one spend (SighashBinds in Transactions;
\* blkdat.go:171-230).
SighashBinds == codec = "transaction" => Trans!SighashBinds

\* hashTx hashes what BIP143 does (HashedAsBIP143 in Transactions; blkdat.go:171).
HashedAsBIP143 == codec = "transaction" => Trans!HashedAsBIP143

\* Height is right whichever blocks were asked before (HeightsRight in Coinbases;
\* blkdat.go:95-120).
HeightsRight == codec = "height" => Coin!HeightsRight

\* Asking for a height changes no transaction (CoinbaseKept in Coinbases;
\* blkdat.go:95-120).
CoinbaseKept == codec = "height" => Coin!CoinbaseKept
=============================================================================
