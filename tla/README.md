# A verification project for ecashlearn

ecashlearn reads the blocks of a Bitcoin signet with drivechains (BIP300 and
BIP301), follows the withdrawals of its sidechains, and reads the database of
Thunder, one of them.  This directory holds TLA+ models of the parts with logic
of their own, the TLC runs that check them, and TLAPS proofs.

## 1. Inventory

| component | source | state | operations | what makes it correct |
|---|---|---|---|---|
| withdrawal list | `enforcer/d2.go` | `D2`: bundles per slot, height, remembered M4 | `HandleMsgs`: M3 proposes, M4 votes, M6 pays, expiry | lists ordered and without duplicates; a due payment is in its block; nothing is paid that was not voted for |
| message parser | `enforcer/enforcer.go` | none between blocks | `getMessages` | ambiguous or inconsistent blocks are refused; the M6ID fixes the payment; every bid has its M7 |
| driver | `enforcer/*_test.go` | the chain, `D2` | for each block `getMessages`, then `HandleMsgs` | a refused block has no messages, and the height advances |
| block files | `blkdat/blkdat.go` | parser offset and error; one buffer that every block is a piece of | `read`, `readBlock`, `computeMerkleRoot`, `Height`, `ID`, `hashTx` | whole blocks only; a torn last block is the end of the file or an error; IDs and signature hashes stand for one transaction; asking changes nothing |
| script | `script/script.go` | parser offset | `Encode`, `Decode` | inverse of each other; inside the data |
| bincode, borsh | `util/bincode`, `util/borsh` | none | `Serialize`, `Deserialize` | what the node wrote is read; borsh: inverse of each other; truncated data refused |
| thunder scan | `thunder/scan.go`, `thunder.go` | none; a database of another process | `scan` | the chain in order, while the node writes |
| database reads | `util/lmdb.go` | a read transaction | `Get`, `ScanDB` | what is returned is one version of the database |
| addresses | `bech32/bech32.go` | none | `SegwitAddrEncode`, `SegwitAddrDecode` | one address per witness; a miscopied one is refused |
| descriptors and paths | `bip380/bip380.go`, `thunder/bip32ed25519.go`, a copy in `cmd/addr` | none | `descriptorChecksum`, `DeriveKeyAtPath` | a miscopied descriptor shows; a path names one key |
| bitcoin types | `bitcoin/bitcoin.go` | none | `AppendVarInt`, `DecodeVarInt`, `ID` | inverse of each other; an ID stands for one transaction |
| enforcer database | `enforcer/db.go` | database of another program | reads | (I/O only) |
| crypto | `crypto/crypto.go` | none | hashes | (libraries) |
| commands | `cmd/` | none | command line | (I/O only) |

How they interact: the driver calls `blkdat.Read`, then for each block
`getMessages`, which decodes scripts and looks inputs up in a map of all
transactions, and then `D2.HandleMsgs` with the messages and the height.
Everything there is sequential.  `thunder.scan` is the one part that runs beside
another process: the node writes the database that it reads, and each read is an
LMDB transaction of its own.  lmdb-go copies what is read inside the transaction
(`RawRead` is never set), so a read is of one version of the database; a scan is
of many.

What is hard.  Not threads but long sequences of blocks: a block that is
rejected half-way leaves what its first messages did, skips the expiry, and is
followed by the next height; an M4 is remembered and replayed when the lists it
indexes have changed; votes are positions in sorted lists; the same age bound
is compared in three places one block apart; counters have a width.  For the
readers: files torn by a crash, zeros that may be padding or data, odd Merkle
levels, error flags that loops have to respect, widths at their boundaries,
slices that share a buffer.  For the codecs: strings that look like another's,
by padding, by encoding, or by a number that wraps.
`PROJECT.json` lists these hazards at their lines, with the properties for them.

## 2. Modules

```
WithdrawalList            what the withdrawal list promises
   ^ implemented by
D2  <- D2Audit <- MCD2    the list of d2.go; history variables; TLC instances
 ^
 D2Proofs <- D2AuditProofs    theorems about D2 and D2Audit
Messages <- MCMessages    getMessages of enforcer.go
D2 + Messages = Enforcer <- MCEnforcer    the driver's loop
MerkleTree <- Merkle      computeMerkleRoot, as an operator and as a loop
MerkleTree <- BlkFormat <- BlkFile        the format of blk*.dat, and its reader
BlkFile + Merkle <- MCBlocks
ByteOrder                 numbers as bytes, the low one first
ByteOrder <- Script, Transactions, Coinbases, Bincode
Bincode <- Borsh          bincode.go; borsh.go, as another format of it
Checksum <- Bech32 <- Addresses           bech32.go
Checksum <- Descriptor                    descriptorChecksum of bip380.go
KeyPath                   DeriveKeyAtPath with its two derive functions
Transactions              IDs, signature hashes, variable-length integers
Coinbases                 Block.Height on blocks that share a buffer
Script + Addresses + Descriptor + KeyPath + Transactions + Coinbases = Codecs
Codecs + Bincode + Borsh <- MCCodecs, with the inputs of MCInputs
ThunderScan <- MCThunder  scan, with ScanDB and Get, against the node
Induction                 induction and recursion over numbers and finite sets
 ^
MessagesProofs            theorems about Messages
D2Proofs + MessagesProofs <- EnforcerProofs    theorems about the driver
ThunderProofs             about ThunderScan
BlocksProofs              about the reader of blk*.dat and the Merkle root
CodecsProofs              about Codecs
```

**D2** has the fields of the struct: `m`, `height`, `prevM4`.  `todo` is the
rest of the slice that the loop of `HandleMsgs` ranges over, and `status` says
whether a call is under way or how the last one ended.  `HandleMsgs(ms)` is the
call up to the loop: it sets the height and makes the check of
`checkVotedM6Withdrawn`.  Then each message is one step (`handleM3`,
`handleM4Votes`, ...), an `InvalidateBlockError` is `Reject`, and `delExpired`
ends the call.  An M4 is one step whatever its length; `Votes` says which slots
it has voted on when it fails.  `RepeatPrevious` is a recursive call in the
code; here it puts `prevM4` in front of `todo`.  The driver goes on after a
rejected block, and so does the model.  Votes wrap at `VoteMod`.

**D2Audit** adds the history variables `owed` and `unpaid`, and the refinement
mapping to **WithdrawalList**, whose state is a set of pending bundles, each
approved or not.

**Messages** takes a block whose scripts are already classified by what
`script.Decode` makes of them, and runs the loops of `getMessages`: one step
per coinbase output, one for `checkBlockValidity`, one per transaction, one for
`checkM8s`.  `parseM5` ranges over a Go map, so its result is a set.  A hash is
the value hashed: the M6ID is the record of the fee and the payouts it covers.

**Enforcer** instantiates both, with the messages of one as the input of the
other.

**MerkleTree** and **Merkle** are `computeMerkleRoot`, as an operator and as a
loop.  **BlkFile** reads a sequence of cells; its `plan` is the list of fields
that `readBlock` and `readTransaction` have still to read, where a count read
from the data is replaced by copies of what it counts, as the loops do.  A field
of 4, 8 or 32 bytes has two cells, so that tears within a field exist.
**BlkFormat** says what the reader should find, without reading: where each part of
a transaction and of a block ends, which fields an ID covers, and at which offsets
of a file there is a block (`IsBlock`).  The assumptions of `MCBlocks` are in its
words: after the chain of an undamaged file is padding (nothing, or zeros that are
long enough not to be cut within a magic number), and after the blocks of a damaged
one is something that is neither a block nor padding.  TLC evaluates them on the
files of the run, which `MCBlocks` encodes in another way.

**ByteOrder** has the numbers of the codecs: the bytes of a number in a base,
and the number that bytes stand for.  **Codecs** puts together the codecs that
have no recursive operator, with the properties of them; the theorems are about
this module, and `MCCodecs` adds Bincode and Borsh to it.

**Script** has the base of its numbers as a parameter: with base 8 the size of
three digits that needs `OP_PUSHDATA4` is 64.

**Bincode** models types as records and values as sequences and functions.  Its
constants are what bincode and borsh do differently: the bytes of a length and
of an Enum, and the kinds of payload that a complex enum is written with.  What
`Deserialize` reads was written by `Serialize` (of `Inputs`) or by the node (of
`NodeInputs`).  The node is Rust, and its format is `encoding`: a complex enum is
its tag and the variant that the tag selects.  `Serialize` writes one with all its
variants (section 7), so `RoundTrip` says when a value is read back: if and only if
its bytes follow the format.
**Borsh** is the other instance; there an Enum has the kind that
`serializeStruct` looks for, and what `Serialize` writes always follows the format.

**Checksum** is the shift register of `polymod` and of `polyMod`: a checksum of
30 or 40 bits is a sequence of symbols of five, since that is how it is shifted
and how it is written.  The generators are the real ones, so **Bech32** and
**Descriptor** compute the checksums that the program computes.  **Addresses**
follows an address from its writer to its reader: copied faithfully, in
capitals, with one mistake, or made by another encoder.

**KeyPath** has 4 for 2^31.  A derived key is the sequence of the indexes used.
**Transactions** has a base for its variable-length integers; a field of fixed
width is one cell, a script is its bytes, and a hash is what was hashed.
**Coinbases** keeps the buffer of the file: a script is an offset and a length in
it, and `Height` writes into it where the code's `append` does.

**ThunderScan** interleaves `scan` with a node that connects blocks, forks among
them, and that may write a header before its body.  `ScanDB`, and each `Get` of a
header or a body, is one step: it sees the database as it then is.  The history
variable `found` is the version that `ScanDB` saw.

## 3. Runs

Passing runs (the properties are stated where they are defined):

| run | instance | why the bounds are enough |
|---|---|---|
| `mcd2` | slots 2 (active) and 4, two M6IDs, three blocks, two coinbase messages and one M6 (for one of the M6IDs) per block, six M4s | three blocks propose, approve and pay or expire a bundle with `MaxAge = Threshold = Lead = 1`; 4 as `VoteMod` lets votes wrap; slot 4 is unknown at first, so positions shift; two bundles in a slot make order and downvotes matter; the M6ID that is paid may be the older or the younger of them |
| `mcmessages` | every coinbase of up to three of the 21 outputs, valid and malformed bodies, at most one bid; and every transaction of up to two inputs and three outputs over treasuries of two slots and two values | every pairwise check of `checkBlockValidity`, with something between or before; deposits to two slots at once, withdrawals, repeats, the missing output |
| `mcenforcer` | three blocks from two-output coinbases and five lists of transactions | a withdrawal needs a proposal, a vote and a payment |
| `mcblocks` | chains of up to two blocks of up to three transactions, every tear, three forgeries, with a key or without, 0, 2 or 70 zeros; and every list of up to eight transactions that repeats them, and of up to nine distinct ones | zeros longer than what is left of a block, and shorter; two odd levels (5, 6, 7) |
| `mccodecs`: scripts | pushes at the sizes around each change, all raw scripts of four digits | each encoding, a digit less and a digit more |
| `mccodecs`: values | both formats, the shapes of the types of package thunder, each prefix, one more byte; written by `Serialize`, headers with roots of every variant among them, and by the node (headers, inputs, outputs) | each kind inside each container; two roots, so that what is left of the first is read as the second; a root has the bytes of a whole number of tags, as 32 has |
| `mccodecs`: addresses | programs of 2, 3, 20 and 40 bytes of versions 0, 1 and 16, refused ones; every change of one character to one of the 32, every swap of neighbours, a "q" more or less; well-formed strings of the lengths around the limits, with padding of every kind, in both encodings | a program whose address ends in "p", as BIP173's weakness needs |
| `mccodecs`: descriptors | one to seven characters of each class, every other character in every place | groups of one, two and three |
| `mccodecs`: paths | every path of up to two components with numbers from -1 to 8, those of `GetAddress`, both wallets | numbers before, at and after 4 and 8, where an index is hardened and wraps |
| `mccodecs`: transactions | numbers around each width; all pairs of 170 transactions of up to two inputs and outputs; pairs of spends that differ in one part or several, with seven hash types | scripts whose bytes look like lengths and counts |
| `mccodecs`: heights | files of two blocks, heights of one and two bytes of the four of a number, up to three bytes after them, asked in any order, again and again | the zeros written for one block reach into the next fields; the last block is at the end of the buffer |
| `mcthunder` | every forest of four blocks, a node that may write a header before its body | the first block sorts anywhere; a fork and a gap need three |

Deadlock is not checked: each of these programs ends, and the bound on heights
ends the others.

Runs that show where the code differs from what it quotes or says (the details
are the findings of `PROJECT.json`):

| run | what happens |
|---|---|
| `d2_underflow` | a bundle with no votes is voted down and has 65535 |
| `d2_wrong_slot` | the M6 of one slot pays for the same M6ID of another |
| `treasury_moves` | a treasury spent by neither an M5 nor an M6 is no error |
| `script_large` | the size of an `OP_PUSHDATA4` is read with two bytes |
| `height_overwrites` | `Height` writes zeros over what follows the height in the coinbase |
| `sighash_bip143` | `hashTx` leaves out what BIP143 has as zeros, for other types than `SIGHASH_ALL` |

Fairness: `WF` of the steps of one sequential call (`Handling`, the reader's
`Next`, `scan`), since a Go function that has been called runs on.  The driver
owes no next block, and the Thunder node owes nothing.

## 4. Proofs

`D2Proofs` proves, for all slots, M6IDs, vectors, blocks, ages and widths that
satisfy the assumptions of `D2`, that `TypeOK`, `Chronological`, `UniqueIDs`,
`NoneExpired` and `PrevM4Replayable` hold of `Spec`.  The assumptions are that
the constants are numbers, and that the M3s of a block come in the order of
their outputs.  `CallInOrder` says this of the parser; it is proved below.

The properties are not inductive alone.  The order needs that no bundle is
younger than the current height, and, within a block, that the M3s still to be
handled have a higher `vout` than the bundles born at this height; a replayed M4
is well typed only if `prevM4` is one that can be replayed.  `IInv` is the
conjunction of these parts; each action has its lemma, over two lemmas on
`SortChrono`: the sort of a list with a new last element, and of the elements
that are kept, is ordered and has the elements it should.

`VotesTogether` is proved of the steps: an M4 gives each slot its old list, the
list with one bundle voted up, or the list voted down (`VotesCast`); every other
step takes its bundles from the old list, so by `UniqueIDs` no bundle has other
votes than before.

`D2AuditProofs` proves of `ASpec`:

- `OwedArePaid`: no block is accepted while it owes a payment.  The invariant is
  that while a block is handled each ID it owes is that of an M6 still in `todo`.
- `ImplementsList`: `ASpec => List!Spec`.  The pending entries of a slot are a
  set (`Entries`), which sorting does not change (`SelectionEntries`); a message
  replaces the entries of one slot (`SetPending`).  With these each handler has a
  lemma that names the step of the list it is: `handleM3` is `Propose`, the votes
  are `Ack`, `handleM6` is `Pay` (by `UniqueIDs` it removes one entry),
  `delExpired` is `AcceptBlock` (which needs `owed = {}`, hence the invariant),
  `HandleMsgs` is `OpenBlock` or `RefuseBlock`, and a rejection or a panic is
  `AbortBlock`.

`MessagesProofs` is about `getMessages` on any set of blocks that are well
formed, with coinbases and transactions of any length: `TypeOK`, `SuitD2`,
`BmmMatched`, `PayoutFixedByID` and `AmbiguousMovesNothing`.  The invariant says
what the messages so far are: each is that of an output or a transaction already
read, in the order of the block (`ReadInv`); no bid and no withdrawal that was
read is missing (`BidsInv`, `WithdrawalsInv`); after `checkBlockValidity` no two
M3s name a slot (`SlotsInv`).  `PayoutFixedByID` is about sums of any length:
the fee is a difference of two sums that share all terms but the first, and the
lemmas on `Sum` take it from the definition of the fold.

`EnforcerProofs` is about the two together.  It instantiates `MessagesProofs` and
`D2Proofs` in the driver, shows that each definition of the one is that of the
other (`...Same`), and uses both invariants.  `CallInOrder` follows from
`SuitD2` and is the assumption under which D2 was proved, so:

- `ListIsD2`: `Spec => DP!Spec`, the list in the driver refines D2; by it
  `ListTheoremsHold` has `NoneExpired`, `PrevM4Replayable` and `VotesTogether`.
- `ListsInOrder`, and `BundlesProposed`: every bundle, and every M3 still to be
  handled, is among the proposals made so far.
- `WithdrawalsProposed`: `PaymentsInv` says that each M6 of the block was
  proposed or is still to be handled, for `handleM6` rejects one that is not in
  the list.  With `WithdrawalsInv` and `PayoutFixedByID` this goes from the
  transaction to the M3 that proposed it.

Assumed there is that blocks are well formed, that slots and the numbers of an M4
are natural numbers, and that the constants hold the slots and hashes that occur.

`ThunderProofs` proves `ChainInOrder`, `OneVersion` and `FailsForAReason` for any
finite set of hashes.  The invariant: no block is read twice (`DistinctInv`), what
was read and the keys still to be read are together what `ScanDB` saw, and with a
block they have its parent (`ClosedInv`: all keys come from one transaction, and the
node writes a block after its parent), a parent that was read is the node's
(`TrueInv`), and the chain so far goes from parent to child (`ChainInv`).  When the
chain cannot grow, the eldest of the blocks that are left has its parent in the
chain, and so a brother there: the chain had forked.  At the end nothing is left to
be read or taken, so the chain is what `ScanDB` saw.

`BlocksProofs` proves of the reader `ReadsTheChain` and `WholeFilesRead`, for any
files that satisfy the two assumptions of `MCBlocks`, whatever the number of their
blocks and the counts in them.  The invariant (`FileInv`) says that the blocks
returned are the first ones of the file, and, of a reader within a block, that it
gets to the end of the block exactly if all of it is there (`Leads`).  That is a
statement about the future: `RunTo` says what the reader comes to from where it
is, as a run of steps that is determined.  It is kept by every step that reads what
is there (`LeadsOn`), is false of a block that is cut (`LeadsFails`), and at the end
of the plan it is what the block says (`LeadsEnds`).

So what has to be shown is that it holds at the start of a block (`BlockPeels`): the
fields of a block, read one after the other, end where BlkFormat says, with its root
and its IDs.  Fields that take the reader from an offset to where they end are
`Reads`; one field is (`ReadsFixed`, `ReadsBytes`), fields after fields are
(`ReadsBoth`), and so is a count with what it counts (`ReadsCount`, over
`ReadsCopies` by induction on the count).  With these a script, an input, an output
and a witness are read, then a transaction (`TransactionPeels`) and those of a block.
A reader that has set `p.err` goes on through its plan; that a test of it always
comes before the check of the Merkle root is `PlannedStop`.  `FileInvHolds` needs no
undamaged file: whatever the bytes, only blocks of the file are returned, and the
reader never stops before one.

It also proves that a Merkle root that is not flagged stands for one list
of transactions, of any two lists of any lengths (`OneListPerRoot`), and that
distinct transactions are never flagged (`DistinctUnflagged`).  A level without
an equal pair is determined by the next one (`LevelInjective`: an odd level that
repeats its last hash cannot be mistaken for one that had it twice, as that one
has an equal pair); by induction from the root down two trees agree level by
level, and they are of one height as a leaf is no node.  That the fold of
`computeMerkleRoot` makes these levels one after the other is `FoldIsRounds`; the
loop of Merkle makes them by the invariant `TreeInv`, from which `RootBinds` and
`DistinctAccepted` of the run follow.

`CodecsProofs` is about the specification that `mccodecs` runs, less bincode and
borsh, with any base, opcodes and inputs that satisfy the assumptions of Codecs:

- `ScriptReadsInside`: the offset of the reader never passes the end (`ReaderInv`).
- `ScriptRoundTrip`: what has been read are the first instructions of the script,
  and the offset is the end of their bytes (`RoundInv`).  The hypothesis
  `ShortData` is that data are shorter than the square of the base: a longer push
  is read with a size of two bytes, which is what the run `script_large` shows.
- `ThunderKeysKept`: the key so far is the indexes of the components read, each
  hardened (`PathInv`).
- `HeightsRight`: the coinbases of a file lie apart from each other, and the zeros
  that `Height` has written are in no height that is still to be read (`HeightInv`).
- `VarIntRoundTrip`: a number below the fourth width, whatever follows it.
- `IDBinds` and `SighashBinds`: two transactions with one ID, or two spends with
  one signature hash, agree in all the hash is meant to fix.  What is hashed is a
  sequence of cells, and the question is whether it can be cut in two ways.  A
  part is `Delimited` if its cells cannot be confused with those of another part
  whatever follows either: numbers are, so scripts, inputs, outputs and lists of
  them are.  A spend is taken apart from the right, where its fields are of fixed
  width, and from the left by the cases of its hash type.  That a hash stands for
  what was hashed is how the model has it, and is assumed of SHA-256.

Under these lie the lemmas on `LittleEndian` and `Number`, which are shown to be
the solutions of their recursions and then inverse to each other for any width,
and on joined sequences (`FlattenIs`, `JoinsBegin`).

Facts on functions defined by recursion, and on folds, are proved from the least
element of a set of numbers (`Induction`), so each is stated for one function
and not for an operator.

Only model-checked:

- Liveness (`BlockEnds`, `Ends`, `ScanEnds`): the provers do not treat fairness
  and ENABLED.
- `ValuesRoundTrip` and `TruncatedRefused`: types nest, so `Bincode` has recursive
  operators, which the provers do not take.
- `MistakesRefused` and `TypoShows`: that a mistake changes the checksum is a
  property of these generators, a finite table of powers in a field that a
  computation settles and a proof would only repeat.  `AddressRoundTrip` and
  `OneAddress` rest on the same arithmetic.

## 5. Not modelled

`db.go` and the commands are I/O.  Hashes, signatures, extended public keys and
ASN.1 are libraries: in the models a hash is injective.  The formatting of
messages and of the lists (`formatVotes`) changes no state; it panics for an M4
longer than the slots, in the log of a test.  From `thunder.go` the functions
that read one value and decode it (`getTip`, `getHeight`, `getWithdrawalBundle`)
are `ScanDB` or `Get` with a codec, and `Transaction.ID` has no caller.  Floats
that are not numbers and lengths of 2^63 are beyond the types that the program
has and the numbers TLC has.  The lists of types that Thunder stores are those of
`MCInputs`, by shape.

Three things are simpler in a model than in the code, and no property would notice
if they went wrong.  `computeM6ID` replaces an output and the inputs in place and
puts them back (`enforcer.go:423-450`): in Messages it is an expression.  Go's order
of a map in `parseM5` (`enforcer.go:384`) is a set of possible results.  Heights that
are pushed by an opcode (1 to 16) are not among those of Coinbases, as the test of
the repository leaves them out too (`blkdat_test.go:230`).

## 6. Plan

1. Done: D2, its abstract list, the parser, the driver, the readers, the codecs,
   `scan` with the database reads it is made of.  Proved: the safety of D2 and its
   refinement, of the parser, of the driver that composes the two and of `scan`; the reader of the block files and the Merkle root; of the codecs,
   scripts, paths, heights, variable-length integers, IDs and signature hashes.
2. Open to proof: `AddressRoundTrip`, for which `polymod` has to be shown additive
   and the groups of eight and of five bits regrouped.
3. Model if the code comes to use it: `Transaction.ID` of Thunder; `OldCtip`
   across blocks (the treasury of a slot as a chain of outputs).

## 7. What the code does that a reader may not expect

The models do these things as the code does, and no property rules them out.

- A bundle that passes the threshold in the last block of its life is never due:
  the check runs before the votes of the block (`d2.go:60`), and in the next
  block the bundle is too old (`d2.go:306`).
- A rejected M4 keeps the votes cast before its bad entry (`d2.go:164-186`), and
  a rejected block whatever its messages did before (`d2.go:65`).
- An M3 for an unknown slot makes it one that M4s vote on, and moves the
  positions of the slots after it (`d2.go:127`, `d2.go:162`).
- `LeadingBy50` panics for a slot without bundles (`d2.go:192`), and otherwise
  compares the leader with itself too, so that it votes only when the sum of
  the votes and 50 wraps.
- bincode writes a complex enum as a plain struct, with the bytes of every variant,
  since it looks for a first field of kind `uint8` (`bincode.go:365`) and its Enum is
  a `uint32`; it reads one as a tag and the variant that the tag selects
  (`bincode.go:288`).  The roots of a header are complex enums (`thunder.go:205-217`).
  One that is `Some` is written as the node writes it, for the other variants have no
  bytes, and `thunder_test.go:357` compares a header with what the node wrote.  After
  one that is `Empty` or `Placeholder` come the 32 bytes of `Some`: the node's bytes
  differ, and the roots that follow are read back from those 32.  `ValuesRoundTrip`
  says that a value is read back exactly if it was written as the node writes it.
- A map whose value fails to serialize is written without the error unless the
  value is the last (`bincode.go:503`).
- One to three zeros after the last block of a file end the program in a panic
  (`blkdat.go:476`) before `isEndOfFile` is asked.  The runs have files with no
  padding, and with more.
- A database without a genesis block, or a fork, ends `scan` in a panic or an error
  (`scan.go:41`, `scan.go:47`, `scan.go:63`), as does an empty database.
- `parseHeight` writes into the buffer that the blocks share (`blkdat.go:116`).
  Its own result is right, also when it is asked again (`HeightsRight`).
- `p2pkhScript` panics for a script of one instruction (`blkdat.go:237`).
- A path component is read as far as it is a number: "84h" is the unhardened 84
  (`bip380.go:96`).  An unhardened 2147483648 is taken as hardened, and
  "2147483648'" wraps to the unhardened 0 (`bip380.go:102`); Thunder's wallet
  refuses the second, as it refuses every unhardened key.
- `Transaction.ID` of Thunder reverses the TxID of a deposit in place
  (`thunder.go:119`), so that a second call would give another ID, and panics for
  an input that is not a deposit (`thunder.go:127`).  Nothing calls it.
