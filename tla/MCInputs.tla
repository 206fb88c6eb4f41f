------------------------------- MODULE MCInputs -------------------------------
(* What MCCodecs gives each of the codecs; scripts apart, in base 8. *)
EXTENDS Integers, Sequences, FiniteSets

-----------------------------------------------------------------------------
(* bincode and borsh: the shapes of the types of package thunder. *)

Uint(w) == [kind |-> "uint", bytes |-> w]
Int1 == [kind |-> "int", bytes |-> 1]
Bool == [kind |-> "bool"]
Float == [kind |-> "float"]
Big == [kind |-> "big"]
Text == [kind |-> "string", elem |-> Uint(1)]
Slice(t) == [kind |-> "slice", elem |-> t]
Array(n, t) == [kind |-> "array", len |-> n, elem |-> t]
Ptr(t) == [kind |-> "ptr", elem |-> t]
Map(k, t) == [kind |-> "map", key |-> k, elem |-> t]
Skip(t) == [kind |-> "skip", elem |-> t]
Struct(fields) == [kind |-> "struct", enum |-> FALSE, fields |-> fields]

UpTo(S, n) == UNION {[1..k -> S] : k \in 0..n}

\* An outpoint, a header with an optional parent, a list of numbers, ...
OutPoint == Struct(<<Slice(Uint(1)), Uint(2)>>)
OutPoints == {<<h, n>> : h \in UpTo({0, 7}, 2), n \in {0, 1, 256}}
\* Header.Roots: BitcoinNodeHash, a complex enum whose last variant alone has bytes,
\* as many as whole tags of bincode have.  An Enum has w bytes: four in bincode, one
\* in borsh.
Enumerated(w, variants) ==
  [kind |-> "struct", enum |-> TRUE, fields |-> <<Uint(w)>> \o variants]
BitcoinNodeHash(w) == Enumerated(w, <<Struct(<<>>), Struct(<<>>), Array(4, Uint(1))>>)
Roots ==
  {<<i, <<>>, <<>>, <<0, 0, 0, 0>>>> : i \in {0, 1, 2}} \cup {<<2, <<>>, <<>>, <<0, 0, 0, 1>>>>}
Header(w) ==
  Struct(<<Array(2, Uint(1)), Ptr(Array(2, Uint(1))), Slice(Uint(1)), Slice(BitcoinNodeHash(w))>>)
Headers ==
  {<<<<1, 0>>, p, m, r>> : p \in {<<>>, <<<<0, 1>>>>}, m \in {<<>>, <<7>>}, r \in UpTo(Roots, 2)}
Counts == Map(Uint(1), Int1)
AllCounts == UNION {[K -> {0, -1, 127, -128}] : K \in SUBSET {1, 2, 9}}
Mixed == Struct(<<Skip(Text), Float, Big, Text, Bool>>)
AllMixed ==
  {<<<<>>, f, b, s, x>> :
     f \in {0, 3}, b \in {<<>>, <<1>>, <<1, 0>>, <<2, 0, 0>>}, s \in {<<>>, <<65>>}, x \in BOOLEAN}

SerialInputs(w) ==
  ({OutPoint} \X OutPoints) \cup ({Header(w)} \X Headers) \cup ({Counts} \X AllCounts)
    \cup ({Mixed} \X AllMixed) \cup ({Slice(OutPoint)} \X UpTo(OutPoints, 1))

BincodeInputs == SerialInputs(4)

\* Content: a value, or a withdrawal.  Of the node, or in borsh: the program does
\* not write it with bincode.
Content(w) == Enumerated(w, <<Uint(2), Struct(<<Uint(1), Text>>)>>)
Contents ==
  {<<0, n, <<0, <<>>>>>> : n \in {0, 5, 300}}
    \cup {<<1, 0, <<n, s>>>> : n \in {0, 5}, s \in {<<>>, <<65>>}}

BorshInputs ==
  SerialInputs(1) \cup ({Content(1)} \X Contents) \cup ({Slice(Content(1))} \X UpTo(Contents, 2))

\* The input of a transaction: a regular output, a coinbase's or a deposit, of which
\* only the last has a TxID of variable length.
OutPointOf(i, x) == [j \in 1..4 |-> CASE j = 1 -> i
                                      [] j = i + 2 -> x
                                      [] OTHER -> <<IF j = 4 THEN <<>> ELSE <<0, 0>>, 0>>]
SpentOutPoint ==
  LET regular == Struct(<<Array(2, Uint(1)), Uint(2)>>)
  IN Enumerated(4, <<regular, regular, OutPoint>>)
SpentOutPoints ==
  {OutPointOf(i, <<<<0, 7>>, n>>) : i \in 0..2, n \in {0, 256}} \cup {OutPointOf(2, <<<<>>, 1>>)}

\* What the node has in its database: headers with their roots, inputs and outputs.
ThunderInputs ==
  ({Header(4)} \X Headers) \cup ({Slice(SpentOutPoint)} \X UpTo(SpentOutPoints, 2))
    \cup ({Slice(Content(4))} \X UpTo(Contents, 2))

-----------------------------------------------------------------------------
(* Addresses: witnesses of every length that matters, refused ones among them, *)
(* and what other encoders may put into a well-formed string.                  *)

tb == <<116, 98>>
Witness(v, p) == [hrp |-> tb, version |-> v, program |-> p]

\* The address of <<10, 6>> ends in "p": with the checksum of BIP173 a "q" could be
\* inserted before it.
SegwitWitnesses ==
  {Witness(0, [i \in 1..20 |-> i]), Witness(1, <<10, 6>>), Witness(16, <<1, 2, 3>>),
   Witness(1, [i \in 1..40 |-> 255]), Witness(0, <<1, 2>>), Witness(17, <<1, 2>>)}

ForeignStrings ==
  {[hrp |-> tb, data |-> <<v>> \o d, enc |-> e] :
     v \in {0, 1, 16, 17},
     d \in UNION {[1..n -> {0, 1, 16}] : n \in {0, 3, 4}}
             \cup {[i \in 1..n |-> 0] : n \in {32, 33, 34, 52, 53, 64, 65}},
     e \in {"bech32", "bech32m"}}

-----------------------------------------------------------------------------
(* Descriptors of one to seven characters of each class, and one with a *)
(* character that no descriptor has.                                    *)

ShortSpans ==
  {[i \in 1..n |-> c] : n \in 1..7, c \in {0, 40, 70}} \cup {<<>>, <<1, 2, 3, 95>>}

AnyLetter == 0..94

-----------------------------------------------------------------------------
(* Paths of up to two components, and those of GetAddress; 2^31 is 4. *)

PathNumbers == -1..8
PathComponents == [n : PathNumbers, hardened : BOOLEAN]
WalletPaths ==
  [wallet : {"bip32", "ed25519"},
   path : UpTo(PathComponents, 2)
            \cup {[i \in 1..4 |-> [n |-> <<1, 0, 0, n>>[i], hardened |-> TRUE]] : n \in PathNumbers}]

-----------------------------------------------------------------------------
(* Transactions, in base 8: numbers around each change of width. *)

NumbersRead ==
  [n : {0, 1, 4, 5, 6, 7, 8, 62, 63, 64, 65, 4094, 4095, 4096, 4097, 5000},
   rest : {<<>>, <<0>>, <<5, 5>>}]

TxIn(txID, vout, script, sequence) ==
  [prevOut |-> [txID |-> txID, vout |-> vout], script |-> script, sequence |-> sequence]
TxOut(amount, script) == [amount |-> amount, script |-> script]
Tx(version, input, output) ==
  [version |-> version, input |-> input, output |-> output, lockTime |-> 0]

\* Scripts whose bytes look like the fields around them.
TxInputs ==
  UpTo({TxIn(1, 0, s, 0) : s \in UpTo({0, 1}, 2)} \cup {TxIn(0, 1, <<>>, 1)}, 1)
    \cup {<<TxIn(1, 0, <<>>, 0), TxIn(1, 1, <<0>>, 0)>>}
TxOutputs ==
  UpTo({TxOut(a, s) : a \in {0, 1}, s \in UpTo({0, 1}, 2)}, 1)
    \cup {<<TxOut(0, <<>>), TxOut(a, <<>>)>> : a \in {0, 1}}
Txs == {Tx(1, i, o) : i \in TxInputs, o \in TxOutputs}
TxPairs == Txs \X Txs

\* Two inputs, one or two outputs, every hash type; the second spend of a pair
\* differs from the first in any of its parts.
SignedInputs ==
  {<<TxIn(1, v, <<>>, q), TxIn(2, 0, <<>>, r)>> : v \in {0, 1}, q \in {0, 1}, r \in {0, 1}}
SignedOutputLists ==
  {<<TxOut(0, <<>>)>>, <<TxOut(1, <<>>)>>, <<TxOut(0, <<>>), TxOut(0, <<1>>)>>,
   <<TxOut(0, <<>>), TxOut(1, <<>>)>>}
HashTypes == {0, 1, 2, 3, 129, 130, 131}
PrevOut(ok, instrcs) == [amount |-> 5, script |-> [decodes |-> ok, instrcs |-> instrcs]]
SignedTxs == {Tx(1, i, o) : i \in SignedInputs, o \in SignedOutputLists}
SpendPairs ==
  {<<[tx |-> t, nIn |-> n, prevOut |-> PrevOut(TRUE, <<0, 7>>), hashType |-> h],
     [tx |-> u, nIn |-> n, prevOut |-> PrevOut(TRUE, <<0, p>>), hashType |-> IF g = 0 THEN h ELSE 1]>> :
     t \in {x \in SignedTxs : x.input[1].sequence = 0}, u \in SignedTxs, n \in {1, 2}, p \in {7, 8},
     h \in HashTypes, g \in {0, 1}}
    \cup {LET s == [tx |-> CHOOSE t \in SignedTxs : TRUE, nIn |-> 1,
                   prevOut |-> PrevOut(ok, <<0>>), hashType |-> 1]
          IN <<s, s>> : ok \in BOOLEAN}

-----------------------------------------------------------------------------
(* Files of two blocks, the bytes before and after their coinbases left out.  A *)
(* coinbase is a count, an outpoint, the script after its length, a sequence of  *)
(* two bytes, a count, an amount, a script and a lock time; a uint64 has four.   *)

CoinbaseBytes(height, extra) ==
  LET s == <<Len(height)>> \o height \o extra
  IN <<1, 0, Len(s)>> \o s \o <<7, 7>> \o <<1>> \o <<5, 5, 5, 5>> \o <<1, 6>> \o <<0, 0>>

CoinbaseSlices(from, height, extra) ==
  LET n == 1 + Len(height) + Len(extra)
  IN <<[from |-> from + 3, len |-> n], [from |-> from + 3 + n, len |-> 2],
       [from |-> from + 3 + n + 8, len |-> 1]>>

TwoBlocks(h1, x1, h2, x2) ==
  LET first == CoinbaseBytes(h1, x1)
      number(h) == IF Len(h) = 1 THEN h[1] ELSE h[1] + 8 * h[2]
  IN [bytes |-> first \o CoinbaseBytes(h2, x2),
      blocks |-> <<[slices |-> CoinbaseSlices(0, h1, x1), height |-> number(h1)],
                   [slices |-> CoinbaseSlices(Len(first), h2, x2), height |-> number(h2)]>>]

Heights == [1..1 -> {1, 7}] \cup [1..2 -> {1, 7}]
Extras == UpTo({3}, 3)
HeightFiles ==
  {TwoBlocks(h1, x1, h2, x2) : h1 \in Heights, x1 \in Extras, h2 \in Heights, x2 \in Extras}
=============================================================================
