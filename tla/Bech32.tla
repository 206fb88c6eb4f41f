------------------------------- MODULE Bech32 -------------------------------
(***************************************************************************)
(* src/bech32/bech32.go: bech32 and bech32m strings, and the addresses of  *)
(* segwit programs.  A string is the sequence of its character codes.      *)
(***************************************************************************)
EXTENDS Checksum

EncodingNone == "none"
EncodingBech32 == "bech32"
EncodingBech32m == "bech32m"

generator ==
  [k \in 1..5 |-> Symbols(<<\h3b6a57b2, \h26508e6d, \h1ea119fa, \h3d4233dd, \h2a1462b3>>[k], 6)]

feedback == Feedback(generator)

polymod(values) ==
  LET chk[i \in 0..Len(values)] ==
        IF i = 0 THEN Symbols(1, 6) ELSE Shift(feedback, chk[i - 1], values[i])
  IN chk[Len(values)]

hrpExpand(hrp) == [i \in DOMAIN hrp |-> hrp[i] \div 32] \o <<0>> \o [i \in DOMAIN hrp |-> hrp[i] % 32]

finalConstant(enc) == Symbols(IF enc = EncodingBech32 THEN 1 ELSE \h2bc830a3, 6)

checksumEncoding(hrp, data) ==
  LET chk == polymod(hrpExpand(hrp) \o data)
  IN CASE chk = finalConstant(EncodingBech32) -> EncodingBech32
       [] chk = finalConstant(EncodingBech32m) -> EncodingBech32m
       [] OTHER -> EncodingNone

createChecksum(hrp, data, enc) ==
  Added(polymod(hrpExpand(hrp) \o data \o <<0, 0, 0, 0, 0, 0>>), finalConstant(enc))

-----------------------------------------------------------------------------
OK(v) == [ok |-> TRUE, v |-> v]
Refused == [ok |-> FALSE]

Separator == 49 \* "1"
UpperCase == 65..90
LowerCase == 97..122
ToLower(s) == [i \in DOMAIN s |-> IF s[i] \in UpperCase THEN s[i] + 32 ELSE s[i]]
ToUpper(s) == [i \in DOMAIN s |-> IF s[i] \in LowerCase THEN s[i] - 32 ELSE s[i]]

\* After the refusal of capitals the hrp has one case.  The checksum is not
\* looked at unless every symbol is one.
Encode(hrp, data, enc) ==
  IF \/ Len(hrp) + Len(data) + 7 > 90
     \/ Len(hrp) < 1
     \/ \E i \in DOMAIN hrp : hrp[i] \notin 33..126 \ UpperCase
     \/ \E i \in DOMAIN data : data[i] \notin Symbol
  THEN Refused
  ELSE LET combined == data \o createChecksum(hrp, data, enc)
       IN OK(hrp \o <<Separator>> \o [i \in DOMAIN combined |-> charset[combined[i] + 1]])

\* The value of a character of the data part, from 0 on; -1 if it has none.
Value(c) ==
  IF \E d \in Symbol : charset[d + 1] = c THEN CHOOSE d \in Symbol : charset[d + 1] = c ELSE -1

Decode(bechString) ==
  LET s == ToLower(bechString)
      ones == {i \in DOMAIN s : s[i] = Separator}
      pos == Max(ones \cup {0}) - 1
      hrp == SubSeq(s, 1, pos)
      data == [i \in 1..(Len(s) - pos - 1) |-> Value(s[pos + 1 + i])]
  IN IF \/ Len(s) > 90
        \/ bechString # s /\ bechString # ToUpper(bechString)
        \/ pos < 1 \/ pos + 7 > Len(s)
        \/ \E i \in DOMAIN hrp : hrp[i] \notin 33..126
        \/ \E i \in DOMAIN data : data[i] = -1
        \/ checksumEncoding(hrp, data) = EncodingNone
     THEN Refused
     ELSE OK([hrp |-> hrp, data |-> SubSeq(data, 1, Len(data) - 6),
              enc |-> checksumEncoding(hrp, data)])

-----------------------------------------------------------------------------
Bits(v, w) == [i \in 1..w |-> Bit(v, w - i)]
Number(bits) == FoldLeft(LAMBDA n, b : 2 * n + b, 0, bits)
Zeros(n) == [i \in 1..n |-> 0]

\* Mutated form of convertbits: any padding will do.
convertbits_anyPadding(data, frombits, tobits, pad) ==
  LET bits == FlattenSeq([i \in DOMAIN data |-> Bits(data[i], frombits)])
      whole == Len(bits) \div tobits
      rest == SubSeq(bits, whole * tobits + 1, Len(bits))
      ret == [i \in 1..whole |-> Number(SubSeq(bits, (i - 1) * tobits + 1, i * tobits))]
      last == Number(rest \o Zeros(tobits - Len(rest)))
  IN CASE pad -> OK(IF rest = <<>> THEN ret ELSE Append(ret, last))
       [] ~pad -> IF Len(rest) >= frombits THEN Refused ELSE OK(ret)

\* Mutated form of convertbits: the bits left over are not written.
convertbits_noPadding(data, frombits, tobits, pad) ==
  LET bits == FlattenSeq([i \in DOMAIN data |-> Bits(data[i], frombits)])
      whole == Len(bits) \div tobits
      rest == SubSeq(bits, whole * tobits + 1, Len(bits))
      ret == [i \in 1..whole |-> Number(SubSeq(bits, (i - 1) * tobits + 1, i * tobits))]
  IN IF ~pad /\ (Len(rest) >= frombits \/ Number(rest) # 0) THEN Refused ELSE OK(ret)

\* The bits of the data regrouped.  acc holds those not written yet, and older
\* ones above them that no test looks at.
convertbits(data, frombits, tobits, pad) ==
  LET bits == FlattenSeq([i \in DOMAIN data |-> Bits(data[i], frombits)])
      whole == Len(bits) \div tobits
      rest == SubSeq(bits, whole * tobits + 1, Len(bits))
      ret == [i \in 1..whole |-> Number(SubSeq(bits, (i - 1) * tobits + 1, i * tobits))]
      last == Number(rest \o Zeros(tobits - Len(rest)))
  IN CASE \E i \in DOMAIN data : data[i] >= 2^frombits -> Refused
       [] pad -> OK(IF rest = <<>> THEN ret ELSE Append(ret, last))
       [] OTHER -> IF Len(rest) >= frombits \/ last # 0 THEN Refused ELSE OK(ret)

\* The lengths of a program: BIP141 wants 20 or 32 bytes for version 0.
ProgramLength(version, n) == n \in 2..40 /\ (version = 0 => n \in {20, 32})

\* Mutated form of EncodingOf: the encoding of BIP173 for every version.
EncodingOf_bip173(version) == EncodingBech32

EncodingOf(version) == IF version = 0 THEN EncodingBech32 ELSE EncodingBech32m

SegwitAddrEncode(w) ==
  IF w.version \notin 0..16 \/ ~ProgramLength(w.version, Len(w.program))
  THEN Refused
  ELSE Encode(w.hrp, <<w.version>> \o convertbits(w.program, 8, 5, TRUE).v, EncodingOf(w.version))

SegwitAddrDecode(addr) ==
  LET d == Decode(addr)
      data == d.v.data
      res == convertbits(Tail(data), 5, 8, FALSE)
  IN IF \/ ~d.ok
        \/ Len(data) \notin 1..65
        \/ data[1] > 16
        \/ d.v.enc # EncodingOf(data[1])
        \/ ~res.ok
        \/ ~ProgramLength(data[1], Len(res.v))
     THEN Refused
     ELSE OK([hrp |-> d.v.hrp, version |-> data[1], program |-> res.v])
=============================================================================
