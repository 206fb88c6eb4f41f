----------------------------- MODULE Descriptor -----------------------------
(***************************************************************************)
(* descriptorChecksum of src/bip380/bip380.go: the eight characters that a *)
(* wallet appends to a descriptor, so that the reader of a copied          *)
(* descriptor sees that it was miscopied.  A character is its position in  *)
(* inputCharset, from 0 on; a position beyond the 95 stands for any other  *)
(* character.                                                              *)
(***************************************************************************)
EXTENDS Checksum

CONSTANTS
  Spans,  \* the descriptors
  Letters \* the positions of the characters written by mistake

VARIABLES
  given, \* the span
  text,  \* the span as it was copied
  got,   \* the checksums of both
  pc

vars == <<given, text, got, pc>>

InputChars == 0..94

\* The generator of 40 bits, in two halves.
generator ==
  [k \in 1..5 |->
     Symbols(<<\hf5dee, \ha9fdc, \h1bab1, \h3706b, \h644d6>>[k], 4)
       \o Symbols(<<\h51989, \ha3312, \h0e32d, \h1677a, \h26ffd>>[k], 4)]

feedback == Feedback(generator)

\* The number 1, as eight symbols.
One == [i \in 1..8 |-> i \div 8]

polyMod(c, val) == Shift(feedback, c, val)

\* Mutated form of GroupEnds: the last characters need not be a group.
GroupEnds_full(span, i) == i % 3 = 0

\* The characters are in groups of three; the last group may be shorter.
GroupEnds(span, i) == i % 3 = 0 \/ i = Len(span)

\* The classes of a group as a number in base 3.
cls(group) == FoldLeft(LAMBDA n, pos : 3 * n + pos \div 32, 0, group)

\* The low bits of each character, and after each group its classes.
Expanded(span) ==
  FlattenSeq([i \in DOMAIN span |->
    <<span[i] % 32>>
      \o (IF GroupEnds(span, i) THEN <<cls(SubSeq(span, i - ((i - 1) % 3), i))>> ELSE <<>>)])

descriptorChecksum(span) ==
  LET values == Expanded(span) \o [i \in 1..8 |-> 0]
      c[i \in 0..Len(values)] == IF i = 0 THEN One ELSE polyMod(c[i - 1], values[i])
      chk == Added(c[Len(values)], One)
  IN IF \E i \in DOMAIN span : span[i] \notin InputChars THEN <<>>
     ELSE [j \in 1..8 |-> charset[chk[j] + 1]]

Init ==
  /\ given \in Spans
  /\ text = given
  /\ got = <<>>
  /\ pc = "append checksum"

checksum ==
  /\ pc = "append checksum"
  /\ got' = <<descriptorChecksum(given)>>
  /\ pc' = "written"
  /\ UNCHANGED <<given, text>>

\* One character is another one, or two neighbours are swapped.
Miscopied(s) ==
  ({[s EXCEPT ![i] = d] : i \in DOMAIN s, d \in Letters}
     \cup {[s EXCEPT ![i] = s[i + 1], ![i + 1] = s[i]] : i \in 1..(Len(s) - 1)})
    \ {s}

\* External: the descriptor is copied by hand.
copy ==
  /\ pc = "written"
  /\ text' \in Miscopied(text)
  /\ pc' = "copied"
  /\ UNCHANGED <<given, got>>

\* External: whoever reads the descriptor computes the checksum again.
compare ==
  /\ pc = "copied"
  /\ got' = Append(got, descriptorChecksum(text))
  /\ pc' = "compared"
  /\ UNCHANGED <<given, text>>

Next == checksum \/ copy \/ compare

Spec == Init /\ [][Next]_vars

-----------------------------------------------------------------------------
\* A descriptor of the input characters copied with a wrong one, or with two
\* swapped, has another checksum: the class of every character is shifted in,
\* that of the last ones too, whose group is not full (bip380.go:145-161).
TypoShows == pc = "compared" /\ got[1] # <<>> => got[1] # got[2]
=============================================================================
