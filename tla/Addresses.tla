------------------------------ MODULE Addresses ------------------------------
(***************************************************************************)
(* An address on its way from the wallet that writes it (SegwitAddrEncode) *)
(* to the one that reads it (SegwitAddrDecode): it may be spelt in         *)
(* capitals, be copied with a mistake, or come from another encoder.       *)
(***************************************************************************)
EXTENDS Bech32

CONSTANTS
  Witnesses, \* records [hrp, version, program] that are given addresses
  Strings    \* records [hrp, data, enc] of strings that others encode

VARIABLES
  given, \* the witness or the string
  text,
  got,   \* the result of SegwitAddrDecode
  pc

vars == <<given, text, got, pc>>

Init ==
  /\ given \in Witnesses \cup Strings
  /\ text = <<>>
  /\ got = Refused
  /\ pc = "write"

encode ==
  /\ pc = "write" /\ given \in Witnesses
  /\ LET r == SegwitAddrEncode(given)
     IN IF r.ok THEN text' = r.v /\ pc' = "sent" ELSE text' = <<>> /\ pc' = "refused"
  /\ UNCHANGED <<given, got>>

\* External: a well-formed string, whatever its data are.
encodeElsewhere ==
  /\ pc = "write" /\ given \in Strings
  /\ text' = Encode(given.hrp, given.data, given.enc).v
  /\ pc' = "foreign"
  /\ UNCHANGED <<given, got>>

\* One character is another, two neighbours are swapped, or a "q" before the
\* last one is added or left out.
Miscopied(s) ==
  LET last == Len(s)
  IN ({[s EXCEPT ![i] = charset[d]] : i \in DOMAIN s, d \in 1..32}
       \cup {[s EXCEPT ![i] = s[i + 1], ![i + 1] = s[i]] : i \in 1..(last - 1)}
       \cup {SubSeq(s, 1, last - 1) \o <<charset[1], s[last]>>}
       \cup (IF s[last - 1] = charset[1] THEN {SubSeq(s, 1, last - 2) \o <<s[last]>>} ELSE {}))
     \ {s}

\* External: the address is copied by hand.
copy ==
  /\ pc = "sent"
  /\ \/ text' = ToUpper(text) /\ pc' = "copied"
     \/ text' \in Miscopied(text) /\ pc' = "miscopied"
  /\ UNCHANGED <<given, got>>

decode ==
  /\ pc \in {"sent", "copied", "miscopied", "foreign"}
  /\ got' = SegwitAddrDecode(text)
  /\ pc' = CASE pc \in {"sent", "copied"} -> "read"
             [] pc = "miscopied" -> "misread"
             [] OTHER -> "readForeign"
  /\ UNCHANGED <<given, text>>

Next == encode \/ encodeElsewhere \/ copy \/ decode

Spec == Init /\ [][Next]_vars

-----------------------------------------------------------------------------
\* An address read from a faithful copy, in either case, is that of the witness
\* it was written for (bech32.go:85-150, 152-178, 180-235).
AddressRoundTrip == pc = "read" => got.ok /\ got.v = given

\* A copy with one wrong character, two swapped or a "q" too many or too few is
\* never read as an address, of whatever version (bech32.go:29-69, 192-197).
MistakesRefused == pc = "misread" => ~got.ok

\* A witness has one address only, up to case: whatever string is read as an
\* address is the one that SegwitAddrEncode writes for what was read, so that
\* neither padding nor encoding nor length can be varied (bech32.go:152-209).
OneAddress ==
  got.ok => /\ SegwitAddrEncode(got.v).ok
            /\ SegwitAddrEncode(got.v).v = ToLower(text)
=============================================================================
