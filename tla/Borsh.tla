------------------------------- MODULE Borsh -------------------------------
(***************************************************************************)
(* src/util/borsh/borsh.go, the code that bincode.go was made from: the    *)
(* same functions with lengths of four bytes and an Enum of one.  That     *)
(* Enum is of the kind that the test of serializeStruct looks for, and the *)
(* payload of a complex enum may be of any kind.  package thunder writes   *)
(* what it hashes with it.                                                 *)
(***************************************************************************)
EXTENDS Integers, Sequences

CONSTANTS
  Inputs,   \* what is serialized: pairs of a type and a value
  BigBytes, \* bytes of a big.Int (16)
  NaN       \* the float whose bits are not a number

VARIABLES given, text, got, pc \* as in Bincode

vars == <<given, text, got, pc>>

Kinds == {"bool", "uint", "int", "float", "array", "slice", "string", "map", "ptr", "big", "struct"}

\* No other program writes what is read with borsh.
Format == INSTANCE Bincode WITH
  NodeInputs <- {}, LenBytes <- 4, EnumBytes <- 1, PayloadKinds <- Kinds

serializeUint128(v) == Format!serializeUint128(v)
serializeComplexEnum(t, v) == Format!serializeComplexEnum(t, v)
serializeStruct(t, v) == Format!serializeStruct(t, v)
serializeMap(t, v) == Format!serializeMap(t, v)
serialize(t, v) == Format!serialize(t, v)

read(d, n) == Format!read(d, n)
deserializeComplexEnum(t, d) == Format!deserializeComplexEnum(t, d)
deserializeStruct(t, d) == Format!deserializeStruct(t, d)
deserializeUint128(d) == Format!deserializeUint128(d)
deserialize(t, d) == Format!deserialize(t, d)

Init == Format!Init

\* The bytes written before an error are returned with it.
Serialize ==
  /\ pc = "write"
  /\ LET r == serialize(given[1], given[2])
     IN /\ text' = Format!Written(r.b)
        /\ pc' = IF r.ok THEN "stored" ELSE "refused"
  /\ UNCHANGED <<given, got>>

Deserialize ==
  /\ pc \in {"stored", "damaged"}
  /\ got' = deserialize(given[1], text.stored)
  /\ pc' = "read"
  /\ UNCHANGED <<given, text>>

Next == Serialize \/ Format!Damage \/ Deserialize

Spec == Init /\ [][Next]_vars

-----------------------------------------------------------------------------
\* What Serialize writes, every complex enum among it, follows the format, and
\* Deserialize reads it back and exactly its bytes (borsh.go:17-41, 253-304, 323-370).
RoundTrip ==
  pc = "read" => /\ text.written = Format!encoding(given[1], given[2])
                 /\ Format!RoundTrip

\* Bytes that were cut short are never read as a value (borsh.go:31-41).
TruncatedRefused == Format!TruncatedRefused
=============================================================================
