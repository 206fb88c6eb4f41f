------------------------------- MODULE Bincode -------------------------------
(***************************************************************************)
(* src/util/bincode/bincode.go: Serialize and Deserialize.  A value is     *)
(* written by Serialize, or was by the Thunder node; its bytes may be cut  *)
(* short, or followed by other bytes as every field of a struct is, before *)
(* Deserialize reads them.                                                 *)
(*                                                                         *)
(* A type is a record with a "kind", the one reflect would return.  A      *)
(* struct, an array, a slice, a string is the sequence of its elements, a  *)
(* map a function, a pointer <<>> (nil) or <<x>>, a big.Int its bytes.     *)
(***************************************************************************)
EXTENDS Integers, Sequences, FiniteSets, SequencesExt

INSTANCE ByteOrder WITH Base <- 256

CONSTANTS
  Inputs,       \* what is serialized: pairs of a type and a value
  NodeInputs,   \* what the node has written, in the same form
  LenBytes,     \* bytes of a length (8)
  EnumBytes,    \* bytes of an Enum (4)
  PayloadKinds, \* what serializeComplexEnum writes after the tag ({"struct"})
  BigBytes,     \* bytes of a big.Int (16)
  NaN           \* the float whose bits are not a number

WidthsAssumption == {LenBytes, EnumBytes, BigBytes} \subseteq Nat \ {0}

VARIABLES
  given, \* the <<type, value>> to write
  text,  \* the bytes, as they were written and as Deserialize will see them
  got,   \* the result of Deserialize
  pc

vars == <<given, text, got, pc>>

-----------------------------------------------------------------------------
(* Writing.  The result of a call: whether its error is nil, and the bytes. *)

OK(b) == [ok |-> TRUE, b |-> b]

\* A loop that stops at the first error.
Then(r, s) == IF r.ok THEN [ok |-> s.ok, b |-> r.b \o s.b] ELSE r
All(rs) == FoldLeft(Then, OK(<<>>), rs)

serializeUint128(v) ==
  IF Len(v) > BigBytes THEN [ok |-> FALSE, b |-> <<>>]
  ELSE OK(Reverse([i \in 1..(BigBytes - Len(v)) |-> 0] \o v))

RECURSIVE serialize(_, _)

\* The tag, then the field it selects.
serializeComplexEnum(t, v) ==
  LET tag == OK(LittleEndian(v[1], EnumBytes))
      i == v[1] + 2
  IN CASE i > Len(v) -> [tag EXCEPT !.ok = FALSE]
       [] i <= Len(v) /\ t.fields[i].kind \notin PayloadKinds -> tag
       [] OTHER -> Then(tag, serialize(t.fields[i], v[i]))

\* The kind of the first field is compared with uint8.
serializeStruct(t, v) ==
  IF t.enum /\ EnumBytes = 1
  THEN serializeComplexEnum(t, v)
  ELSE All([i \in DOMAIN v |-> serialize(t.fields[i], v[i])])

\* In the order of the keys.  The error of a value does not end the loop: the
\* next key overwrites it.  (No key fails: vComp takes numbers, strings and
\* arrays of them only.)
serializeMap(t, v) ==
  LET keys == SetToSortSeq(DOMAIN v, <)
      entry(i) == Then(serialize(t.key, keys[i]), serialize(t.elem, v[keys[i]]))
  IN FoldLeft(LAMBDA r, s : [ok |-> s.ok, b |-> r.b \o s.b], OK(<<>>),
              [i \in DOMAIN keys |-> entry(i)])

Elements(t, v) == All([i \in DOMAIN v |-> serialize(t.elem, v[i])])

serialize(t, v) ==
  CASE t.kind = "bool" -> OK(<<IF v THEN 1 ELSE 0>>)
    [] t.kind = "uint" -> OK(LittleEndian(v, t.bytes))
    [] t.kind = "int" -> OK(LittleEndian(v % Power[t.bytes], t.bytes))
    [] t.kind = "float" -> OK(<<v>>) \* f == math.NaN() never holds
    [] t.kind = "skip" -> OK(<<>>)   \* a field tagged borsh_skip
    [] t.kind = "array" -> Elements(t, v)
    [] t.kind \in {"slice", "string"} ->
         Then(OK(LittleEndian(Len(v), LenBytes)), Elements(t, v))
    [] t.kind = "map" ->
         Then(OK(LittleEndian(Cardinality(DOMAIN v), LenBytes)), serializeMap(t, v))
    [] t.kind = "ptr" ->
         IF v = <<>> THEN OK(<<0>>) ELSE Then(OK(<<1>>), serialize(t.elem, v[1]))
    [] t.kind = "big" -> serializeUint128(v)
    [] t.kind = "struct" -> serializeStruct(t, v)

-----------------------------------------------------------------------------
(* Reading.  The result: whether the error is nil, the value, what is left. *)

Fail == [ok |-> FALSE]
Got(v, rest) == [ok |-> TRUE, v |-> v, rest |-> rest]

\* Mutated form of read: what is there is enough.
read_short(d, n) ==
  IF n <= Len(d) THEN Got(SubSeq(d, 1, n), SubSeq(d, n + 1, Len(d)))
  ELSE Got(d \o [i \in 1..(n - Len(d)) |-> 0], <<>>)

\* The first n bytes.
read(d, n) == IF n <= Len(d) THEN Got(SubSeq(d, 1, n), SubSeq(d, n + 1, Len(d))) ELSE Fail

\* What f makes of the value of r, if r has one.
With(r, f(_)) == IF r.ok THEN Got(f(r.v), r.rest) ELSE Fail

RECURSIVE Zero(_)
Zero(t) ==
  CASE t.kind = "bool" -> FALSE
    [] t.kind \in {"uint", "int", "float"} -> 0
    [] t.kind = "skip" -> Zero(t.elem)
    [] t.kind = "array" -> [i \in 1..t.len |-> Zero(t.elem)]
    [] t.kind = "struct" -> [i \in DOMAIN t.fields |-> Zero(t.fields[i])]
    [] OTHER -> <<>>

RECURSIVE deserialize(_, _)

\* The values of a sequence of types, one after the other.
deserializeAll(ts, d) ==
  FoldLeft(LAMBDA r, t : IF ~r.ok THEN Fail
                         ELSE With(deserialize(t, r.rest), LAMBDA x : Append(r.v, x)),
           Got(<<>>, d), ts)

\* Mutated form of deserializeComplexEnum: the bound is off by one.
deserializeComplexEnum_lastRefused(t, d) ==
  LET tag == With(read(d, EnumBytes), Number)
      i == tag.v + 2
  IN IF ~tag.ok \/ (tag.ok /\ i >= Len(t.fields)) THEN Fail
     ELSE With(deserialize(t.fields[i], tag.rest),
               LAMBDA x : [Zero(t) EXCEPT ![1] = tag.v, ![i] = x])

deserializeComplexEnum(t, d) ==
  LET tag == With(read(d, EnumBytes), Number)
      i == tag.v + 2
  IN IF ~tag.ok \/ (tag.ok /\ i > Len(t.fields)) THEN Fail
     ELSE With(deserialize(t.fields[i], tag.rest),
               LAMBDA x : [Zero(t) EXCEPT ![1] = tag.v, ![i] = x])

deserializeStruct(t, d) ==
  IF t.enum THEN deserializeComplexEnum(t, d) ELSE deserializeAll(t.fields, d)

\* The key types and the element types by turns; a later key replaces a former.
deserializeMap(t, n, d) ==
  LET asMap(s) ==
        [k \in {s[2 * i - 1] : i \in 1..n} |->
           s[2 * CHOOSE i \in 1..n :
               s[2 * i - 1] = k /\ \A j \in 1..n : s[2 * j - 1] = k => j <= i]]
  IN With(deserializeAll([i \in 1..(2 * n) |-> IF i % 2 = 1 THEN t.key ELSE t.elem], d), asMap)

deserializeUint128(d) ==
  With(read(d, BigBytes),
       LAMBDA b : LET big == Reverse(b)
                      zeros == {i \in DOMAIN big : \A j \in 1..i : big[j] = 0}
                  IN SubSeq(big, Cardinality(zeros) + 1, BigBytes))

Signed(n, w) == IF n >= Power[w] \div 2 THEN n - Power[w] ELSE n

deserialize(t, d) ==
  CASE t.kind = "bool" ->
         LET r == read(d, 1)
         IN IF r.ok /\ r.v[1] \in {0, 1} THEN Got(r.v[1] = 1, r.rest) ELSE Fail
    [] t.kind = "uint" -> With(read(d, t.bytes), Number)
    [] t.kind = "int" -> With(read(d, t.bytes), LAMBDA b : Signed(Number(b), t.bytes))
    [] t.kind = "float" ->
         LET r == read(d, 1)
         IN IF r.ok /\ r.v[1] # NaN THEN Got(r.v[1], r.rest) ELSE Fail
    [] t.kind = "skip" -> Got(Zero(t.elem), d)
    [] t.kind = "array" -> deserializeAll([i \in 1..t.len |-> t.elem], d)
    [] t.kind \in {"slice", "string"} ->
         LET n == With(read(d, LenBytes), Number)
         IN IF n.ok THEN deserializeAll([i \in 1..n.v |-> t.elem], n.rest) ELSE Fail
    [] t.kind = "map" ->
         LET n == With(read(d, LenBytes), Number)
         IN IF n.ok THEN deserializeMap(t, n.v, n.rest) ELSE Fail
    [] t.kind = "ptr" ->
         LET r == read(d, 1)
         IN CASE ~r.ok -> Fail
              [] r.ok /\ r.v[1] = 0 -> Got(<<>>, r.rest)
              [] OTHER -> With(deserialize(t.elem, r.rest), LAMBDA x : <<x>>)
    [] t.kind = "big" -> deserializeUint128(d)
    [] t.kind = "struct" -> deserializeStruct(t, d)

-----------------------------------------------------------------------------
Written(b) == [written |-> b, stored |-> b]

RECURSIVE encoding(_, _)

\* External: the format, as the node writes it.  A complex enum is its tag and the
\* field that the tag selects; the rest is as in serialize.
encoding(t, v) ==
  LET each == [i \in DOMAIN v |-> encoding(t.elem, v[i])]
  IN CASE t.kind = "struct" /\ t.enum ->
            LittleEndian(v[1], EnumBytes) \o encoding(t.fields[v[1] + 2], v[v[1] + 2])
       [] t.kind = "struct" /\ ~t.enum ->
            FlattenSeq([i \in DOMAIN v |-> encoding(t.fields[i], v[i])])
       [] t.kind = "array" -> FlattenSeq(each)
       [] t.kind = "slice" -> LittleEndian(Len(v), LenBytes) \o FlattenSeq(each)
       [] t.kind = "ptr" -> IF v = <<>> THEN <<0>> ELSE <<1>> \o each[1]
       [] OTHER -> serialize(t, v).b

Init ==
  /\ \/ /\ given \in Inputs
        /\ text = Written(<<>>)
        /\ pc = "write"
     \/ /\ given \in NodeInputs
        /\ text = Written(encoding(given[1], given[2]))
        /\ pc = "stored"
  /\ got = Fail

\* Serialize returns no bytes with an error.
Serialize ==
  /\ pc = "write"
  /\ LET r == serialize(given[1], given[2])
     IN \/ r.ok /\ text' = Written(r.b) /\ pc' = "stored"
        \/ ~r.ok /\ text' = Written(<<>>) /\ pc' = "refused"
  /\ UNCHANGED <<given, got>>

\* The bytes are cut short, or other bytes follow them.
Damage ==
  /\ pc = "stored"
  /\ LET b == text.written
     IN \/ \E n \in 0..(Len(b) - 1) : text' = [text EXCEPT !.stored = SubSeq(b, 1, n)]
        \/ \E x \in {0, 1, 255} : text' = [text EXCEPT !.stored = Append(b, x)]
  /\ pc' = "damaged"
  /\ UNCHANGED <<given, got>>

\* The bytes after the value are ignored.
Deserialize ==
  /\ pc \in {"stored", "damaged"}
  /\ got' = deserialize(given[1], text.stored)
  /\ pc' = "read"
  /\ UNCHANGED <<given, text>>

Next == Serialize \/ Damage \/ Deserialize

Spec == Init /\ [][Next]_vars

-----------------------------------------------------------------------------
\* What follows the format is read back, whatever comes after it, and exactly its
\* bytes are read: the next field starts where this one ends.  So what the node
\* wrote is read back, and what Serialize wrote is if it follows the format, and
\* only then: not if a complex enum is written with the bytes of other fields than
\* the one that its tag selects (bincode.go:24-36, 241-311, 330-382, 403-526).
RoundTrip ==
  LET n == Len(text.written)
      rest == SubSeq(text.stored, n + 1, Len(text.stored))
  IN pc = "read" /\ Len(text.stored) >= n =>
       (got = Got(given[2], rest) <=> text.written = encoding(given[1], given[2]))

\* Bytes of the format that were cut short are never read as a value, whichever
\* field, length or tag the cut goes through (bincode.go:38-48).
TruncatedRefused ==
  pc = "read" /\ text.written = encoding(given[1], given[2])
    /\ Len(text.stored) < Len(text.written) => ~got.ok
=============================================================================
