------------------------------- MODULE Script -------------------------------
(***************************************************************************)
(* src/script/script.go: Encode writes a script, Decode reads one.  The    *)
(* base of the numbers and the opcodes are parameters, so that a size of   *)
(* three bytes is within reach of a model.                                 *)
(***************************************************************************)
EXTENDS ByteOrder, SequencesExt

CONSTANTS
  OP_PUSHDATA1, \* the opcodes below it are sizes
  OP_PUSHDATA2, OP_PUSHDATA4,
  Scripts,      \* the lists of instructions encoded
  Raw           \* the byte strings decoded that Encode did not write

ASSUME OpcodesAssumption ==
  /\ Base \in Nat
  /\ 0 < OP_PUSHDATA1 /\ OP_PUSHDATA1 < OP_PUSHDATA2
  /\ OP_PUSHDATA2 < OP_PUSHDATA4 /\ OP_PUSHDATA4 < Base
  /\ {OP_PUSHDATA1, OP_PUSHDATA2, OP_PUSHDATA4} \subseteq Nat

Byte == 0..(Base - 1)

\* An instruction has data to push, or an opcode that is not that of a push but
\* for zero, which pushes nothing.
Instruction ==
  {x \in [Opcode : Byte \ (1..OP_PUSHDATA4), Data : Seq(Byte)] :
     x.Data # <<>> => x.Opcode = 0}

ASSUME ScriptsAssumption ==
  Scripts \subseteq Seq(Instruction) /\ Raw \subseteq Seq(Byte)

Op(opcode) == [Opcode |-> opcode, Data |-> <<>>]
Push(data) == [Opcode |-> 0, Data |-> data]

size(n) ==
  CASE n < OP_PUSHDATA1 -> <<n>>
    [] n >= OP_PUSHDATA1 /\ n < Base -> <<OP_PUSHDATA1, n>>
    [] n >= Base /\ n < Power[2] -> <<OP_PUSHDATA2>> \o LittleEndian(n, 2)
    [] n >= Power[2] -> <<OP_PUSHDATA4>> \o LittleEndian(n, 4)

\* Mutated form of Encode: a size of two bytes from Base - 1 on.
Encode_early(instrcs) ==
  FlattenSeq([i \in DOMAIN instrcs |->
    LET d == instrcs[i].Data
    IN IF d = <<>> THEN <<instrcs[i].Opcode>>
       ELSE IF Len(d) = Base - 1 THEN <<OP_PUSHDATA2, Len(d)>> \o d ELSE size(Len(d)) \o d])

Encode(instrcs) ==
  FlattenSeq([i \in DOMAIN instrcs |->
    LET d == instrcs[i].Data IN IF d = <<>> THEN <<instrcs[i].Opcode>> ELSE size(Len(d)) \o d])

VARIABLES
  script, \* the instructions encoded, or none
  data,   \* the bytes decoded
  offset,
  instrcs,
  pc

vars == <<script, data, offset, instrcs, pc>>

Init ==
  /\ \/ \E s \in Scripts : script = s /\ data = Encode(s)
     \/ script = <<>> /\ data \in Raw
  /\ offset = 0
  /\ instrcs = <<>>
  /\ pc = "decode"

\* Mutated form of withinBounds: off by one.
withinBounds_offByOne(from, n) == from + n <= Len(data) + 1

withinBounds(from, n) == from + n <= Len(data)

\* A slice of the data; beyond it the program panics.
Inside(from, n) == from + n <= Len(data)
Bytes(from, n) == SubSeq(data, from + 1, from + n)

\* The bytes of a size, and how many of them are looked at.
SizeBytes(opcode) ==
  CASE opcode = OP_PUSHDATA1 -> [skip |-> 1, used |-> 1]
    [] opcode = OP_PUSHDATA2 -> [skip |-> 2, used |-> 2]
    [] opcode = OP_PUSHDATA4 -> [skip |-> 4, used |-> 2] \* Uint16 of four bytes
    [] OTHER -> [skip |-> 0, used |-> 0]

Fails == pc' = "error" /\ UNCHANGED <<offset, instrcs>>
Panics == pc' = "panicked" /\ UNCHANGED <<offset, instrcs>>

readOpcode ==
  /\ pc = "decode" /\ offset < Len(data)
  /\ LET opcode == data[offset + 1]
     IN /\ opcode > OP_PUSHDATA4
        /\ instrcs' = Append(instrcs, Op(opcode))
        /\ offset' = offset + 1
        /\ UNCHANGED pc
  /\ UNCHANGED <<script, data>>

readPush ==
  /\ pc = "decode" /\ offset < Len(data)
  /\ data[offset + 1] <= OP_PUSHDATA4
  /\ LET opcode == data[offset + 1]
         s == SizeBytes(opcode)
         n == IF opcode < OP_PUSHDATA1 THEN opcode ELSE Number(Bytes(offset + 1, s.used))
         body == offset + 1 + s.skip
     IN CASE ~withinBounds(offset + 1, s.skip) -> Fails
          [] withinBounds(offset + 1, s.skip) /\ ~Inside(offset + 1, s.skip) -> Panics
          [] OTHER ->
               CASE ~withinBounds(body, n) -> Fails
                 [] withinBounds(body, n) /\ ~Inside(body, n) -> Panics
                 [] OTHER -> /\ instrcs' = Append(instrcs, Push(Bytes(body, n)))
                             /\ offset' = body + n
                             /\ UNCHANGED pc
  /\ UNCHANGED <<script, data>>

endDecode ==
  /\ pc = "decode" /\ offset >= Len(data)
  /\ pc' = "done"
  /\ UNCHANGED <<script, data, offset, instrcs>>

Next == readOpcode \/ readPush \/ endDecode

Spec == Init /\ [][Next]_vars

-----------------------------------------------------------------------------
\* What Encode writes, Decode reads back instruction by instruction: at every
\* step the instructions so far are a prefix of those encoded, and at the end
\* they are all of them (script.go:56-155).
RoundTrip ==
  script # <<>> => /\ IsPrefix(instrcs, script)
                   /\ pc # "error"
                   /\ pc = "done" => instrcs = script

\* Decode looks at no byte beyond the script, whatever its bytes are, and uses
\* every one of them (script.go:89-155).
ReadsInside ==
  /\ pc # "panicked"
  /\ offset <= Len(data)
  /\ pc = "done" => offset = Len(data)
=============================================================================
