------------------------------ MODULE Enforcer ------------------------------
(***************************************************************************)
(* The driver of the enforcer (the loops of src/enforcer/enforcer_test.go  *)
(* and cmd_test.go): for each block of the chain getMessages reads the     *)
(* messages and D2.HandleMsgs handles them.  When getMessages finds the    *)
(* block invalid the driver notes the error and goes on with no messages.  *)
(*                                                                         *)
(* Module Messages reads, module D2 handles; HashLen is 1 here: the hash   *)
(* of a withdrawal is the sequence whose only element is what it covers.   *)
(***************************************************************************)
EXTENDS Integers, Sequences, FiniteSets

CONSTANTS RawBlocks, SidechainNumbers, ActiveSlots, M6IDs, MaxAge, Threshold, Lead, VoteMod, MaxHeight

VARIABLES
  block, pc, next, ms,              \* of getMessages
  m, height, prevM4, todo, status,  \* of D2
  phase,                            \* "read", or "handle" once HandleMsgs is called
  proposed                          \* history: the <<slot, hash>> of the M3s so far

Get == INSTANCE Messages WITH HashLen <- 1

\* The message sequences D2 gets are computed here, not chosen from a set.
D == INSTANCE D2 WITH
       Vouts <- Nat, VoteValues <- Nat, Blocks <- {}

ASSUME ConstantsAssumption ==
  /\ SidechainNumbers \subseteq Nat
  /\ ActiveSlots \subseteq SidechainNumbers
  /\ MaxAge \in Nat /\ Threshold \in Nat /\ Lead \in Nat
  /\ VoteMod \in Nat \ {0, 1}
  /\ MaxHeight \in Nat

\* A slot and the numbers of an M4 are bytes; SidechainNumbers and M6IDs hold
\* the slots and the hashes of the blocks.
Bytes(b) ==
  /\ \A i \in DOMAIN b.coinbase :
       LET body == b.coinbase[i].body
       IN /\ b.coinbase[i].tag = "M3" /\ Len(body) = 2
               => body[1] \in SidechainNumbers /\ SubSeq(body, 2, 2) \in M6IDs
          /\ b.coinbase[i].tag = "M4" => \A k \in DOMAIN body : body[k] \in Nat
  /\ \A t \in DOMAIN b.txs :
       Get!parseM6(b.txs[t]) => /\ b.txs[t].out[1].slot \in SidechainNumbers
                               /\ <<Get!computeM6ID(b.txs[t])>> \in M6IDs

ASSUME RawBlocksAssumption == \A b \in RawBlocks : Get!WellFormed(b) /\ Bytes(b)

readVars == <<block, pc, next, ms>>
d2Vars == <<m, height, prevM4, todo, status>>
vars == <<readVars, d2Vars, phase, proposed>>

Version(n) ==
  CASE n = 0 -> "RepeatPrevious"
    [] n = 1 -> "OneByte"
    [] n = 2 -> "TwoByte"
    [] n = 3 -> "LeadingBy50"
    [] OTHER -> "Unknown"

\* Mutated forms of Seen: without the output index, and with it as the slot.
Seen_noOutput(e) ==
  IF e.msg.type = "M3"
  THEN [type |-> "M3", slot |-> e.msg.slot, id |-> e.msg.hash, vout |-> 0]
  ELSE [type |-> "Other"]
Seen_outputAsSlot(e) ==
  IF e.msg.type = "M3"
  THEN [type |-> "M3", slot |-> e.output, id |-> e.msg.hash, vout |-> e.output]
  ELSE [type |-> "Other"]

\* What D2.handle sees of a message.
Seen(e) ==
  CASE e.msg.type = "M3" -> [type |-> "M3", slot |-> e.msg.slot, id |-> e.msg.hash, vout |-> e.output]
    [] e.msg.type = "M4" -> [type |-> "M4", m4 |-> [Enum |-> Version(e.msg.Enum), V |-> e.msg.V]]
    [] e.msg.type = "M6" -> [type |-> "M6", slot |-> e.msg.slot, id |-> <<e.msg.id>>]
    [] OTHER -> [type |-> "Other"]

Init ==
  /\ Get!Init
  /\ D!Init
  /\ phase = "read"
  /\ proposed = {}

getMessages ==
  /\ phase = "read"
  /\ Get!Next
  /\ UNCHANGED <<d2Vars, phase, proposed>>

HandleMsgs ==
  /\ phase = "read"
  /\ pc \in {"done", "invalid"}
  /\ D!AtRest
  /\ height < MaxHeight
  /\ D!HandleMsgs([i \in DOMAIN ms |-> Seen(ms[i])])
  /\ phase' = "handle"
  /\ proposed' = proposed \cup {<<ms[i].msg.slot, ms[i].msg.hash>> : i \in Get!Of(ms, "M3")}
  /\ UNCHANGED readVars

Handling ==
  /\ phase = "handle"
  /\ D!Handling
  /\ UNCHANGED <<readVars, phase, proposed>>

NextBlock ==
  /\ phase = "handle"
  /\ D!AtRest
  /\ block' \in RawBlocks
  /\ pc' = "coinbase"
  /\ next' = 1
  /\ ms' = <<>>
  /\ phase' = "read"
  /\ UNCHANGED <<d2Vars, proposed>>

Next == getMessages \/ HandleMsgs \/ Handling \/ NextBlock

Spec == Init /\ [][Next]_vars

-----------------------------------------------------------------------------
\* The messages that reach D2 satisfy what module D2 assumes of them, so that
\* what is shown of D2 holds of D2 in the driver (enforcer.go:266-294,
\* d2.go:106-129).
CallInOrder == phase = "handle" => D!InVoutOrder(todo)

\* The lists stay in order and without duplicates when the messages are those
\* of real blocks, valid and invalid ones (d2.go:106-126, 267-292).
ListsInOrder == D!Chronological /\ D!UniqueIDs

\* From the coinbase to the treasury: in an accepted block every transaction
\* that takes from the treasury of a slot was proposed by an M3 for that slot,
\* whose hash fixes the amount (enforcer.go:423-510, d2.go:114-129, 267-292).
WithdrawalsProposed ==
  phase = "handle" /\ status = "accepted" /\ pc = "done" =>
    \A t \in DOMAIN block.txs :
      LET tx == block.txs[t]
      IN Get!parseM6(tx) =>
           \E p \in proposed :
             /\ p[1] = tx.out[1].slot
             /\ tx.in[1].out.value - tx.out[1].value
                  = p[2][1].fee + Get!Sum(Get!Values(p[2][1].payouts))
             /\ p[2][1].payouts = Tail(tx.out)

\* Every bundle of the list comes from an M3, under the slot it was proposed
\* for (enforcer.go:111-119, d2.go:114-129).
BundlesProposed ==
  \A s \in DOMAIN m : \A i \in DOMAIN m[s] : <<s, m[s][i].id>> \in proposed
=============================================================================
