--------------------------- MODULE WithdrawalList ---------------------------
(***************************************************************************)
(* What the withdrawal list of src/enforcer/d2.go promises, without its    *)
(* votes, vectors, indexes and sorting: a set of pending bundles that are  *)
(* proposed, approved and disapproved, paid while approved and young, and  *)
(* dropped when old; and blocks that cannot be accepted while they owe a   *)
(* payment of a bundle approved before they began.                         *)
(***************************************************************************)
EXTENDS Integers

CONSTANTS SidechainNumbers, M6IDs, MaxAge, MaxHeight

VARIABLES
  pending, \* the bundles of the list
  now,     \* the height of the current or the last block
  owed,    \* the M6IDs the current block still has to pay
  open     \* whether a block is being handled

vars == <<pending, now, owed, open>>

Entry == [slot : SidechainNumbers, id : M6IDs, born : 0..MaxHeight, approved : BOOLEAN]

Fresh(p) == now - p.born <= MaxAge

\* An entry without its approval, and the same bundles, approved or not.
Unvoted(p) == [slot |-> p.slot, id |-> p.id, born |-> p.born]
SameBundles(P, Q) == {Unvoted(p) : p \in P} = {Unvoted(q) : q \in Q}

Init == pending = {} /\ now = 0 /\ owed = {} /\ open = FALSE

OpenBlock ==
  /\ ~open
  /\ now' = now + 1
  /\ open' = TRUE
  /\ owed' = {p.id : p \in {q \in pending : q.approved /\ now' - q.born <= MaxAge}}
  /\ UNCHANGED pending

\* A block that does not even contain the payments it owes.
RefuseBlock ==
  /\ ~open
  /\ now' = now + 1
  /\ \E p \in pending : p.approved /\ now' - p.born <= MaxAge
  /\ UNCHANGED <<pending, owed, open>>

Propose ==
  /\ open
  /\ \E s \in SidechainNumbers, id \in M6IDs, a \in BOOLEAN :
       /\ \A p \in pending : p.slot # s \/ p.id # id
       /\ pending' = pending \cup {[slot |-> s, id |-> id, born |-> now, approved |-> a]}
  /\ UNCHANGED <<now, owed, open>>

Ack ==
  /\ open
  /\ SameBundles(pending, pending')
  /\ UNCHANGED <<now, owed, open>>

Pay ==
  /\ open
  /\ \E p \in pending :
       /\ p.approved
       /\ Fresh(p)
       /\ pending' = pending \ {p}
       /\ owed' = owed \ {p.id}
  /\ UNCHANGED <<now, open>>

AcceptBlock ==
  /\ open
  /\ owed = {}
  /\ pending' = {p \in pending : Fresh(p)}
  /\ open' = FALSE
  /\ UNCHANGED <<now, owed>>

\* The acknowledgements before the message that spoils the block stay.
AbortBlock ==
  /\ open
  /\ SameBundles(pending, pending')
  /\ open' = FALSE
  /\ owed' = {}
  /\ UNCHANGED now

Next ==
  \/ OpenBlock \/ RefuseBlock \/ Propose \/ Ack \/ Pay \/ AcceptBlock \/ AbortBlock

Spec == Init /\ [][Next]_vars
=============================================================================
