------------------------------ MODULE D2Audit ------------------------------
(***************************************************************************)
(* D2 with two history variables: what the block being handled still owes, *)
(* and which bundles it has to pay are not paid from their own slot.  The  *)
(* code keeps no such state; it relies on the check at the start of        *)
(* HandleMsgs and on handleM6 rejecting what cannot be paid.               *)
(***************************************************************************)
EXTENDS D2

VARIABLES
  owed,   \* the M6IDs with a bundle due when the block began, no M6 of it yet
  unpaid  \* the <<slot, M6ID>> due when the block began and not paid yet

avars == <<m, height, prevM4, todo, status, owed, unpaid>>

\* The bundles that can be withdrawn at height h.
Due(h) ==
  UNION {{<<s, m[s][i].id>> : i \in {k \in DOMAIN m[s] : canBeWithdrawn(m[s][k], h)}}
           : s \in DOMAIN m}

AInit == Init /\ owed = {} /\ unpaid = {}

ANextBlock ==
  /\ NextBlock
  /\ unpaid' = IF status' = "handling" THEN Due(height') ELSE {}
  /\ owed' = {p[2] : p \in unpaid'}

AHandling ==
  /\ Handling
  /\ \/ /\ status' \in {"rejected", "panicked"}
        /\ owed' = {} /\ unpaid' = {}
     \/ /\ status' = "handling" /\ Head(todo).type = "M6"
        /\ owed' = owed \ {Head(todo).id}
        /\ unpaid' = unpaid \ {<<Head(todo).slot, Head(todo).id>>}
     \/ /\ status' = "accepted" \/ (status' = "handling" /\ Head(todo).type # "M6")
        /\ UNCHANGED <<owed, unpaid>>

ANext == ANextBlock \/ AHandling

ASpec == AInit /\ [][ANext]_avars

AFairSpec == ASpec /\ WF_avars(AHandling)

\* The block cannot be accepted while it owes a payment of a bundle that could
\* be withdrawn when the block began, although its own M4 votes come before its
\* M6s and may take the votes of the bundle away (d2.go:57-74, 294-318).
OwedArePaid == status = "accepted" => owed = {}

\* d2.go:302: the block "MUST include the corresponding M6" of an M6ID with
\* enough votes: the one that pays the slot the votes were cast for.
CorrespondingM6Paid == status = "accepted" => unpaid = {}

-----------------------------------------------------------------------------
Abstract(s, b) ==
  [slot |-> s, id |-> b.id, born |-> b.born, approved |-> b.vote > Threshold]

Pending == UNION {{Abstract(s, m[s][i]) : i \in DOMAIN m[s]} : s \in DOMAIN m}

List == INSTANCE WithdrawalList
          WITH pending <- Pending, now <- height, open <- (status = "handling")

\* D2 implements the withdrawal list: a bundle enters the list by an M3 alone,
\* leaves it only when paid while it has the votes and the age, or when too
\* old, and no step of the votes, the sorting or a rejected block loses,
\* duplicates or changes one (all of d2.go:57-329).
ImplementsList == List!Spec
=============================================================================
