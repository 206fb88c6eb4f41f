--------------------------- MODULE D2AuditProofs ---------------------------
(***************************************************************************)
(* Theorems about module D2Audit, for every value of its constants: what   *)
(* an accepted block has paid.                                             *)
(***************************************************************************)
EXTENDS D2Audit, D2Proofs

\* The M6IDs of the M6s of a list of messages.
Announced(ms) == {ms[k].id : k \in {j \in DOMAIN ms : ms[j].type = "M6"}}

\* While a block is handled, each M6ID it owes is that of an M6 still to come;
\* after it nothing is owed.
OwedOK ==
  IF status = "handling" THEN owed \subseteq Announced(todo) ELSE owed = {}

-----------------------------------------------------------------------------
\* The next message is announced, or one of those after it is.
LEMMA AnnouncedFirst ==
  ASSUME NEW ms \in Seq(Message), ms # <<>>
  PROVE  Announced(ms) \subseteq
           Announced(Tail(ms)) \cup (IF Head(ms).type = "M6" THEN {Head(ms).id} ELSE {})
<1> SUFFICES ASSUME NEW k \in DOMAIN ms, ms[k].type = "M6"
             PROVE  \/ ms[k].id \in Announced(Tail(ms))
                    \/ Head(ms).type = "M6" /\ ms[k].id = Head(ms).id
  BY DEF Announced
<1>1. CASE k = 1
  BY <1>1, HeadTailProperties
<1>2. CASE k # 1
  <2>1. k - 1 \in DOMAIN Tail(ms) /\ Tail(ms)[k - 1] = ms[k]
    BY <1>2, LenProperties, HeadTailProperties
  <2> QED
    BY <2>1 DEF Announced
<1> QED
  BY <1>1, <1>2

\* Putting a message in front of the others loses none of them.
LEMMA AnnouncedAfter ==
  ASSUME NEW msg \in Message, NEW ms \in Seq(Message)
  PROVE  Announced(ms) \subseteq Announced(<<msg>> \o ms)
<1> SUFFICES ASSUME NEW k \in DOMAIN ms, ms[k].type = "M6"
             PROVE  ms[k].id \in Announced(<<msg>> \o ms)
  BY DEF Announced
<1>1. k + 1 \in DOMAIN (<<msg>> \o ms) /\ (<<msg>> \o ms)[k + 1] = ms[k]
  BY LenProperties
<1> QED
  BY <1>1 DEF Announced

\* The steps of D2Audit are those of D2.
LEMMA AStepIsStep == [ANext]_avars => [Next]_vars
BY DEF ANext, ANextBlock, AHandling, Next, avars, vars

-----------------------------------------------------------------------------
\* The check at the start of HandleMsgs finds an M6 for each M6ID that is due.
LEMMA ANextBlockOK == IInv /\ OwedOK /\ ANextBlock => OwedOK'
<1> SUFFICES ASSUME ANextBlock, NEW ms \in Blocks, HandleMsgs(ms)
             PROVE  OwedOK'
  BY DEF ANextBlock, NextBlock
<1>1. CASE status' = "handling"
  <2>1. checkVotedM6Withdrawn(ms, height + 1) /\ todo' = ms /\ height' = height + 1
    BY <1>1 DEF HandleMsgs
  <2>2. owed' = {p[2] : p \in Due(height + 1)}
    BY <1>1, <2>1 DEF ANextBlock
  <2>3. \A s \in DOMAIN m : \A i \in DOMAIN m[s] :
          canBeWithdrawn(m[s][i], height + 1) => m[s][i].id \in Announced(ms)
    BY <2>1 DEF checkVotedM6Withdrawn, Announced
  <2>4. \A p \in Due(height + 1) : p[2] \in Announced(ms)
    BY <2>3 DEF Due
  <2> QED
    BY <1>1, <2>1, <2>2, <2>4 DEF OwedOK
<1>2. CASE status' # "handling"
  BY <1>2 DEF ANextBlock, OwedOK
<1> QED
  BY <1>1, <1>2

\* A message is done with: the M6ID of an M6 is not owed any more.
LEMMA MessageDoneOwed ==
  ASSUME TodoOK, OwedOK, AHandling, status = "handling", todo # <<>>,
         todo' = Tail(todo), status' = "handling"
  PROVE  OwedOK'
<1>1. todo \in Seq(Message)
  BY DEF TodoOK
<1>2. CASE Head(todo).type = "M6"
  BY <1>1, <1>2, AnnouncedFirst DEF AHandling, OwedOK
<1>3. CASE Head(todo).type # "M6"
  BY <1>1, <1>3, AnnouncedFirst DEF AHandling, OwedOK
<1> QED
  BY <1>2, <1>3

LEMMA AHandlingOK == IInv /\ OwedOK /\ AHandling => OwedOK'
<1> SUFFICES ASSUME IInv, OwedOK, AHandling
             PROVE  OwedOK'
  OBVIOUS
<1>1. TodoOK /\ todo \in Seq(Message) /\ prevM4 \in M4
  BY DEF IInv, TodoOK, RestOK
<1>2. status = "handling"
  BY DEF AHandling, Handling, handleM3, handleM4Repeat, handleM4Votes, handleM4Leading,
         handleM4Unknown, handleM6, handleOther, delExpired, CurrentM4, Current
<1>3. CASE delExpired
  <2>1. owed = {}
    BY <1>2, <1>3 DEF delExpired, OwedOK, Announced
  <2> QED
    BY <1>3, <2>1 DEF delExpired, AHandling, OwedOK
<1>4. CASE handleM4Repeat
  <2>1. todo # <<>> /\ Head(todo).type = "M4" /\ status' = "handling"
    BY <1>4 DEF handleM4Repeat, CurrentM4, Current
  <2>2. owed' = owed
    BY <2>1 DEF AHandling
  <2>3. owed \subseteq Announced(Tail(todo))
    BY <1>1, <1>2, <2>1, AnnouncedFirst DEF OwedOK
  <2>4. todo' = <<[type |-> "M4", m4 |-> prevM4]>> \o Tail(todo)
    BY <1>4 DEF handleM4Repeat
  <2>5. [type |-> "M4", m4 |-> prevM4] \in Message /\ Tail(todo) \in Seq(Message)
    BY <1>1, <2>1, HeadTailProperties DEF Message
  <2> QED
    BY <2>1, <2>2, <2>3, <2>4, <2>5, AnnouncedAfter DEF OwedOK
<1>5. CASE ~delExpired /\ ~handleM4Repeat
  <2>1. todo # <<>>
    BY <1>5 DEF AHandling, Handling, handleM3, handleM4Votes, handleM4Leading,
                handleM4Unknown, handleM6, handleOther, CurrentM4, Current
  <2>2. \/ NextMessage
        \/ status' \in {"rejected", "panicked"}
    BY <1>5 DEF AHandling, Handling, handleM3, handleM4Votes, handleM4Leading,
                handleM4Unknown, handleM6, handleOther, Reject
  <2>3. CASE NextMessage
    BY <1>1, <1>2, <2>1, <2>3, MessageDoneOwed DEF NextMessage
  <2>4. CASE status' \in {"rejected", "panicked"}
    BY <2>4 DEF AHandling, OwedOK
  <2> QED
    BY <2>2, <2>3, <2>4
<1> QED
  BY <1>3, <1>4, <1>5

-----------------------------------------------------------------------------
LEMMA AStepOK == IInv /\ OwedOK /\ [ANext]_avars => IInv' /\ OwedOK'
<1> SUFFICES ASSUME IInv, OwedOK, [ANext]_avars
             PROVE  IInv' /\ OwedOK'
  OBVIOUS
<1>1. IInv'
  BY AStepIsStep, StepOK
<1>2. CASE ANextBlock
  BY <1>1, <1>2, ANextBlockOK
<1>3. CASE AHandling
  BY <1>1, <1>3, AHandlingOK
<1>4. CASE UNCHANGED avars
  BY <1>1, <1>4 DEF avars, OwedOK, Announced
<1> QED
  BY <1>2, <1>3, <1>4 DEF ANext

\* No block is accepted while it owes a payment: each bundle that could be
\* withdrawn when the block began has an M6 with its M6ID, and every M6 of the
\* block has been handled, whatever its votes did before (d2.go:57-74, 294-318).
THEOREM OwedArePaidHolds == ASpec => []OwedArePaid
<1>1. AInit => IInv /\ OwedOK
  BY InitOK DEF AInit, Init, OwedOK
<1>2. IInv /\ OwedOK => OwedArePaid
  BY DEF OwedOK, OwedArePaid
<1> QED
  BY <1>1, <1>2, AStepOK, PTL DEF ASpec

-----------------------------------------------------------------------------
(* D2Audit implements WithdrawalList: each step of HandleMsgs is a step of  *)
(* the list, or none.                                                      *)

\* The entries of the list that stand for the bundles of a slot.
Entries(s, bs) == {Abstract(s, bs[i]) : i \in DOMAIN bs}

LEMMA PendingEntries ==
  /\ Pending = UNION {Entries(s, m[s]) : s \in DOMAIN m}
  /\ Pending' = UNION {Entries(s, m'[s]) : s \in DOMAIN m'}
BY DEF Pending, Entries

LEMMA SlotOfEntry ==
  ASSUME NEW s, NEW bs, NEW p \in Entries(s, bs)
  PROVE  p.slot = s
BY DEF Entries, Abstract

\* The entries of a slot, known or not.
LEMMA SlotPending ==
  ASSUME NEW slot
  PROVE  {p \in Pending : p.slot = slot} = Entries(slot, Bundles(slot))
<1>1. CASE slot \in DOMAIN m
  BY <1>1, PendingEntries, SlotOfEntry DEF Bundles
<1>2. CASE slot \notin DOMAIN m
  <2>1. Entries(slot, Bundles(slot)) = {}
    BY <1>2 DEF Bundles, Entries
  <2> QED
    BY <1>2, <2>1, PendingEntries, SlotOfEntry
<1> QED
  BY <1>1, <1>2

\* A step that replaces the bundles of one slot.
LEMMA SetPending ==
  ASSUME NEW slot, NEW bs, SetBundles(slot, bs)
  PROVE  Pending' = {p \in Pending : p.slot # slot} \cup Entries(slot, bs)
<1>1. DOMAIN m' = DOMAIN m \cup {slot}
  BY DEF SetBundles
<1>2. \A s \in DOMAIN m' : m'[s] = IF s = slot THEN bs ELSE m[s]
  BY DEF SetBundles
<1>3. \A p : p \in Pending' <=> \/ \E s \in DOMAIN m \ {slot} : p \in Entries(s, m[s])
                                \/ p \in Entries(slot, bs)
  BY <1>1, <1>2, PendingEntries
<1>4. \A p : p \in Pending /\ p.slot # slot
             <=> \E s \in DOMAIN m \ {slot} : p \in Entries(s, m[s])
  BY PendingEntries, SlotOfEntry
<1> QED
  BY <1>3, <1>4

\* Sorting loses no bundle that is kept, and adds none.
LEMMA SelectionEntries ==
  ASSUME NEW s, NEW bs, Good(bs), NEW keep \in SUBSET DOMAIN bs
  PROVE  Entries(s, SortChrono(bs, keep)) = {Abstract(s, bs[j]) : j \in keep}
<1>1. /\ \A i \in DOMAIN SortChrono(bs, keep) :
           \E j \in keep : SortChrono(bs, keep)[i] = bs[j]
      /\ \A j \in keep : \E i \in DOMAIN SortChrono(bs, keep) :
           SortChrono(bs, keep)[i] = bs[j]
  BY SelectionKeeps DEF Good
<1> QED
  BY <1>1 DEF Entries

LEMMA AppendEntries ==
  ASSUME NEW s, NEW bs \in Seq(Bundle), NEW b \in Bundle
  PROVE  Entries(s, Append(bs, b)) = Entries(s, bs) \cup {Abstract(s, b)}
<1> DEFINE t == Append(bs, b)
<1>1. Len(bs) \in Nat /\ DOMAIN bs = 1..Len(bs)
  BY LenProperties
<1>2. /\ t \in Seq(Bundle) /\ Len(t) = Len(bs) + 1
      /\ \A i \in 1..Len(bs) : t[i] = bs[i]
      /\ t[Len(bs) + 1] = b
  BY AppendProperties
<1>3. DOMAIN t = DOMAIN bs \cup {Len(bs) + 1}
  BY <1>1, <1>2, LenProperties
<1> HIDE DEF t
<1>4. Entries(s, t) = Entries(s, bs) \cup {Abstract(s, b)}
  BY <1>1, <1>2, <1>3 DEF Entries
<1> QED
  BY <1>4 DEF t

\* An M3 adds one entry, of a slot and an ID that the list did not have.
LEMMA ProposeStep ==
  ASSUME IInv, handleM3, NextMessage, owed' = owed
  PROVE  List!Propose \/ (Pending' = Pending)
<1> DEFINE msg == Head(todo)
           old == Bundles(msg.slot)
           bs == Append(old, Proposal)
<1>1. CASE UNCHANGED m
  BY <1>1, PendingEntries
<1>2. CASE /\ IndexesOf(msg.slot, msg.id) = {}
           /\ SetBundles(msg.slot, SortChrono(bs, DOMAIN bs))
  <2>1. Proposal \in Bundle /\ Good(bs) /\ Good(old)
    BY <1>2, ProposalGood, BundlesOK DEF handleM3, IInv
  <2>2. Entries(msg.slot, SortChrono(bs, DOMAIN bs)) = Entries(msg.slot, bs)
    <3> HIDE DEF bs
    <3>1. Entries(msg.slot, SortChrono(bs, DOMAIN bs)) = {Abstract(msg.slot, bs[j]) : j \in DOMAIN bs}
      BY <2>1, SelectionEntries
    <3> QED
      BY <3>1 DEF Entries
  <2>3. Entries(msg.slot, bs) = Entries(msg.slot, old) \cup {Abstract(msg.slot, Proposal)}
    BY <2>1, AppendEntries DEF Good
  <2>4. Pending' = Pending \cup {Abstract(msg.slot, Proposal)}
    <3> HIDE DEF bs, old
    <3>1. Pending' = {p \in Pending : p.slot # msg.slot}
                       \cup Entries(msg.slot, SortChrono(bs, DOMAIN bs))
      BY <1>2, SetPending
    <3>2. {p \in Pending : p.slot = msg.slot} = Entries(msg.slot, old)
      BY SlotPending DEF old
    <3> QED
      BY <2>2, <2>3, <3>1, <3>2
  <2>5. \A p \in Pending : p.slot # msg.slot \/ p.id # msg.id
    <3>1. \A p \in Entries(msg.slot, old) : p.id # msg.id
      BY <1>2 DEF Entries, Abstract, IndexesOf
    <3> QED
      BY <3>1, SlotPending
  <2>6. /\ Abstract(msg.slot, Proposal)
             = [slot |-> msg.slot, id |-> msg.id, born |-> height, approved |-> 1 > Threshold]
        /\ (1 > Threshold) \in BOOLEAN
    BY DEF Abstract, Proposal
  <2>7. msg.slot \in SidechainNumbers /\ msg.id \in M6IDs
    <3>1. msg \in Message /\ msg.type = "M3"
      BY TodoFirst DEF handleM3, Current, IInv
    <3> QED
      BY <3>1 DEF Message
  <2>8. (status = "handling") /\ (status' = "handling") /\ height' = height
    BY DEF handleM3, Current, NextMessage
  <2> HIDE DEF msg, old, bs
  <2> QED
    BY <2>4, <2>5, <2>6, <2>7, <2>8 DEF List!Propose
<1> QED
  BY <1>1, <1>2 DEF handleM3, Proposal

\* Votes change whether a bundle is approved, and nothing else of the list.
LEMMA VotesPending ==
  ASSUME IInv, handleM4Votes \/ handleM4Leading
  PROVE  List!SameBundles(Pending, Pending')
<1>1. \A s, b, c : b.id = c.id /\ b.born = c.born
                     => List!Unvoted(Abstract(s, b)) = List!Unvoted(Abstract(s, c))
  BY DEF Abstract, List!Unvoted
<1>2. /\ DOMAIN m' = DOMAIN m
      /\ \A s \in DOMAIN m : /\ DOMAIN m'[s] = DOMAIN m[s]
                             /\ \A i \in DOMAIN m[s] : /\ m'[s][i].id = m[s][i].id
                                                       /\ m'[s][i].born = m[s][i].born
  BY VotesChange DEF IInv, SameButVotes
<1>3. \A p : p \in Pending <=> \E s \in DOMAIN m : \E i \in DOMAIN m[s] : p = Abstract(s, m[s][i])
  BY DEF Pending
<1>4. \A p : p \in Pending' <=> \E s \in DOMAIN m' : \E i \in DOMAIN m'[s] : p = Abstract(s, m'[s][i])
  BY DEF Pending
<1>5. ASSUME NEW p \in Pending
      PROVE  \E q \in Pending' : List!Unvoted(p) = List!Unvoted(q)
  <2>1. PICK s \in DOMAIN m : \E i \in DOMAIN m[s] : p = Abstract(s, m[s][i])
    BY <1>3
  <2>2. PICK i \in DOMAIN m[s] : p = Abstract(s, m[s][i])
    BY <2>1
  <2>3. Abstract(s, m'[s][i]) \in Pending'
    BY <1>2, <1>4
  <2>4. List!Unvoted(p) = List!Unvoted(Abstract(s, m'[s][i]))
    BY <1>1, <1>2, <2>2
  <2> QED
    BY <2>3, <2>4
<1>6. ASSUME NEW q \in Pending'
      PROVE  \E p \in Pending : List!Unvoted(p) = List!Unvoted(q)
  <2>1. PICK s \in DOMAIN m : \E i \in DOMAIN m[s] : q = Abstract(s, m'[s][i])
    BY <1>2, <1>4
  <2>2. PICK i \in DOMAIN m[s] : q = Abstract(s, m'[s][i])
    BY <2>1
  <2>3. Abstract(s, m[s][i]) \in Pending
    BY <1>3
  <2>4. List!Unvoted(Abstract(s, m[s][i])) = List!Unvoted(q)
    BY <1>1, <1>2, <2>2
  <2> QED
    BY <2>3, <2>4
<1> QED
  BY <1>5, <1>6 DEF List!SameBundles

\* An M6 takes the entry it pays from the list, and no other.
LEMMA PayStep ==
  ASSUME IInv, handleM6, NextMessage, owed' = owed \ {Head(todo).id}
  PROVE  List!Pay
<1> DEFINE slot == Head(todo).slot
           bs == Bundles(slot)
<1>1. PICK i \in IndexesOf(slot, Head(todo).id) :
        /\ canBeWithdrawn(bs[i], height)
        /\ SetBundles(slot, SortChrono(bs, DOMAIN bs \ {i}))
  BY DEF handleM6, NextMessage, Reject, Current
<1> DEFINE entry == Abstract(slot, bs[i])
<1>2. i \in DOMAIN bs /\ bs[i].id = Head(todo).id /\ Good(bs)
  BY BundlesOK DEF IndexesOf, IInv
<1>3. entry \in Pending
  <2>1. entry \in Entries(slot, bs)
    BY <1>2 DEF Entries
  <2> QED
    BY <2>1, SlotPending
<1>4. Pending' = Pending \ {entry}
  <2>1. Pending' = {p \in Pending : p.slot # slot} \cup Entries(slot, SortChrono(bs, DOMAIN bs \ {i}))
    BY <1>1, SetPending
  <2>2. Entries(slot, SortChrono(bs, DOMAIN bs \ {i})) = {Abstract(slot, bs[j]) : j \in DOMAIN bs \ {i}}
    <3> HIDE DEF bs
    <3> QED
      BY <1>2, SelectionEntries
  <2>3. \A j \in DOMAIN bs \ {i} : Abstract(slot, bs[j]) # entry
    BY <1>2 DEF Good, Unique, Abstract
  <2>4. {p \in Pending : p.slot = slot} = {Abstract(slot, bs[j]) : j \in DOMAIN bs}
    BY SlotPending DEF Entries
  <2>5. entry.slot = slot
    BY DEF Abstract
  <2> HIDE DEF bs, slot, entry
  <2>6. \A p : p \in Entries(slot, SortChrono(bs, DOMAIN bs \ {i}))
                 <=> p \in Pending /\ p.slot = slot /\ p # entry
    BY <2>2, <2>3, <2>4 DEF entry
  <2> QED
    BY <2>1, <2>5, <2>6
<1>5. entry.approved /\ List!Fresh(entry) /\ entry.id = Head(todo).id
  BY <1>1, <1>2 DEF canBeWithdrawn, Abstract, List!Fresh
<1>6. status = "handling" /\ status' = "handling" /\ height' = height
  BY DEF handleM6, Current, NextMessage
<1> HIDE DEF entry
<1> QED
  BY <1>3, <1>4, <1>5, <1>6 DEF List!Pay

\* The expiry drops the entries that are too old.
LEMMA AcceptStep ==
  ASSUME IInv, delExpired, owed = {}, owed' = owed
  PROVE  List!AcceptBlock
<1>1. /\ DOMAIN m' = DOMAIN m
      /\ \A s \in DOMAIN m : m'[s] = SortChrono(m[s], Fresh(m[s]))
  BY DEF delExpired
<1>2. ASSUME NEW s \in DOMAIN m
      PROVE  Entries(s, m'[s]) = {p \in Entries(s, m[s]) : List!Fresh(p)}
  <2>1. Good(m[s]) /\ Fresh(m[s]) \in SUBSET DOMAIN m[s]
    BY DEF IInv, ListsOK, Fresh
  <2>2. Entries(s, m'[s]) = {Abstract(s, m[s][j]) : j \in Fresh(m[s])}
    BY <1>1, <2>1, SelectionEntries
  <2>3. \A j \in DOMAIN m[s] : j \in Fresh(m[s]) <=> List!Fresh(Abstract(s, m[s][j]))
    BY DEF Fresh, List!Fresh, Abstract
  <2> QED
    BY <2>1, <2>2, <2>3 DEF Entries
<1>3. Pending' = {p \in Pending : List!Fresh(p)}
  <2>1. \A p : p \in Pending' <=> \E s \in DOMAIN m : p \in Entries(s, m'[s])
    BY <1>1, PendingEntries
  <2>2. \A p : p \in Pending <=> \E s \in DOMAIN m : p \in Entries(s, m[s])
    BY PendingEntries
  <2> QED
    BY <1>2, <2>1, <2>2
<1> QED
  BY <1>3 DEF delExpired, List!AcceptBlock

\* The check at the start of HandleMsgs opens the block, or refuses it.
LEMMA OpenStep ==
  ASSUME IInv, OwedOK, ANextBlock
  PROVE  List!OpenBlock \/ List!RefuseBlock
<1>1. PICK ms \in Blocks : HandleMsgs(ms)
  BY DEF ANextBlock, NextBlock
<1>2. status # "handling" /\ height' = height + 1 /\ Pending' = Pending /\ owed = {}
  BY <1>1 DEF ANextBlock, NextBlock, AtRest, HandleMsgs, Pending, OwedOK
<1> DEFINE due == {q \in Pending : q.approved /\ height' - q.born <= MaxAge}
<1>3. due = UNION {{Abstract(s, m[s][i]) : i \in {k \in DOMAIN m[s] : canBeWithdrawn(m[s][k], height')}}
                    : s \in DOMAIN m}
  <2>1. \A s : \A b : canBeWithdrawn(b, height')
           <=> Abstract(s, b).approved /\ height' - Abstract(s, b).born <= MaxAge
    BY DEF canBeWithdrawn, Abstract
  <2> QED
    BY <2>1 DEF Pending
<1>4. CASE status' = "handling"
  <2>1. owed' = {q.id : q \in due}
    <3>1. owed' = {p[2] : p \in Due(height')}
      BY <1>4 DEF ANextBlock
    <3>2. \A s : \A b : Abstract(s, b).id = b.id /\ <<s, b.id>>[2] = b.id
      BY DEF Abstract
    <3>3. \A x : x \in {p[2] : p \in Due(height')}
             <=> \E s \in DOMAIN m : \E i \in DOMAIN m[s] :
                   canBeWithdrawn(m[s][i], height') /\ x = m[s][i].id
      <4> DEFINE P(s, i) == s \in DOMAIN m /\ i \in DOMAIN m[s] /\ canBeWithdrawn(m[s][i], height')
      <4>1. \A p : p \in Due(height') <=> \E s, i : P(s, i) /\ p = <<s, m[s][i].id>>
        BY DEF Due
      <4>2. \A s, y : <<s, y>>[2] = y
        OBVIOUS
      <4> HIDE DEF P
      <4>3. ASSUME NEW s, NEW i, P(s, i)
            PROVE  \E p \in Due(height') : m[s][i].id = p[2]
        <5>1. <<s, m[s][i].id>> \in Due(height') /\ <<s, m[s][i].id>>[2] = m[s][i].id
          BY <4>1, <4>2, <4>3
        <5> QED
          BY <5>1
      <4>4. ASSUME NEW p \in Due(height')
            PROVE  \E s, i : P(s, i) /\ p[2] = m[s][i].id
        BY <4>1, <4>2
      <4>5. \A x : (\E p \in Due(height') : x = p[2]) <=> \E s, i : P(s, i) /\ x = m[s][i].id
        BY <4>3, <4>4
      <4> QED
        BY <4>5 DEF P
    <3>4. \A x : x \in {q.id : q \in due}
             <=> \E s \in DOMAIN m : \E i \in DOMAIN m[s] :
                   canBeWithdrawn(m[s][i], height') /\ x = m[s][i].id
      BY <1>3, <3>2
    <3> QED
      BY <3>1, <3>3, <3>4
  <2> QED
    BY <1>2, <1>4, <2>1 DEF List!OpenBlock
<1>5. CASE status' # "handling"
  <2>1. \E s \in DOMAIN m : \E i \in DOMAIN m[s] : canBeWithdrawn(m[s][i], height')
    BY <1>1, <1>2, <1>5 DEF HandleMsgs, checkVotedM6Withdrawn
  <2>2. due # {}
    BY <1>3, <2>1
  <2>3. owed' = {}
    BY <1>5 DEF ANextBlock
  <2> QED
    BY <1>2, <1>5, <2>2, <2>3 DEF List!RefuseBlock
<1> QED
  BY <1>4, <1>5

\* A message that spoils the block, or ends the program, ends the block.
LEMMA AbortStep ==
  ASSUME status = "handling", status' # "handling", height' = height, owed' = {},
         List!SameBundles(Pending, Pending')
  PROVE  List!AbortBlock
BY DEF List!AbortBlock

\* A step that concerns the votes, the order or the messages only.
LEMMA SameList ==
  ASSUME Pending' = Pending, height' = height, owed' = owed,
         status = "handling", status' = "handling"
  PROVE  UNCHANGED List!vars
BY DEF List!vars

LEMMA HandlingStep ==
  ASSUME IInv, OwedOK, AHandling
  PROVE  List!Next \/ UNCHANGED List!vars
<1>1. status = "handling" /\ height' = height
  BY DEF AHandling, Handling, handleM3, handleM4Repeat, handleM4Votes, handleM4Leading,
         handleM4Unknown, handleM6, handleOther, delExpired, CurrentM4, Current,
         NextMessage, Reject
<1>2. m' = m => Pending' = Pending /\ List!SameBundles(Pending, Pending')
  BY DEF Pending, List!SameBundles
<1>3. CASE delExpired
  <2>1. owed = {} /\ owed' = owed
    BY <1>1, <1>3 DEF delExpired, AHandling, OwedOK, Announced
  <2> QED
    BY <1>3, <2>1, AcceptStep DEF List!Next
<1>4. CASE status' \in {"rejected", "panicked"}
  <2>1. List!SameBundles(Pending, Pending')
    BY <1>2, <1>4, VotesPending
       DEF AHandling, Handling, handleM3, handleM4Repeat, handleM4Votes, handleM4Leading,
           handleM4Unknown, handleM6, handleOther, delExpired, CurrentM4, Current, NextMessage
  <2>2. owed' = {}
    BY <1>4 DEF AHandling
  <2> QED
    BY <1>1, <1>4, <2>1, <2>2, AbortStep DEF List!Next
<1>5. CASE ~delExpired /\ status' \notin {"rejected", "panicked"}
  <2>1. /\ todo # <<>> /\ status' = "handling"
        /\ owed' = IF Head(todo).type = "M6" THEN owed \ {Head(todo).id} ELSE owed
    BY <1>1, <1>5 DEF AHandling, Handling, handleM3, handleM4Repeat, handleM4Votes,
         handleM4Leading, handleM4Unknown, handleM6, handleOther, CurrentM4, Current, NextMessage, Reject
  <2>2. CASE handleM3
    <3>1. NextMessage /\ owed' = owed
      BY <1>5, <2>1, <2>2 DEF handleM3, Current, Reject
    <3>2. List!Propose \/ Pending' = Pending
      BY <2>2, <3>1, ProposeStep
    <3> QED
      BY <1>1, <2>1, <3>1, <3>2, SameList DEF List!Next
  <2>3. CASE handleM6
    <3>1. NextMessage /\ owed' = owed \ {Head(todo).id}
      BY <1>5, <2>1, <2>3 DEF handleM6, Current, Reject
    <3> QED
      BY <2>3, <3>1, PayStep DEF List!Next
  <2>4. CASE handleM4Votes \/ handleM4Leading
    <3>1. owed' = owed
      BY <2>1, <2>4 DEF handleM4Votes, handleM4Leading, CurrentM4, Current
    <3>2. List!Ack
      BY <1>1, <2>1, <2>4, <3>1, VotesPending DEF List!Ack
    <3> QED
      BY <3>2 DEF List!Next
  <2>5. CASE handleM4Repeat \/ handleM4Unknown \/ handleOther
    <3>1. owed' = owed /\ m' = m
      BY <2>1, <2>5 DEF handleM4Repeat, handleM4Unknown, handleOther, CurrentM4, Current
    <3> QED
      BY <1>1, <1>2, <2>1, <3>1, SameList
  <2> QED
    BY <1>5, <2>2, <2>3, <2>4, <2>5 DEF AHandling, Handling
<1> QED
  BY <1>3, <1>4, <1>5

\* D2 implements the withdrawal list: whatever the blocks are, a bundle enters
\* the list by an M3, leaves it paid while approved and young, or when it is too
\* old, and a block that owes a payment is not accepted (d2.go:57-329).
THEOREM ImplementsListHolds == ASpec => ImplementsList
<1>1. AInit => IInv /\ OwedOK /\ List!Init
  <2> SUFFICES ASSUME AInit
               PROVE  IInv /\ OwedOK /\ List!Init
    OBVIOUS
  <2>1. IInv /\ OwedOK
    BY InitOK DEF AInit, Init, OwedOK
  <2>2. Pending = {}
    BY DEF AInit, Init, Pending
  <2> QED
    BY <2>1, <2>2 DEF AInit, Init, List!Init
<1>2. IInv /\ OwedOK /\ [ANext]_avars => IInv' /\ OwedOK'
  BY AStepOK
<1>3. IInv /\ OwedOK /\ [ANext]_avars => [List!Next]_(List!vars)
  <2> SUFFICES ASSUME IInv, OwedOK, [ANext]_avars
               PROVE  List!Next \/ UNCHANGED List!vars
    OBVIOUS
  <2>1. CASE ANextBlock
    BY <2>1, OpenStep DEF List!Next
  <2>2. CASE AHandling
    BY <2>2, HandlingStep
  <2>3. CASE UNCHANGED avars
    BY <2>3 DEF avars, List!vars, Pending
  <2> QED
    BY <2>1, <2>2, <2>3 DEF ANext
<1> QED
  BY <1>1, <1>2, <1>3, PTL DEF ASpec, ImplementsList, List!Spec
=============================================================================
