--------------------------------- MODULE D2 ---------------------------------
(***************************************************************************)
(* The BIP300 withdrawal list of src/enforcer/d2.go.                       *)
(*                                                                         *)
(* The driver (the loops of enforcer_test.go and cmd_test.go) calls        *)
(* HandleMsgs once per block, at consecutive heights.  HandleMsgs is       *)
(* modelled one message per step, so that the states between two messages  *)
(* of a block, and what a block that is rejected half-way leaves behind,   *)
(* are states of the model.                                                *)
(***************************************************************************)
EXTENDS Integers, Sequences, FiniteSets

CONSTANTS
  SidechainNumbers, \* the slots a message may name (a byte in the code)
  ActiveSlots,      \* the slots newD2 starts with
  M6IDs,            \* bundle hashes
  Vouts,            \* output indexes of a coinbase transaction
  VoteValues,       \* the numbers an M4 vector may carry
  Blocks,           \* the message sequences getMessages may return
  MaxAge,           \* d2.withdrawalMaxAge
  Threshold,        \* d2.withdrawalInclusionThreshold
  Lead,             \* the 50 of M4VersionLeadingBy50
  VoteMod,          \* 2^w for the width w of the Vote field (uint16)
  MaxHeight         \* bound: the height of the last block

M4Version == {"RepeatPrevious", "OneByte", "TwoByte", "LeadingBy50", "Unknown"}

\* V stands for the OneByte or the TwoByte vector, the one Enum selects.
M4 == [Enum : M4Version, V : Seq(VoteValues)]

Message ==
  [type : {"M3"}, slot : SidechainNumbers, id : M6IDs, vout : Vouts]
    \cup [type : {"M4"}, m4 : M4]
    \cup [type : {"M6"}, slot : SidechainNumbers, id : M6IDs]
    \cup [type : {"Other"}]

ASSUME ConstantsAssumption ==
  /\ SidechainNumbers \subseteq Nat
  /\ ActiveSlots \subseteq SidechainNumbers
  /\ Vouts \subseteq Nat
  /\ VoteValues \subseteq Nat
  /\ MaxAge \in Nat
  /\ Threshold \in Nat
  /\ Lead \in Nat
  /\ VoteMod \in Nat \ {0, 1}
  /\ MaxHeight \in Nat

\* parseCoinbase appends the messages in the order of the coinbase's outputs
\* (enforcer.go:266-294), so the M3s of a block come in the order of vout.
InVoutOrder(ms) ==
  \A i, j \in DOMAIN ms :
    i < j /\ ms[i].type = "M3" /\ ms[j].type = "M3" => ms[i].vout < ms[j].vout

ASSUME BlocksAssumption ==
  /\ Blocks \subseteq Seq(Message)
  /\ \A ms \in Blocks : InVoutOrder(ms)

Bundle == [id : M6IDs, vout : Vouts, vote : 0..(VoteMod - 1), born : 0..MaxHeight]

VARIABLES
  m,       \* d2.m: the bundles of each known slot
  height,  \* d2.height
  prevM4,  \* d2.prevM4
  todo,    \* the messages HandleMsgs has not handled yet
  status   \* where HandleMsgs is, or how the last call to it ended

vars == <<m, height, prevM4, todo, status>>

AtRest == status \in {"accepted", "rejected"}

-----------------------------------------------------------------------------
(* Operators on the bundles of one slot.                                   *)

\* cmpBundleChrono(a, b) < 0
Precedes(a, b) == a.born < b.born \/ (a.born = b.born /\ a.vout < b.vout)

\* The indexes of bs, among those of keep, that sort before index j.
Before(bs, keep, j) ==
  {k \in keep : Precedes(bs[k], bs[j]) \/ (~Precedes(bs[j], bs[k]) /\ k < j)}

\* Mutated form of SortChrono: the comparison turned round.
SortChrono_newestFirst(bs, keep) ==
  [i \in 1..Cardinality(keep) |->
     bs[CHOOSE j \in keep : Cardinality(Before(bs, keep, j)) = Cardinality(keep) - i]]

\* The bundles of bs at the indexes of keep, sorted by cmpBundleChrono.  (The
\* sort of the code is not stable, but the bundles of a slot never tie.)
SortChrono(bs, keep) ==
  [i \in 1..Cardinality(keep) |->
     bs[CHOOSE j \in keep : Cardinality(Before(bs, keep, j)) = i - 1]]

\* Mutated form of Upvoted: a counter without a width.
Upvoted_wide(b) == [b EXCEPT !.vote = @ + 1]

Upvoted(b) == [b EXCEPT !.vote = (@ + 1) % VoteMod]
Downvoted(b) == [b EXCEPT !.vote = (@ - 1) % VoteMod]

\* Mutated form of upvote: the other bundles keep their votes.
upvote_alone(want, bs) ==
  [i \in DOMAIN bs |-> IF i = want + 1 THEN Upvoted(bs[i]) ELSE bs[i]]

\* want counts from 0, as in the code.
upvote(want, bs) ==
  [i \in DOMAIN bs |-> IF i = want + 1 THEN Upvoted(bs[i]) ELSE Downvoted(bs[i])]

downvoteAll(bs) == [i \in DOMAIN bs |-> Downvoted(bs[i])]

\* The first of the bundles with the most votes, counted from 0.
Leading(bs) ==
  (CHOOSE i \in DOMAIN bs :
     \A j \in DOMAIN bs : bs[j].vote <= bs[i].vote /\ (bs[j].vote = bs[i].vote => i <= j)) - 1

\* The comparison includes the leading bundle itself, and the sum wraps.
By50(bs) ==
  \A j \in DOMAIN bs : bs[Leading(bs) + 1].vote > (bs[j].vote + Lead) % VoteMod

\* Mutated form of canBeWithdrawn: the threshold itself is enough.
canBeWithdrawn_atThreshold(b, h) == b.vote >= Threshold /\ h - b.born <= MaxAge

canBeWithdrawn(b, h) == b.vote > Threshold /\ h - b.born <= MaxAge

Bundles(slot) == IF slot \in DOMAIN m THEN m[slot] ELSE <<>>

\* Mutated form of IndexesOf: a bundle of an earlier block is not found.
IndexesOf_thisBlock(slot, id) ==
  {i \in DOMAIN Bundles(slot) : Bundles(slot)[i].id = id /\ Bundles(slot)[i].born = height}

IndexesOf(slot, id) == {i \in DOMAIN Bundles(slot) : Bundles(slot)[i].id = id}

SetBundles(slot, bs) ==
  m' = [s \in DOMAIN m \cup {slot} |-> IF s = slot THEN bs ELSE m[s]]

-----------------------------------------------------------------------------
Init ==
  \* newD2, after the genesis block, which carries no message.
  /\ m = [s \in ActiveSlots |-> <<>>]
  /\ height = 0
  /\ prevM4 = [Enum |-> "OneByte", V |-> <<>>]
  /\ todo = <<>>
  /\ status = "accepted"

Current(type) == status = "handling" /\ todo # <<>> /\ Head(todo).type = type

NextMessage == todo' = Tail(todo) /\ UNCHANGED <<height, status>>

\* HandleMsgs returns an InvalidateBlockError: nothing is rolled back.
Reject == status' = "rejected" /\ todo' = <<>> /\ UNCHANGED height

\* Mutated form of checkVotedM6Withdrawn: any M6 will do.
checkVotedM6Withdrawn_anyM6(ms, h) ==
  \A s \in DOMAIN m : \A i \in DOMAIN m[s] :
    canBeWithdrawn(m[s][i], h) => \E k \in DOMAIN ms : ms[k].type = "M6"

\* The M6s are looked up by M6ID alone, whatever their slot.
checkVotedM6Withdrawn(ms, h) ==
  \A s \in DOMAIN m : \A i \in DOMAIN m[s] :
    canBeWithdrawn(m[s][i], h) =>
      \E k \in DOMAIN ms : ms[k].type = "M6" /\ ms[k].id = m[s][i].id

\* HandleMsgs up to its loop.
HandleMsgs(ms) ==
  /\ height' = height + 1
  /\ \/ /\ checkVotedM6Withdrawn(ms, height + 1)
        /\ status' = "handling"
        /\ todo' = ms
     \/ /\ ~checkVotedM6Withdrawn(ms, height + 1)
        /\ status' = "rejected"
        /\ todo' = <<>>
  /\ UNCHANGED <<m, prevM4>>

\* The driver calls HandleMsgs for the next block after a rejected one too.
NextBlock ==
  /\ AtRest
  /\ height < MaxHeight
  /\ \E ms \in Blocks : HandleMsgs(ms)

handleM3 ==
  /\ Current("M3")
  /\ LET msg == Head(todo)
         bs == Append(Bundles(msg.slot),
                      [id |-> msg.id, vout |-> msg.vout, vote |-> 1, born |-> height])
     IN \/ /\ IndexesOf(msg.slot, msg.id) = {}
           /\ SetBundles(msg.slot, SortChrono(bs, DOMAIN bs))
           /\ NextMessage
        \/ /\ IndexesOf(msg.slot, msg.id) # {}
           /\ Reject
           /\ UNCHANGED m
  /\ UNCHANGED prevM4

CurrentM4(versions) == Current("M4") /\ Head(todo).m4.Enum \in versions

\* Mutated form of handleM4Repeat: every M4 is remembered, before it is handled.
handleM4Repeat_remembered ==
  /\ CurrentM4({"RepeatPrevious"})
  /\ prevM4' = Head(todo).m4
  /\ todo' = <<[type |-> "M4", m4 |-> prevM4']>> \o Tail(todo)
  /\ UNCHANGED <<m, height, status>>

\* The recursive call handleM4(d2.prevM4) is the next message to handle; the
\* outer call changes nothing when it returns.
handleM4Repeat ==
  /\ CurrentM4({"RepeatPrevious"})
  /\ todo' = <<[type |-> "M4", m4 |-> prevM4]>> \o Tail(todo)
  /\ UNCHANGED <<m, height, prevM4, status>>

Alarm(v) == IF v.Enum = "OneByte" THEN 254 ELSE 65534
Abstain(v) == IF v.Enum = "OneByte" THEN 255 ELSE 65535

\* The position of a slot among the sorted keys of d2.m, counted from 1.
Position(slot) == Cardinality({s \in DOMAIN m : s <= slot})

\* Entry i of the vector is one the loop of handleM4Votes does not fail at.
GoodVote(v, i) ==
  \E s \in DOMAIN m :
    /\ Position(s) = i
    /\ v.V[i] \in {Alarm(v), Abstain(v)} \cup {want \in VoteValues : want < Len(m[s])}

AfterVote(v, want, bs) ==
  CASE want = Abstain(v) -> bs
    [] want = Alarm(v) -> downvoteAll(bs)
    [] OTHER -> upvote(want, bs)

\* The loop stops at the first entry that fails: the slots before it have
\* been voted on, that slot and the later ones have not.
Votes(v) ==
  m' = [s \in DOMAIN m |->
          IF Position(s) \in DOMAIN v.V /\ \A i \in 1..Position(s) : GoodVote(v, i)
          THEN AfterVote(v, v.V[Position(s)], m[s])
          ELSE m[s]]

handleM4Votes ==
  /\ CurrentM4({"OneByte", "TwoByte"})
  /\ LET v == Head(todo).m4
         valid == \A i \in DOMAIN v.V : GoodVote(v, i)
     IN /\ Votes(v)
        /\ \/ valid /\ prevM4' = v /\ NextMessage
           \/ ~valid /\ UNCHANGED prevM4 /\ Reject

\* bundles[0] is out of range for a slot without bundles: the program dies.
handleM4Leading ==
  /\ CurrentM4({"LeadingBy50"})
  /\ \/ /\ \A s \in DOMAIN m : m[s] # <<>>
        /\ m' = [s \in DOMAIN m |->
                   IF By50(m[s]) THEN upvote(Leading(m[s]), m[s]) ELSE m[s]]
        /\ prevM4' = Head(todo).m4
        /\ NextMessage
     \/ /\ \E s \in DOMAIN m : m[s] = <<>>
        /\ status' = "panicked"
        /\ todo' = <<>>
        /\ UNCHANGED <<m, height, prevM4>>

\* The error of an unknown version is not an InvalidateBlockError.
handleM4Unknown ==
  /\ CurrentM4({"Unknown"})
  /\ NextMessage
  /\ UNCHANGED <<m, prevM4>>

\* IndexFunc finds the only bundle of the slot with the ID.
handleM6 ==
  /\ Current("M6")
  /\ LET slot == Head(todo).slot
         bs == Bundles(slot)
         payable == {i \in IndexesOf(slot, Head(todo).id) : canBeWithdrawn(bs[i], height)}
     IN \/ /\ \E i \in payable : SetBundles(slot, SortChrono(bs, DOMAIN bs \ {i}))
           /\ NextMessage
        \/ /\ payable = {}
           /\ Reject
           /\ UNCHANGED m
  /\ UNCHANGED prevM4

\* M1, M2, M5, M7 and M8 do not concern the withdrawal list.
handleOther ==
  /\ Current("Other")
  /\ NextMessage
  /\ UNCHANGED <<m, prevM4>>

\* Mutated form of Fresh: a bundle is kept one block too long.
Fresh_oneMore(bs) == {i \in DOMAIN bs : height - bs[i].born <= MaxAge + 1}

Fresh(bs) == {i \in DOMAIN bs : height - bs[i].born <= MaxAge}

delExpired ==
  /\ status = "handling"
  /\ todo = <<>>
  /\ m' = [s \in DOMAIN m |-> SortChrono(m[s], Fresh(m[s]))]
  /\ status' = "accepted"
  /\ UNCHANGED <<height, prevM4, todo>>

\* The steps of one call of HandleMsgs after its first check.
Handling ==
  \/ handleM3 \/ handleM4Repeat \/ handleM4Votes \/ handleM4Leading
  \/ handleM4Unknown \/ handleM6 \/ handleOther \/ delExpired

Next == NextBlock \/ Handling

Spec == Init /\ [][Next]_vars

\* HandleMsgs is a sequential loop: once called it runs on.
FairSpec == Spec /\ WF_vars(Handling)

-----------------------------------------------------------------------------
\* Every field of D2 keeps the type the Go declarations give it, and no message
\* is left over between two calls of HandleMsgs (d2.go:16-36).
TypeOK ==
  /\ DOMAIN m \subseteq SidechainNumbers
  /\ \A s \in DOMAIN m : m[s] \in Seq(Bundle)
  /\ height \in 0..MaxHeight
  /\ prevM4 \in M4
  /\ todo \in Seq(Message)
  /\ status \in {"accepted", "rejected", "handling", "panicked"}
  /\ status # "handling" => todo = <<>>

\* The bundles of a slot are in strict chronological order at every moment of
\* a block, whichever M3s, M6s, expiries and rejected blocks came before: the
\* bundle an M4 names by its index is determined (d2.go:106-126, 161-186).
Chronological ==
  \A s \in DOMAIN m : \A i, j \in DOMAIN m[s] :
    i < j => \/ m[s][i].born < m[s][j].born
             \/ m[s][i].born = m[s][j].born /\ m[s][i].vout < m[s][j].vout

\* No slot ever holds two bundles with one M6ID, so that the index handleM6
\* looks up is the bundle that was voted on (d2.go:114-123, 275-282).
UniqueIDs ==
  \A s \in DOMAIN m : \A i, j \in DOMAIN m[s] :
    m[s][i].id = m[s][j].id => i = j

\* An accepted block leaves no bundle that is too old, however many blocks
\* before it were rejected and skipped their expiry (d2.go:57-74, 320-329).
NoneExpired ==
  status = "accepted" =>
    \A s \in DOMAIN m : \A i \in DOMAIN m[s] : height - m[s][i].born <= MaxAge

\* prevM4 always is a vote that can be cast again, never RepeatPrevious itself:
\* the recursion of handleM4 cannot call itself for ever (d2.go:228-252).
PrevM4Replayable == prevM4.Enum \notin {"RepeatPrevious", "Unknown"}

\* The votes of one slot change together: in one step at most one of its
\* bundles gains a vote, and then (or under an alarm) every other one of them
\* loses one, also when a later entry of the vector rejects the block
\* (d2.go:131-153, 161-218).
VoteChanges(s) ==
  \E i \in DOMAIN m[s] : \E j \in DOMAIN m'[s] :
    m[s][i].id = m'[s][j].id /\ m[s][i].vote # m'[s][j].vote
AllDown(s, ups) == \A i \in DOMAIN m[s] \ ups : m'[s][i] = Downvoted(m[s][i])
MoveTogether(s) ==
  /\ DOMAIN m'[s] = DOMAIN m[s]
  /\ \/ AllDown(s, {})
     \/ \E up \in DOMAIN m[s] : m'[s][up] = Upvoted(m[s][up]) /\ AllDown(s, {up})
VotesTogether == [][\A s \in DOMAIN m : VoteChanges(s) => MoveTogether(s)]_vars

\* Every call of HandleMsgs ends: with the block accepted or rejected, or the
\* program dead.  It would not if prevM4 could be RepeatPrevious
\* (d2.go:57-74, 230-232).
BlockEnds == status = "handling" ~> status # "handling"

(***************************************************************************)
(* What the comments of the code say and the code does not do.             *)
(***************************************************************************)

\* d2.go:269: a bundle is eligible once it "has reached enough votes to be
\* included": only an upvote makes it so.
ApprovedByUpvote ==
  [][\A s \in DOMAIN m : \A i \in DOMAIN m[s] : \A j \in DOMAIN m'[s] :
       /\ m[s][i].id = m'[s][j].id
       /\ m[s][i].vote <= Threshold
       /\ m'[s][j].vote > Threshold
       => m'[s][j].vote = m[s][i].vote + 1]_vars
=============================================================================
