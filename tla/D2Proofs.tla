------------------------------ MODULE D2Proofs ------------------------------
(***************************************************************************)
(* Theorems about module D2, for every value of its constants.             *)
(***************************************************************************)
EXTENDS D2, FiniteSetTheorems, SequenceTheorems, FunctionTheorems, TLAPS

\* A list in strict chronological order.
Chrono(bs) == \A i, j \in DOMAIN bs : i < j => Precedes(bs[i], bs[j])

\* No two bundles of the list have one ID.
Unique(bs) == \A i, j \in DOMAIN bs : bs[i].id = bs[j].id => i = j

-----------------------------------------------------------------------------
(* Sorting some of the bundles of a list that is in order.                 *)

\* In a list that is in order, the bundles before index j are those at the
\* smaller indexes.
LEMMA BeforeIsSmaller ==
  ASSUME NEW bs \in Seq(Bundle), Chrono(bs),
         NEW keep \in SUBSET DOMAIN bs, NEW j \in keep
  PROVE  Before(bs, keep, j) = {k \in keep : k < j}
<1>1. DOMAIN bs \subseteq Nat
  BY LenProperties
<1>2. \A k \in DOMAIN bs : bs[k].born \in Int /\ bs[k].vout \in Int
  <2> TAKE k \in DOMAIN bs
  <2>1. bs[k] \in Bundle
    BY LenProperties, ElementOfSeq
  <2>2. bs[k].vout \in Vouts /\ bs[k].born \in 0..MaxHeight
    BY <2>1 DEF Bundle
  <2>3. Vouts \subseteq Int /\ 0..MaxHeight \subseteq Int
    BY ConstantsAssumption
  <2> QED
    BY <2>2, <2>3
<1>3. ASSUME NEW k \in keep
      PROVE  (Precedes(bs[k], bs[j]) \/ (~Precedes(bs[j], bs[k]) /\ k < j)) <=> k < j
  <2>1. CASE k < j
    BY <2>1, <1>1, <1>2 DEF Chrono, Precedes
  <2>2. CASE k = j
    BY <2>2, <1>1, <1>2 DEF Precedes
  <2>3. CASE k > j
    <3>1. Precedes(bs[j], bs[k])
      BY <2>3 DEF Chrono
    <3> QED
      BY <2>3, <3>1, <1>1, <1>2 DEF Precedes
  <2> QED
    BY <1>1, <2>1, <2>2, <2>3
<1> QED
  BY <1>3 DEF Before

\* SortChrono picks the bundles at the indexes of keep, each once, in the order
\* of their indexes.
LEMMA Selection ==
  ASSUME NEW bs \in Seq(Bundle), Chrono(bs), NEW keep \in SUBSET DOMAIN bs
  PROVE  /\ Cardinality(keep) \in Nat
         /\ \E p \in [1..Cardinality(keep) -> keep] :
              /\ \A i, k \in 1..Cardinality(keep) : i < k => p[i] < p[k]
              /\ \A j \in keep : \E i \in 1..Cardinality(keep) : p[i] = j
              /\ SortChrono(bs, keep) = [i \in 1..Cardinality(keep) |-> bs[p[i]]]
<1> DEFINE n == Cardinality(keep)
           low(j) == {k \in keep : k < j}
           r(j) == Cardinality(low(j))
<1>1. keep \subseteq Nat /\ IsFiniteSet(keep)
  <2>1. DOMAIN bs = 1..Len(bs) /\ Len(bs) \in Nat
    BY LenProperties
  <2>2. IsFiniteSet(1..Len(bs))
    BY <2>1, FS_Interval
  <2> QED
    BY <2>1, <2>2, FS_Subset
<1>2. n \in Nat
  BY <1>1, FS_CardinalityType
<1>3. \A j \in keep : Before(bs, keep, j) = low(j)
  BY BeforeIsSmaller
<1>4. \A j \in keep : r(j) \in 0..(n - 1)
  <2> TAKE j \in keep
  <2>1. IsFiniteSet(keep \ {j}) /\ Cardinality(keep \ {j}) = n - 1
    BY <1>1, FS_RemoveElement
  <2>2. low(j) \in SUBSET (keep \ {j})
    BY <1>1
  <2>3. IsFiniteSet(low(j)) /\ Cardinality(low(j)) <= n - 1
    BY <2>1, <2>2, FS_Subset
  <2>4. Cardinality(low(j)) \in Nat
    BY <2>3, FS_CardinalityType
  <2> QED
    BY <2>3, <2>4, <1>2
<1>5. ASSUME NEW j \in keep, NEW k \in keep, j < k
      PROVE  r(j) < r(k)
  <2>1. IsFiniteSet(low(k))
    BY <1>1, FS_Subset
  <2>2. j \in low(k)
    BY <1>5
  <2>3. IsFiniteSet(low(k) \ {j}) /\ Cardinality(low(k) \ {j}) = r(k) - 1
    BY <2>1, <2>2, FS_RemoveElement
  <2>4. low(j) \in SUBSET (low(k) \ {j})
    BY <1>1, <1>5
  <2>5. r(j) <= r(k) - 1
    BY <2>3, <2>4, FS_Subset
  <2> QED
    BY <2>5, <1>4, <1>2
<1> DEFINE f == [j \in keep |-> r(j) + 1]
<1> HIDE DEF r, low
<1>6. f \in [keep -> 1..n]
  BY <1>4, <1>2
<1>7. \A j, k \in keep : f[j] = f[k] => j = k
  <2>1. \A j, k \in keep : j # k => r(j) # r(k)
    <3> TAKE j, k \in keep
    <3>1. CASE j < k
      BY <3>1, <1>5, <1>4, <1>2
    <3>2. CASE k < j
      BY <3>2, <1>5, <1>4, <1>2
    <3> QED
      BY <3>1, <3>2, <1>1
  <2> QED
    BY <2>1, <1>4, <1>2
<1>8. f \in Injection(keep, 1..n)
  BY <1>6, <1>7 DEF Injection, IsInjective
<1>9. IsFiniteSet(1..n) /\ Cardinality(1..n) = n
  BY <1>2, FS_Interval
<1>10. f \in Surjection(keep, 1..n)
  BY <1>8, <1>9, FS_Injection
<1>11. \A i \in 1..n : \E j \in keep : r(j) = i - 1
  <2> TAKE i \in 1..n
  <2>1. PICK j \in keep : f[j] = i
    BY <1>10 DEF Surjection
  <2>2. r(j) + 1 = i
    BY <2>1
  <2> QED
    BY <2>2, <1>4, <1>2
<1> DEFINE p == [i \in 1..n |-> CHOOSE j \in keep : Cardinality(Before(bs, keep, j)) = i - 1]
<1>12. \A j \in keep : Cardinality(Before(bs, keep, j)) = r(j)
  BY <1>3 DEF r
<1>13. \A i \in 1..n : p[i] \in keep /\ r(p[i]) = i - 1
  BY <1>11, <1>12
<1>14. p \in [1..n -> keep]
  BY <1>13
<1>15. \A i, k \in 1..n : i < k => p[i] < p[k]
  <2> SUFFICES ASSUME NEW i \in 1..n, NEW k \in 1..n, i < k, ~(p[i] < p[k])
               PROVE  FALSE
    OBVIOUS
  <2> HIDE DEF p
  <2>1. CASE p[i] = p[k]
    BY <2>1, <1>13, <1>2
  <2>2. CASE p[k] < p[i]
    BY <2>2, <1>5, <1>13, <1>2
  <2> QED
    BY <2>1, <2>2, <1>1, <1>13
<1>16. \A j \in keep : \E i \in 1..n : p[i] = j
  <2> TAKE j \in keep
  <2>1. r(j) + 1 \in 1..n
    BY <1>4, <1>2
  <2>2. p[r(j) + 1] \in keep /\ r(p[r(j) + 1]) = r(j)
    BY <2>1, <1>13, <1>4, <1>2
  <2>3. f[p[r(j) + 1]] = f[j]
    BY <2>2
  <2> QED
    BY <2>1, <2>2, <2>3, <1>7
<1>17. SortChrono(bs, keep) = [i \in 1..n |-> bs[p[i]]]
  BY DEF SortChrono
<1> HIDE DEF p
<1> QED
  BY <1>2, <1>14, <1>15, <1>16, <1>17

\* So a list that is in order and without duplicates stays so.
LEMMA SelectionKeeps ==
  ASSUME NEW bs \in Seq(Bundle), Chrono(bs), NEW keep \in SUBSET DOMAIN bs
  PROVE  /\ SortChrono(bs, keep) \in Seq(Bundle)
         /\ Chrono(SortChrono(bs, keep))
         /\ Unique(bs) => Unique(SortChrono(bs, keep))
         /\ \A i \in DOMAIN SortChrono(bs, keep) :
              \E j \in keep : SortChrono(bs, keep)[i] = bs[j]
         /\ \A j \in keep : \E i \in DOMAIN SortChrono(bs, keep) :
              SortChrono(bs, keep)[i] = bs[j]
<1> DEFINE n == Cardinality(keep)
           t == SortChrono(bs, keep)
<1>1. n \in Nat
  BY Selection
<1>2. PICK p \in [1..n -> keep] :
        /\ \A i, k \in 1..n : i < k => p[i] < p[k]
        /\ \A j \in keep : \E i \in 1..n : p[i] = j
        /\ t = [i \in 1..n |-> bs[p[i]]]
  BY Selection
<1>3. DOMAIN t = 1..n /\ \A i \in 1..n : t[i] = bs[p[i]] /\ p[i] \in DOMAIN bs
  BY <1>2
<1>4. keep \subseteq Nat
  BY LenProperties
<1>5. t \in Seq(Bundle)
  <2>1. \A i \in 1..n : bs[p[i]] \in Bundle
    BY <1>3, LenProperties, ElementOfSeq
  <2>2. t \in [1..n -> Bundle]
    BY <1>2, <2>1
  <2> QED
    BY <2>2, <1>1, SeqDef
<1>6. Chrono(t)
  BY <1>2, <1>3 DEF Chrono
<1>7. ASSUME Unique(bs)
      PROVE  Unique(t)
  <2> SUFFICES ASSUME NEW i \in 1..n, NEW k \in 1..n, t[i].id = t[k].id, i # k
               PROVE  FALSE
    BY <1>3 DEF Unique
  <2>1. p[i] = p[k]
    BY <1>3, <1>7 DEF Unique
  <2>2. CASE i < k
    BY <2>1, <2>2, <1>2, <1>4
  <2>3. CASE k < i
    BY <2>1, <2>3, <1>2, <1>4
  <2> QED
    BY <2>2, <2>3
<1> QED
  BY <1>2, <1>3, <1>5, <1>6, <1>7

-----------------------------------------------------------------------------
(* The other changes to a list.                                            *)

\* A list as the code keeps it.
Good(bs) == bs \in Seq(Bundle) /\ Chrono(bs) /\ Unique(bs)

\* bs and t differ in the votes alone.
SameButVotes(bs, t) ==
  /\ t \in Seq(Bundle)
  /\ DOMAIN t = DOMAIN bs
  /\ \A i \in DOMAIN bs : /\ t[i].id = bs[i].id
                          /\ t[i].born = bs[i].born
                          /\ t[i].vout = bs[i].vout

\* A vote up or down, with the wrap of the counter, gives a bundle.
LEMMA VoteStaysBundle ==
  ASSUME NEW b \in Bundle
  PROVE  /\ Upvoted(b) \in Bundle /\ Downvoted(b) \in Bundle
         /\ \A c \in {Upvoted(b), Downvoted(b)} :
              c.id = b.id /\ c.born = b.born /\ c.vout = b.vout
<1>1. b.vote \in Int /\ VoteMod \in Nat \ {0}
  <2>1. b.vote \in 0..(VoteMod - 1)
    BY DEF Bundle
  <2> QED
    BY <2>1, ConstantsAssumption
<1>2. (b.vote + 1) % VoteMod \in 0..(VoteMod - 1) /\ (b.vote - 1) % VoteMod \in 0..(VoteMod - 1)
  BY <1>1
<1> QED
  BY <1>2 DEF Bundle, Upvoted, Downvoted

\* The votes of an M4 change no ID, no age and no order.
LEMMA VotesKeep ==
  ASSUME NEW bs \in Seq(Bundle), NEW want
  PROVE  SameButVotes(bs, upvote(want, bs)) /\ SameButVotes(bs, downvoteAll(bs))
<1>1. \A i \in DOMAIN bs : bs[i] \in Bundle
  BY LenProperties, ElementOfSeq
<1>2. DOMAIN bs = 1..Len(bs) /\ Len(bs) \in Nat
  BY LenProperties
<1>3. upvote(want, bs) \in [1..Len(bs) -> Bundle]
  BY <1>1, <1>2, VoteStaysBundle DEF upvote
<1>4. downvoteAll(bs) \in [1..Len(bs) -> Bundle]
  BY <1>1, <1>2, VoteStaysBundle DEF downvoteAll
<1>5. upvote(want, bs) \in Seq(Bundle) /\ downvoteAll(bs) \in Seq(Bundle)
  BY <1>2, <1>3, <1>4, SeqDef
<1>6. \A i \in DOMAIN bs : /\ upvote(want, bs)[i] \in {Upvoted(bs[i]), Downvoted(bs[i])}
                           /\ downvoteAll(bs)[i] \in {Upvoted(bs[i]), Downvoted(bs[i])}
  BY DEF upvote, downvoteAll
<1>7. DOMAIN upvote(want, bs) = DOMAIN bs /\ DOMAIN downvoteAll(bs) = DOMAIN bs
  BY DEF upvote, downvoteAll
<1>8. ASSUME NEW t, t \in Seq(Bundle), DOMAIN t = DOMAIN bs,
             \A i \in DOMAIN bs : t[i] \in {Upvoted(bs[i]), Downvoted(bs[i])}
      PROVE  SameButVotes(bs, t)
  BY <1>1, <1>8, VoteStaysBundle DEF SameButVotes
<1> QED
  BY <1>5, <1>6, <1>7, <1>8

LEMMA SameButVotesGood ==
  ASSUME NEW bs, NEW t, Good(bs), SameButVotes(bs, t)
  PROVE  Good(t)
BY DEF Good, SameButVotes, Chrono, Unique, Precedes

\* A new bundle that no other one of the list equals or follows.
LEMMA AppendKeeps ==
  ASSUME NEW bs, Good(bs), NEW b \in Bundle,
         \A i \in DOMAIN bs : Precedes(bs[i], b) /\ bs[i].id # b.id
  PROVE  Good(Append(bs, b))
<1> DEFINE t == Append(bs, b)
<1>1. bs \in Seq(Bundle) /\ Len(bs) \in Nat /\ DOMAIN bs = 1..Len(bs)
  BY LenProperties DEF Good
<1>2. /\ t \in Seq(Bundle)
      /\ Len(t) = Len(bs) + 1
      /\ \A i \in 1..Len(bs) : t[i] = bs[i]
      /\ t[Len(bs) + 1] = b
  BY <1>1, AppendProperties
<1>3. DOMAIN t = 1..(Len(bs) + 1)
  BY <1>2, LenProperties
<1> HIDE DEF t
<1>4. Chrono(t)
  <2> SUFFICES ASSUME NEW i \in DOMAIN t, NEW j \in DOMAIN t, i < j
               PROVE  Precedes(t[i], t[j])
    BY DEF Chrono
  <2>1. i \in 1..Len(bs)
    BY <1>1, <1>3
  <2>2. CASE j \in 1..Len(bs)
    BY <2>1, <2>2, <1>1, <1>2 DEF Good, Chrono
  <2>3. CASE j = Len(bs) + 1
    BY <2>1, <2>3, <1>1, <1>2
  <2> QED
    BY <2>2, <2>3, <1>1, <1>3
<1>5. Unique(t)
  <2> SUFFICES ASSUME NEW i \in DOMAIN t, NEW j \in DOMAIN t, t[i].id = t[j].id
               PROVE  i = j
    BY DEF Unique
  <2>1. CASE i \in 1..Len(bs) /\ j \in 1..Len(bs)
    BY <2>1, <1>1, <1>2 DEF Good, Unique
  <2>2. CASE i = Len(bs) + 1 /\ j \in 1..Len(bs)
    BY <2>2, <1>1, <1>2
  <2>3. CASE i \in 1..Len(bs) /\ j = Len(bs) + 1
    BY <2>3, <1>1, <1>2
  <2> QED
    BY <2>1, <2>2, <2>3, <1>1, <1>3
<1>6. Good(t)
  BY <1>2, <1>4, <1>5 DEF Good
<1> QED
  BY <1>6 DEF t

-----------------------------------------------------------------------------
(* The inductive invariant.                                                *)

\* No bundle of the list is younger than the current block, of height h, and
\* those of the current block precede every M3 of ms, still to be handled.
Timely(bs, h, ms) ==
  \A i \in DOMAIN bs :
    /\ bs[i].born <= h
    /\ bs[i].born = h =>
         \A k \in DOMAIN ms : ms[k].type = "M3" => bs[i].vout < ms[k].vout

ListsOK == \A s \in DOMAIN m : Good(m[s]) /\ Timely(m[s], height, todo)

TodoOK == todo \in Seq(Message) /\ InVoutOrder(todo)

RestOK ==
  /\ DOMAIN m \subseteq SidechainNumbers
  /\ height \in 0..MaxHeight
  /\ prevM4 \in M4
  /\ PrevM4Replayable
  /\ status \in {"accepted", "rejected", "handling", "panicked"}
  /\ status # "handling" => todo = <<>>

IInv == ListsOK /\ TodoOK /\ RestOK /\ NoneExpired

\* The current message comes before the others, and those keep their order.
LEMMA TodoFirst ==
  ASSUME TodoOK, todo # <<>>
  PROVE  /\ Head(todo) \in Message
         /\ Tail(todo) \in Seq(Message)
         /\ InVoutOrder(Tail(todo))
         /\ \A k \in DOMAIN Tail(todo) :
              /\ k + 1 \in DOMAIN todo
              /\ Tail(todo)[k] = todo[k + 1]
              /\ Head(todo).type = "M3" /\ Tail(todo)[k].type = "M3"
                   => Head(todo).vout < Tail(todo)[k].vout
<1>1. /\ todo \in Seq(Message)
      /\ Len(todo) \in Nat
      /\ DOMAIN todo = 1..Len(todo)
  BY LenProperties DEF TodoOK
<1>2. /\ Head(todo) = todo[1]
      /\ Head(todo) \in Message
      /\ Tail(todo) \in Seq(Message)
      /\ Len(Tail(todo)) = Len(todo) - 1
      /\ \A i \in 1..Len(Tail(todo)) : Tail(todo)[i] = todo[i + 1]
  BY <1>1, HeadTailProperties
<1>3. DOMAIN Tail(todo) = 1..Len(Tail(todo))
  BY <1>2, LenProperties
<1>4. \A k \in DOMAIN Tail(todo) : k \in Nat /\ 1 < k + 1 /\ k + 1 \in DOMAIN todo /\ 1 \in DOMAIN todo
  BY <1>1, <1>2, <1>3
<1>5. InVoutOrder(Tail(todo))
  BY <1>2, <1>3, <1>4 DEF InVoutOrder, TodoOK
<1>6. \A k \in DOMAIN Tail(todo) :
        Head(todo).type = "M3" /\ Tail(todo)[k].type = "M3"
          => Head(todo).vout < Tail(todo)[k].vout
  BY <1>2, <1>3, <1>4 DEF InVoutOrder, TodoOK
<1> QED
  BY <1>2, <1>3, <1>4, <1>5, <1>6

\* The state of the messages is as good after one of them has been handled, or
\* has made the block invalid; and a list that was timely stays timely.
LEMMA TodoStep ==
  ASSUME TodoOK, todo # <<>>, height' = height, todo' \in {Tail(todo), <<>>}
  PROVE  /\ TodoOK'
         /\ \A bs : Timely(bs, height, todo) => Timely(bs, height', todo')
<1>1. TodoOK'
  <2>1. CASE todo' = Tail(todo)
    BY <2>1, TodoFirst DEF TodoOK
  <2>2. CASE todo' = <<>>
    BY <2>2 DEF TodoOK, InVoutOrder
  <2> QED
    BY <2>1, <2>2
<1>2. ASSUME NEW bs, Timely(bs, height, todo)
      PROVE  Timely(bs, height', todo')
  <2>1. CASE todo' = Tail(todo)
    BY <2>1, <1>2, TodoFirst DEF Timely
  <2>2. CASE todo' = <<>>
    BY <2>2, <1>2 DEF Timely
  <2> QED
    BY <2>1, <2>2
<1> QED
  BY <1>1, <1>2

\* What is left of a list after a payment or an expiry.
LEMMA SelectionOK ==
  ASSUME NEW bs, Good(bs), NEW h, NEW ms, Timely(bs, h, ms),
         NEW keep \in SUBSET DOMAIN bs
  PROVE  /\ Good(SortChrono(bs, keep))
         /\ Timely(SortChrono(bs, keep), h, ms)
         /\ \A i \in DOMAIN SortChrono(bs, keep) :
              \E j \in keep : SortChrono(bs, keep)[i] = bs[j]
BY SelectionKeeps DEF Good, Timely

LEMMA SameButVotesTimely ==
  ASSUME NEW bs, NEW t, SameButVotes(bs, t), NEW h, NEW ms, Timely(bs, h, ms)
  PROVE  Timely(t, h, ms)
BY DEF SameButVotes, Timely

\* A slot that the list does not know has no bundles.
LEMMA BundlesOK ==
  ASSUME ListsOK, NEW s
  PROVE  Good(Bundles(s)) /\ Timely(Bundles(s), height, todo)
<1>1. CASE s \in DOMAIN m
  BY <1>1 DEF ListsOK, Bundles
<1>2. CASE s \notin DOMAIN m
  <2>1. Bundles(s) = <<>>
    BY <1>2 DEF Bundles
  <2> QED
    BY <2>1, EmptySeq DEF Good, Chrono, Unique, Timely
<1> QED
  BY <1>1, <1>2

\* A step that replaces the list of one slot, or none.
LEMMA SetBundlesOK ==
  ASSUME ListsOK, NEW slot, NEW bs, SetBundles(slot, bs),
         Good(bs), Timely(bs, height', todo'),
         \A t : Timely(t, height, todo) => Timely(t, height', todo')
  PROVE  ListsOK'
<1>1. DOMAIN m' = DOMAIN m \cup {slot}
  BY DEF SetBundles
<1>2. \A s \in DOMAIN m' : m'[s] = IF s = slot THEN bs ELSE m[s]
  BY DEF SetBundles
<1>3. \A s \in DOMAIN m' : Good(m'[s]) /\ Timely(m'[s], height', todo')
  BY <1>1, <1>2 DEF ListsOK
<1> QED
  BY <1>3 DEF ListsOK

LEMMA InitOK == Init => IInv
<1> SUFFICES ASSUME Init
             PROVE  IInv
  OBVIOUS
<1>1. Good(<<>>) /\ Timely(<<>>, height, todo)
  BY EmptySeq DEF Good, Chrono, Unique, Timely
<1>2. ListsOK
  BY <1>1 DEF Init, ListsOK
<1>3. TodoOK
  BY EmptySeq DEF Init, TodoOK, InVoutOrder
<1>4. prevM4 \in M4
  BY EmptySeq DEF Init, M4, M4Version
<1>5. RestOK
  BY <1>4, ConstantsAssumption DEF Init, RestOK, PrevM4Replayable
<1>6. NoneExpired
  BY DEF Init, NoneExpired
<1> QED
  BY <1>2, <1>3, <1>5, <1>6 DEF IInv

\* A new block is later than every bundle, whatever its messages.
LEMMA HandleMsgsOK ==
  ASSUME IInv, AtRest, height < MaxHeight,
         NEW ms \in Seq(Message), InVoutOrder(ms), HandleMsgs(ms)
  PROVE  IInv'
<1> USE DEF IInv
<1>1. height' = height + 1 /\ height' \in 0..MaxHeight
  BY ConstantsAssumption DEF HandleMsgs, RestOK
<1>2. TodoOK'
  <2>1. todo' = ms \/ todo' = <<>>
    BY DEF HandleMsgs
  <2>2. CASE todo' = ms
    BY <2>2 DEF TodoOK
  <2>3. CASE todo' = <<>>
    BY <2>3, EmptySeq DEF TodoOK, InVoutOrder
  <2> QED
    BY <2>1, <2>2, <2>3
<1>3. ListsOK'
  <2> SUFFICES ASSUME NEW s \in DOMAIN m
               PROVE  Timely(m[s], height', todo')
    BY DEF HandleMsgs, ListsOK
  <2>1. ASSUME NEW i \in DOMAIN m[s]
        PROVE  m[s][i].born <= height' /\ m[s][i].born # height'
    <3>1. m[s][i].born <= height
      BY DEF ListsOK, Timely
    <3>2. m[s][i] \in Bundle
      BY LenProperties, ElementOfSeq DEF ListsOK, Good
    <3>3. m[s][i].born \in 0..MaxHeight
      BY <3>2 DEF Bundle
    <3> QED
      BY <1>1, <3>1, <3>3, ConstantsAssumption DEF RestOK
  <2> QED
    BY <2>1 DEF Timely
<1>4. RestOK'
  BY <1>1 DEF HandleMsgs, RestOK, PrevM4Replayable
<1>5. NoneExpired'
  BY DEF HandleMsgs, NoneExpired
<1> QED
  BY <1>2, <1>3, <1>4, <1>5

LEMMA NextBlockOK == IInv /\ NextBlock => IInv'
<1> SUFFICES ASSUME IInv, AtRest, height < MaxHeight, NEW ms \in Blocks, HandleMsgs(ms)
             PROVE  IInv'
  BY DEF NextBlock
<1>1. ms \in Seq(Message) /\ InVoutOrder(ms)
  BY BlocksAssumption
<1> QED
  BY <1>1, HandleMsgsOK

\* The parts of the invariant that a step to the next message, or to the
\* rejection of the block, keeps whatever it does to the lists.
LEMMA MessageDone ==
  ASSUME IInv, status = "handling", todo # <<>>, NextMessage \/ Reject
  PROVE  /\ height' = height
         /\ TodoOK'
         /\ \A bs : Timely(bs, height, todo) => Timely(bs, height', todo')
         /\ NoneExpired'
         /\ DOMAIN m' \subseteq SidechainNumbers /\ (prevM4 \in M4)' /\ PrevM4Replayable'
              => RestOK'
<1>1. height' = height /\ todo' \in {Tail(todo), <<>>}
  BY DEF NextMessage, Reject
<1>2. /\ status' \in {"handling", "rejected"}
      /\ status' # "handling" => todo' = <<>>
  BY DEF NextMessage, Reject
<1>3. NoneExpired'
  BY <1>2 DEF NoneExpired
<1>4. DOMAIN m' \subseteq SidechainNumbers /\ (prevM4 \in M4)' /\ PrevM4Replayable'
        => RestOK'
  BY <1>1, <1>2 DEF IInv, RestOK
<1> QED
  BY <1>1, <1>3, <1>4, TodoStep DEF IInv

\* The bundle that an M3 proposes.
Proposal ==
  [id |-> Head(todo).id, vout |-> Head(todo).vout, vote |-> 1, born |-> height]

\* The new bundle is the last one of its slot, because no other is as young.
LEMMA ProposalGood ==
  ASSUME IInv, Current("M3"), IndexesOf(Head(todo).slot, Head(todo).id) = {}
  PROVE  /\ Proposal \in Bundle
         /\ Good(Append(Bundles(Head(todo).slot), Proposal))
<1> DEFINE msg == Head(todo)
           old == Bundles(msg.slot)
<1>1. status = "handling" /\ todo # <<>> /\ msg.type = "M3"
  BY DEF Current
<1>2. ListsOK /\ TodoOK /\ RestOK
  BY DEF IInv
<1>3. msg.id \in M6IDs /\ msg.vout \in Vouts
  <2>1. msg \in Message
    BY <1>1, <1>2, TodoFirst
  <2> QED
    BY <1>1, <2>1 DEF Message
<1>4. Good(old) /\ Timely(old, height, todo)
  BY <1>2, BundlesOK
<1>5. Proposal \in Bundle
  BY <1>2, <1>3, ConstantsAssumption DEF Bundle, RestOK, Proposal
<1>6. \A i \in DOMAIN old : Precedes(old[i], Proposal) /\ old[i].id # Proposal.id
  <2> TAKE i \in DOMAIN old
  <2>1. old[i].id # Proposal.id
    BY DEF IndexesOf, Proposal
  <2>2. 1 \in DOMAIN todo /\ msg = todo[1]
    BY <1>1, <1>2, LenProperties, HeadTailProperties DEF TodoOK
  <2>3. /\ old[i].born <= height
        /\ old[i].born = height => old[i].vout < msg.vout
    BY <1>4, <2>2, <1>1 DEF Timely
  <2>4. old[i] \in Bundle
    BY <1>4, LenProperties, ElementOfSeq DEF Good
  <2>5. old[i].born \in 0..MaxHeight
    BY <2>4 DEF Bundle
  <2>6. old[i].born \in Int /\ height \in Int
    BY <2>5, <1>2, ConstantsAssumption DEF RestOK
  <2> QED
    BY <2>1, <2>3, <2>6 DEF Precedes, Proposal
<1> QED
  BY <1>4, <1>5, <1>6, AppendKeeps

LEMMA handleM3OK == IInv /\ handleM3 => IInv'
<1> SUFFICES ASSUME IInv, handleM3
             PROVE  IInv'
  OBVIOUS
<1> DEFINE msg == Head(todo)
           b == [id |-> msg.id, vout |-> msg.vout, vote |-> 1, born |-> height]
           bs == Append(Bundles(msg.slot), b)
<1>1. status = "handling" /\ todo # <<>> /\ msg.type = "M3" /\ prevM4' = prevM4
  BY DEF handleM3, Current
<1>2. ListsOK /\ TodoOK /\ RestOK
  BY DEF IInv
<1>3. msg.slot \in SidechainNumbers /\ msg.id \in M6IDs /\ msg.vout \in Vouts
  <2>1. msg \in Message
    BY <1>1, <1>2, TodoFirst
  <2> QED
    BY <1>1, <2>1 DEF Message
<1>4. NextMessage \/ Reject
  BY DEF handleM3
<1>5. /\ height' = height /\ TodoOK' /\ NoneExpired'
      /\ \A t : Timely(t, height, todo) => Timely(t, height', todo')
      /\ DOMAIN m' \subseteq SidechainNumbers /\ (prevM4 \in M4)' /\ PrevM4Replayable'
           => RestOK'
  BY <1>1, <1>4, MessageDone
<1>6. (prevM4 \in M4)' /\ PrevM4Replayable'
  BY <1>1, <1>2 DEF RestOK, PrevM4Replayable
<1>7. CASE Reject /\ UNCHANGED m
  BY <1>2, <1>5, <1>6, <1>7 DEF IInv, ListsOK, RestOK
<1>8. CASE /\ IndexesOf(msg.slot, msg.id) = {}
           /\ SetBundles(msg.slot, SortChrono(bs, DOMAIN bs))
           /\ NextMessage
  <2> DEFINE old == Bundles(msg.slot)
  <2>1. Good(old) /\ Timely(old, height, todo)
    BY <1>2, BundlesOK
  <2>2. b \in Bundle /\ Good(bs)
    BY <1>1, <1>8, ProposalGood DEF Proposal, Current
  <2>3. Timely(bs, height', todo')
    <3>1. /\ old \in Seq(Bundle) /\ Len(old) \in Nat /\ DOMAIN old = 1..Len(old)
      BY <2>1, LenProperties DEF Good
    <3>2. \A i \in DOMAIN bs : (i \in DOMAIN old /\ bs[i] = old[i]) \/ bs[i] = b
      <4>1. /\ Len(bs) = Len(old) + 1 /\ bs \in Seq(Bundle)
            /\ \A i \in 1..Len(old) : bs[i] = old[i]
            /\ bs[Len(old) + 1] = b
        BY <3>1, <2>2, AppendProperties
      <4>2. DOMAIN bs = 1..(Len(old) + 1)
        BY <4>1, LenProperties
      <4> QED
        BY <3>1, <4>1, <4>2
    <3>3. Timely(old, height', todo')
      BY <1>5, <2>1
    <3>4. b.born <= height' /\ \A k \in DOMAIN todo' : todo'[k].type = "M3" => b.vout < todo'[k].vout
      <4>1. todo' = Tail(todo)
        BY <1>8 DEF NextMessage
      <4>2. height \in Int
        BY <1>2, ConstantsAssumption DEF RestOK
      <4> QED
        BY <4>1, <4>2, <1>1, <1>2, <1>5, TodoFirst
    <3> HIDE DEF bs, b, old
    <3> QED
      BY <3>2, <3>3, <3>4 DEF Timely
  <2>4. Good(SortChrono(bs, DOMAIN bs)) /\ Timely(SortChrono(bs, DOMAIN bs), height', todo')
    <3> HIDE DEF bs
    <3> QED
      BY <2>2, <2>3, SelectionOK
  <2>5. ListsOK'
    BY <1>2, <1>5, <1>8, <2>4, SetBundlesOK
  <2>6. DOMAIN m' \subseteq SidechainNumbers
    BY <1>2, <1>3, <1>8 DEF SetBundles, RestOK
  <2> QED
    BY <2>5, <2>6, <1>5, <1>6 DEF IInv
<1> QED
  BY <1>7, <1>8 DEF handleM3

\* A step that leaves every list as it was, up to its votes.
LEMMA VotesStepOK ==
  ASSUME ListsOK, DOMAIN m' = DOMAIN m,
         \A s \in DOMAIN m : m'[s] = m[s] \/ SameButVotes(m[s], m'[s]),
         \A bs : Timely(bs, height, todo) => Timely(bs, height', todo')
  PROVE  ListsOK'
<1> SUFFICES ASSUME NEW s \in DOMAIN m
             PROVE  Good(m'[s]) /\ Timely(m'[s], height', todo')
  BY DEF ListsOK
<1>1. Good(m[s]) /\ Timely(m[s], height', todo')
  BY DEF ListsOK
<1>2. CASE m'[s] = m[s]
  BY <1>1, <1>2
<1>3. CASE SameButVotes(m[s], m'[s])
  BY <1>1, <1>3, SameButVotesGood, SameButVotesTimely
<1> QED
  BY <1>2, <1>3

LEMMA handleM4RepeatOK == IInv /\ handleM4Repeat => IInv'
<1> SUFFICES ASSUME IInv, handleM4Repeat
             PROVE  IInv'
  OBVIOUS
<1> DEFINE again == [type |-> "M4", m4 |-> prevM4]
<1>1. /\ status = "handling" /\ todo # <<>>
      /\ todo' = <<again>> \o Tail(todo)
      /\ m' = m /\ height' = height /\ prevM4' = prevM4 /\ status' = status
  BY DEF handleM4Repeat, CurrentM4, Current
<1>2. again \in Message
  BY DEF Message, IInv, RestOK
<1>3. Tail(todo) \in Seq(Message) /\ InVoutOrder(Tail(todo))
  BY <1>1, TodoFirst DEF IInv
<1>4. /\ todo' \in Seq(Message)
      /\ Len(todo') = Len(Tail(todo)) + 1
      /\ \A k \in 1..Len(todo') : todo'[k] = IF k = 1 THEN again ELSE Tail(todo)[k - 1]
  <2>1. <<again>> \in Seq(Message) /\ Len(<<again>>) = 1 /\ <<again>>[1] = again
    BY <1>2
  <2> QED
    BY <1>1, <1>3, <2>1, ConcatProperties
<1>5. Len(Tail(todo)) \in Nat /\ DOMAIN Tail(todo) = 1..Len(Tail(todo)) /\ DOMAIN todo' = 1..Len(todo')
  BY <1>3, <1>4, LenProperties
<1>6. ASSUME NEW k \in DOMAIN todo', todo'[k].type = "M3"
      PROVE  k - 1 \in DOMAIN Tail(todo) /\ todo'[k] = Tail(todo)[k - 1]
  <2>1. again.type # "M3"
    OBVIOUS
  <2> HIDE DEF again
  <2>2. k # 1
    BY <2>1, <1>4, <1>5, <1>6
  <2> QED
    BY <2>2, <1>4, <1>5
<1>7. TodoOK'
  <2>1. \A i, j \in DOMAIN todo' : i < j => i - 1 < j - 1
    BY <1>5
  <2> QED
    BY <2>1, <1>3, <1>4, <1>6 DEF TodoOK, InVoutOrder
<1>8. \A bs : Timely(bs, height, todo) => Timely(bs, height', todo')
  <2>1. \A k \in DOMAIN Tail(todo) : k + 1 \in DOMAIN todo /\ Tail(todo)[k] = todo[k + 1]
    BY <1>1, TodoFirst DEF IInv
  <2> QED
    BY <2>1, <1>1, <1>6 DEF Timely
<1>9. ListsOK'
  BY <1>1, <1>8 DEF ListsOK, IInv
<1>10. RestOK' /\ NoneExpired'
  BY <1>1 DEF IInv, RestOK, PrevM4Replayable, NoneExpired
<1> QED
  BY <1>7, <1>9, <1>10 DEF IInv

\* An M4 leaves the list of a slot as it is, votes for one bundle or raises an
\* alarm, also if a later entry of its vector invalidates the block.
LEMMA VotesCast ==
  ASSUME handleM4Votes \/ handleM4Leading
  PROVE  /\ DOMAIN m' = DOMAIN m
         /\ \A s \in DOMAIN m :
              \E want : m'[s] \in {m[s], upvote(want, m[s]), downvoteAll(m[s])}
<1>1. CASE handleM4Votes
  <2> DEFINE v == Head(todo).m4
  <2>1. Votes(v)
    BY <1>1 DEF handleM4Votes
  <2>2. \A s \in DOMAIN m : \E want : m'[s] \in {m[s], AfterVote(v, want, m[s])}
    BY <2>1 DEF Votes
  <2> QED
    BY <2>1, <2>2 DEF Votes, AfterVote
<1>2. CASE handleM4Leading
  BY <1>2 DEF handleM4Leading
<1> QED
  BY <1>1, <1>2

\* So it changes no list but for the votes.
LEMMA VotesChange ==
  ASSUME ListsOK, handleM4Votes \/ handleM4Leading
  PROVE  /\ DOMAIN m' = DOMAIN m
         /\ \A s \in DOMAIN m : m'[s] = m[s] \/ SameButVotes(m[s], m'[s])
<1>1. \A s \in DOMAIN m : m[s] \in Seq(Bundle)
  BY DEF ListsOK, Good
<1> QED
  BY <1>1, VotesCast, VotesKeep

LEMMA handleM4VotesOK == IInv /\ handleM4Votes => IInv'
<1> SUFFICES ASSUME IInv, handleM4Votes
             PROVE  IInv'
  OBVIOUS
<1> DEFINE v == Head(todo).m4
<1>1. /\ status = "handling" /\ todo # <<>>
      /\ Head(todo).type = "M4" /\ v.Enum \in {"OneByte", "TwoByte"}
      /\ Votes(v)
      /\ \/ prevM4' = v /\ NextMessage
         \/ prevM4' = prevM4 /\ Reject
  BY DEF handleM4Votes, CurrentM4, Current
<1>2. ListsOK /\ TodoOK /\ RestOK
  BY DEF IInv
<1>3. v \in M4
  <2>1. Head(todo) \in Message
    BY <1>1, <1>2, TodoFirst
  <2> QED
    BY <1>1, <2>1 DEF Message
<1>4. (prevM4 \in M4)' /\ PrevM4Replayable'
  BY <1>1, <1>2, <1>3 DEF RestOK, PrevM4Replayable
<1>5. /\ TodoOK' /\ NoneExpired'
      /\ \A t : Timely(t, height, todo) => Timely(t, height', todo')
      /\ DOMAIN m' \subseteq SidechainNumbers /\ (prevM4 \in M4)' /\ PrevM4Replayable'
           => RestOK'
  BY <1>1, MessageDone
<1>6. /\ DOMAIN m' = DOMAIN m
      /\ \A s \in DOMAIN m : m'[s] = m[s] \/ SameButVotes(m[s], m'[s])
  BY <1>2, VotesChange
<1>7. ListsOK'
  BY <1>2, <1>5, <1>6, VotesStepOK
<1> QED
  BY <1>2, <1>4, <1>5, <1>6, <1>7 DEF IInv, RestOK

LEMMA handleM4LeadingOK == IInv /\ handleM4Leading => IInv'
<1> SUFFICES ASSUME IInv, handleM4Leading
             PROVE  IInv'
  OBVIOUS
<1>1. status = "handling" /\ todo # <<>> /\ Head(todo).type = "M4" /\ Head(todo).m4.Enum = "LeadingBy50"
  BY DEF handleM4Leading, CurrentM4, Current
<1>2. ListsOK /\ TodoOK /\ RestOK
  BY DEF IInv
<1>3. CASE /\ m' = [s \in DOMAIN m |->
                      IF By50(m[s]) THEN upvote(Leading(m[s]), m[s]) ELSE m[s]]
           /\ prevM4' = Head(todo).m4
           /\ NextMessage
  <2>1. (prevM4 \in M4)' /\ PrevM4Replayable'
    <3>1. Head(todo) \in Message
      BY <1>1, <1>2, TodoFirst
    <3> QED
      BY <1>1, <1>3, <3>1 DEF Message, PrevM4Replayable
  <2>2. /\ TodoOK' /\ NoneExpired'
        /\ \A t : Timely(t, height, todo) => Timely(t, height', todo')
        /\ DOMAIN m' \subseteq SidechainNumbers /\ (prevM4 \in M4)' /\ PrevM4Replayable'
             => RestOK'
    BY <1>1, <1>3, MessageDone
  <2>3. /\ DOMAIN m' = DOMAIN m
        /\ \A s \in DOMAIN m : m'[s] = m[s] \/ SameButVotes(m[s], m'[s])
    BY <1>2, VotesChange
  <2>4. ListsOK'
    BY <1>2, <2>2, <2>3, VotesStepOK
  <2> QED
    BY <1>2, <2>1, <2>2, <2>3, <2>4 DEF IInv, RestOK
<1>4. CASE /\ status' = "panicked"
           /\ todo' = <<>>
           /\ UNCHANGED <<m, height, prevM4>>
  <2>1. /\ TodoOK'
        /\ \A bs : Timely(bs, height, todo) => Timely(bs, height', todo')
    BY <1>1, <1>2, <1>4, TodoStep
  <2>2. ListsOK'
    BY <1>2, <1>4, <2>1 DEF ListsOK
  <2> QED
    BY <1>2, <1>4, <2>1, <2>2 DEF IInv, RestOK, PrevM4Replayable, NoneExpired
<1> QED
  BY <1>3, <1>4 DEF handleM4Leading

LEMMA IgnoredOK == IInv /\ (handleM4Unknown \/ handleOther) => IInv'
<1> SUFFICES ASSUME IInv, handleM4Unknown \/ handleOther
             PROVE  IInv'
  OBVIOUS
<1>1. status = "handling" /\ todo # <<>> /\ NextMessage /\ UNCHANGED <<m, prevM4>>
  BY DEF handleM4Unknown, handleOther, CurrentM4, Current
<1>2. /\ TodoOK' /\ NoneExpired'
      /\ \A t : Timely(t, height, todo) => Timely(t, height', todo')
      /\ DOMAIN m' \subseteq SidechainNumbers /\ (prevM4 \in M4)' /\ PrevM4Replayable'
           => RestOK'
  BY <1>1, MessageDone
<1> QED
  BY <1>1, <1>2 DEF IInv, ListsOK, RestOK, PrevM4Replayable

LEMMA handleM6OK == IInv /\ handleM6 => IInv'
<1> SUFFICES ASSUME IInv, handleM6
             PROVE  IInv'
  OBVIOUS
<1> DEFINE slot == Head(todo).slot
           bs == Bundles(slot)
<1>1. /\ status = "handling" /\ todo # <<>> /\ Head(todo).type = "M6"
      /\ UNCHANGED prevM4
      /\ NextMessage \/ Reject
  BY DEF handleM6, Current
<1>2. ListsOK /\ TodoOK /\ RestOK
  BY DEF IInv
<1>3. slot \in SidechainNumbers
  <2>1. Head(todo) \in Message
    BY <1>1, <1>2, TodoFirst
  <2> QED
    BY <1>1, <2>1 DEF Message
<1>4. /\ height' = height /\ TodoOK' /\ NoneExpired'
      /\ \A t : Timely(t, height, todo) => Timely(t, height', todo')
      /\ DOMAIN m' \subseteq SidechainNumbers /\ (prevM4 \in M4)' /\ PrevM4Replayable'
           => RestOK'
  BY <1>1, MessageDone
<1>5. (prevM4 \in M4)' /\ PrevM4Replayable'
  BY <1>1, <1>2 DEF RestOK, PrevM4Replayable
<1>6. CASE UNCHANGED m
  BY <1>2, <1>4, <1>5, <1>6 DEF IInv, ListsOK, RestOK
<1>7. ASSUME NEW i \in DOMAIN bs, SetBundles(slot, SortChrono(bs, DOMAIN bs \ {i}))
      PROVE  IInv'
  <2>1. Good(bs) /\ Timely(bs, height', todo')
    BY <1>2, <1>4, BundlesOK
  <2>2. /\ Good(SortChrono(bs, DOMAIN bs \ {i}))
        /\ Timely(SortChrono(bs, DOMAIN bs \ {i}), height', todo')
    BY <2>1, SelectionOK
  <2>3. ListsOK'
    BY <1>2, <1>4, <1>7, <2>2, SetBundlesOK
  <2>4. DOMAIN m' \subseteq SidechainNumbers
    BY <1>2, <1>3, <1>7 DEF SetBundles, RestOK
  <2> QED
    BY <1>4, <1>5, <2>3, <2>4 DEF IInv
<1>8. UNCHANGED m \/ \E i \in DOMAIN bs : SetBundles(slot, SortChrono(bs, DOMAIN bs \ {i}))
  BY DEF handleM6, IndexesOf
<1> QED
  BY <1>6, <1>7, <1>8

LEMMA delExpiredOK == IInv /\ delExpired => IInv'
<1> SUFFICES ASSUME IInv, delExpired
             PROVE  IInv'
  OBVIOUS
<1>1. /\ DOMAIN m' = DOMAIN m
      /\ \A s \in DOMAIN m : m'[s] = SortChrono(m[s], Fresh(m[s]))
      /\ status' = "accepted"
      /\ todo = <<>> /\ UNCHANGED <<height, prevM4, todo>>
  BY DEF delExpired
<1>2. ListsOK /\ TodoOK /\ RestOK
  BY DEF IInv
<1>3. ASSUME NEW s \in DOMAIN m
      PROVE  /\ Good(m'[s]) /\ Timely(m'[s], height', todo')
             /\ \A i \in DOMAIN m'[s] : \E j \in Fresh(m[s]) : m'[s][i] = m[s][j]
  <2>1. Good(m[s]) /\ Timely(m[s], height', todo')
    BY <1>1, <1>2 DEF ListsOK
  <2>2. Fresh(m[s]) \in SUBSET DOMAIN m[s]
    BY DEF Fresh
  <2> QED
    BY <1>1, <2>1, <2>2, SelectionOK
<1>4. ListsOK'
  BY <1>1, <1>3 DEF ListsOK
<1>5. NoneExpired'
  BY <1>1, <1>3 DEF NoneExpired, Fresh
<1> QED
  BY <1>1, <1>2, <1>4, <1>5 DEF IInv, TodoOK, RestOK, PrevM4Replayable

-----------------------------------------------------------------------------
\* Every step keeps the invariant.
LEMMA HandlingOK == IInv /\ Handling => IInv'
BY handleM3OK, handleM4RepeatOK, handleM4VotesOK, handleM4LeadingOK, IgnoredOK,
   handleM6OK, delExpiredOK DEF Handling

\* A bundle that a step adds to the list of a slot is the one of the current M3;
\* the others were in that list, whatever became of their votes.
LEMMA IDsOfStep ==
  ASSUME IInv, Handling, NEW s \in DOMAIN m', NEW i \in DOMAIN m'[s]
  PROVE  \/ s \in DOMAIN m /\ \E j \in DOMAIN m[s] : m[s][j].id = m'[s][i].id
         \/ Current("M3") /\ s = Head(todo).slot /\ m'[s][i].id = Head(todo).id
<1> DEFINE Old(slot) == \E j \in DOMAIN Bundles(slot) : Bundles(slot)[j].id = m'[s][i].id
<1>1. ASSUME Old(s)
      PROVE  s \in DOMAIN m /\ \E j \in DOMAIN m[s] : m[s][j].id = m'[s][i].id
  <2>1. s \in DOMAIN m
    <3>1. Bundles(s) # <<>>
      BY <1>1, EmptySeq
    <3> QED
      BY <3>1 DEF Bundles
  <2> QED
    BY <1>1, <2>1 DEF Bundles
<1>2. ListsOK
  BY DEF IInv
<1>3. CASE m' = m
  BY <1>3
<1>4. CASE handleM3 /\ m' # m
  <2> DEFINE slot == Head(todo).slot
             old == Bundles(slot)
             bs == Append(old, Proposal)
  <2>1. Current("M3") /\ IndexesOf(slot, Head(todo).id) = {} /\ SetBundles(slot, SortChrono(bs, DOMAIN bs))
    BY <1>4 DEF handleM3, Proposal
  <2>2. s \in DOMAIN m \cup {slot} /\ m'[s] = IF s = slot THEN SortChrono(bs, DOMAIN bs) ELSE m[s]
    BY <2>1 DEF SetBundles
  <2>3. CASE s # slot
    BY <2>2, <2>3
  <2>4. CASE s = slot
    <3>1. Proposal \in Bundle /\ Good(bs) /\ Good(old)
      BY <1>2, <2>1, ProposalGood, BundlesOK
    <3>2. \E k \in DOMAIN bs : m'[s][i] = bs[k]
      <4> HIDE DEF bs
      <4> QED
        BY <2>2, <2>4, <3>1, SelectionKeeps DEF Good
    <3>3. \A k \in DOMAIN bs : (k \in DOMAIN old /\ bs[k] = old[k]) \/ bs[k] = Proposal
      <4>1. old \in Seq(Bundle) /\ Len(old) \in Nat /\ DOMAIN old = 1..Len(old)
        BY <3>1, LenProperties DEF Good
      <4>2. /\ bs \in Seq(Bundle) /\ Len(bs) = Len(old) + 1
            /\ \A k \in 1..Len(old) : bs[k] = old[k]
            /\ bs[Len(old) + 1] = Proposal
        BY <3>1, <4>1, AppendProperties
      <4>3. DOMAIN bs = 1..(Len(old) + 1)
        BY <4>2, LenProperties
      <4> QED
        BY <4>1, <4>2, <4>3
    <3>4. Proposal.id = Head(todo).id
      BY DEF Proposal
    <3> HIDE DEF bs
    <3> QED
      BY <1>1, <2>1, <2>4, <3>2, <3>3, <3>4
  <2> QED
    BY <2>3, <2>4
<1>5. CASE handleM6 /\ m' # m
  <2> DEFINE slot == Head(todo).slot
             bs == Bundles(slot)
  <2>1. PICK k : SetBundles(slot, SortChrono(bs, DOMAIN bs \ {k}))
    BY <1>5 DEF handleM6
  <2>2. s \in DOMAIN m \cup {slot} /\ m'[s] = IF s = slot THEN SortChrono(bs, DOMAIN bs \ {k}) ELSE m[s]
    BY <2>1 DEF SetBundles
  <2>3. CASE s # slot
    BY <2>2, <2>3
  <2>4. CASE s = slot
    <3>1. Good(bs)
      BY <1>2, BundlesOK
    <3>2. \E j \in DOMAIN bs : m'[s][i] = bs[j]
      BY <2>2, <2>4, <3>1, SelectionKeeps DEF Good
    <3> QED
      BY <1>1, <2>4, <3>2
  <2> QED
    BY <2>3, <2>4
<1>6. CASE handleM4Votes \/ handleM4Leading
  <2>1. /\ DOMAIN m' = DOMAIN m
        /\ m'[s] = m[s] \/ SameButVotes(m[s], m'[s])
    BY <1>2, <1>6, VotesChange
  <2> QED
    BY <2>1 DEF SameButVotes
<1>7. CASE delExpired
  <2>1. s \in DOMAIN m /\ m'[s] = SortChrono(m[s], Fresh(m[s])) /\ Fresh(m[s]) \in SUBSET DOMAIN m[s]
    BY <1>7 DEF delExpired, Fresh
  <2>2. Good(m[s])
    BY <1>2, <2>1 DEF ListsOK
  <2> QED
    BY <2>1, <2>2, SelectionKeeps DEF Good
<1> QED
  BY <1>3, <1>4, <1>5, <1>6, <1>7 DEF Handling, handleM4Repeat, handleM4Unknown, handleOther

\* The M3s and M6s left are those that were left before the step, but for the
\* current message; and that one, if it is an M6 and does not make the block
\* invalid, has its bundle in the list.
LEMMA TodoOfStep ==
  ASSUME IInv, Handling
  PROVE  /\ \A k \in DOMAIN todo' : todo'[k].type = "M3" => \E j \in DOMAIN todo : todo'[k] = todo[j]
         /\ status' \in {"handling", "accepted"} =>
              /\ status = "handling"
              /\ \A k \in DOMAIN todo :
                   todo[k].type = "M6" =>
                     \/ \E j \in DOMAIN todo' : todo'[j] = todo[k]
                     \/ IndexesOf(todo[k].slot, todo[k].id) # {}
<1>1. TodoOK /\ status = "handling"
  BY DEF IInv, Handling, handleM3, handleM4Repeat, handleM4Votes, handleM4Leading, handleM4Unknown,
     handleM6, handleOther, delExpired, CurrentM4, Current
<1>2. CASE delExpired
  BY <1>1, <1>2 DEF delExpired
<1>3. CASE ~delExpired
  <2>1. todo # <<>>
    BY <1>3 DEF Handling, handleM3, handleM4Repeat, handleM4Votes, handleM4Leading, handleM4Unknown,
       handleM6, handleOther, CurrentM4, Current
  <2> DEFINE tail == Tail(todo)
  <2>2. /\ todo \in Seq(Message) /\ Len(todo) \in Nat /\ DOMAIN todo = 1..Len(todo)
        /\ Head(todo) = todo[1] /\ tail \in Seq(Message)
        /\ Len(tail) = Len(todo) - 1
        /\ \A k \in 1..Len(tail) : tail[k] = todo[k + 1]
    BY <1>1, <2>1, LenProperties, HeadTailProperties DEF TodoOK
  <2>3. DOMAIN tail = 1..Len(tail)
    BY <2>2, LenProperties
  <2>4. \A k \in DOMAIN todo : k # 1 => k - 1 \in DOMAIN tail /\ tail[k - 1] = todo[k]
    <3> TAKE k \in DOMAIN todo
    <3> SUFFICES ASSUME k # 1
                 PROVE  k - 1 \in DOMAIN tail /\ tail[k - 1] = todo[k]
      OBVIOUS
    <3>1. k \in 2..Len(todo) /\ k - 1 \in 1..Len(tail) /\ k - 1 + 1 = k
      BY <2>2
    <3> QED
      BY <2>2, <2>3, <3>1
  <2>5. \A k \in DOMAIN tail : k + 1 \in DOMAIN todo /\ tail[k] = todo[k + 1]
    BY <2>2, <2>3
  <2> HIDE DEF tail
  <2>6. CASE todo' = <<>> /\ status' \notin {"handling", "accepted"}
    BY <2>6, EmptySeq
  <2>7. CASE todo' = tail /\ (Head(todo).type = "M6" => IndexesOf(Head(todo).slot, Head(todo).id) # {})
    BY <1>1, <2>2, <2>4, <2>5, <2>7
  <2>8. CASE handleM4Repeat
    <3> DEFINE again == [type |-> "M4", m4 |-> prevM4]
    <3>1. todo' = <<again>> \o tail /\ Head(todo).type = "M4" /\ status' = status
      BY <2>8 DEF handleM4Repeat, CurrentM4, Current, tail
    <3>2. again \in Message /\ again.type = "M4"
      BY DEF Message, IInv, RestOK
    <3> HIDE DEF again
    <3>3. /\ todo' \in Seq(Message)
          /\ Len(todo') = Len(tail) + 1
          /\ \A k \in 1..Len(todo') : todo'[k] = IF k = 1 THEN again ELSE tail[k - 1]
      <4>1. <<again>> \in Seq(Message) /\ Len(<<again>>) = 1 /\ <<again>>[1] = again
        BY <3>2
      <4>2. tail \in Seq(Message)
        BY <2>2
      <4>3. /\ <<again>> \o tail \in Seq(Message)
            /\ Len(<<again>> \o tail) = Len(<<again>>) + Len(tail)
            /\ \A k \in 1..(Len(<<again>>) + Len(tail)) :
                 (<<again>> \o tail)[k] = IF k <= Len(<<again>>) THEN <<again>>[k]
                                         ELSE tail[k - Len(<<again>>)]
        BY <4>1, <4>2, ConcatProperties
      <4>4. Len(tail) \in Nat
        BY <4>2, LenProperties
      <4> QED
        BY <3>1, <4>1, <4>3, <4>4
    <3>4. DOMAIN todo' = DOMAIN todo
      BY <2>2, <3>3, LenProperties
    <3>5. \A k \in DOMAIN todo : k # 1 => todo'[k] = todo[k]
      BY <2>2, <2>4, <3>3, <3>4
    <3>6. todo'[1] = again \/ 1 \notin DOMAIN todo
      BY <2>2, <3>3, <3>4
    <3>7. \A k \in DOMAIN todo' : todo'[k].type = "M3" => \E j \in DOMAIN todo : todo'[k] = todo[j]
      BY <3>2, <3>4, <3>5, <3>6
    <3>8. \A k \in DOMAIN todo : todo[k].type = "M6" => \E j \in DOMAIN todo' : todo'[j] = todo[k]
      BY <2>2, <3>1, <3>4, <3>5
    <3> QED
      BY <1>1, <3>7, <3>8
  <2>9. CASE handleM3
    BY <2>6, <2>7, <2>9 DEF handleM3, Current, NextMessage, Reject, tail
  <2>10. CASE handleM4Votes \/ handleM4Leading \/ handleM4Unknown
    BY <2>6, <2>7, <2>10 DEF handleM4Votes, handleM4Leading, handleM4Unknown, CurrentM4, Current,
       NextMessage, Reject, tail
  <2>11. CASE handleM6
    BY <2>6, <2>7, <2>11 DEF handleM6, Current, NextMessage, Reject, tail
  <2>12. CASE handleOther
    BY <2>7, <2>12 DEF handleOther, Current, NextMessage, tail
  <2> QED
    BY <1>3, <2>8, <2>9, <2>10, <2>11, <2>12 DEF Handling
<1> QED
  BY <1>2, <1>3

LEMMA StepOK == IInv /\ [Next]_vars => IInv'
<1> SUFFICES ASSUME IInv, [Next]_vars
             PROVE  IInv'
  OBVIOUS
<1>1. CASE NextBlock
  BY <1>1, NextBlockOK
<1>2. CASE Handling
  BY <1>2, HandlingOK
<1>3. CASE UNCHANGED vars
  BY <1>3 DEF vars, IInv, ListsOK, TodoOK, RestOK, PrevM4Replayable, NoneExpired
<1> QED
  BY <1>1, <1>2, <1>3 DEF Next

\* The invariant holds in every state.
THEOREM InvariantHolds == Spec => []IInv
BY InitOK, StepOK, PTL DEF Spec

\* The types of the state of D2 (d2.go:16-36).
THEOREM TypeCorrect == Spec => []TypeOK
<1>1. IInv => TypeOK
  BY DEF IInv, ListsOK, TodoOK, RestOK, Good, TypeOK
<1> QED
  BY <1>1, InvariantHolds, PTL

\* The bundles of a slot always are in strict chronological order.
THEOREM ChronologicalHolds == Spec => []Chronological
<1>1. IInv => Chronological
  BY DEF IInv, ListsOK, Good, Chrono, Chronological, Precedes
<1> QED
  BY <1>1, InvariantHolds, PTL

\* No slot ever holds two bundles with one M6ID.
THEOREM UniqueIDsHolds == Spec => []UniqueIDs
<1>1. IInv => UniqueIDs
  BY DEF IInv, ListsOK, Good, Unique, UniqueIDs
<1> QED
  BY <1>1, InvariantHolds, PTL

\* An accepted block leaves no bundle that is too old.
THEOREM NoneExpiredHolds == Spec => []NoneExpired
<1>1. IInv => NoneExpired
  BY DEF IInv
<1> QED
  BY <1>1, InvariantHolds, PTL

\* RepeatPrevious never repeats itself.
THEOREM PrevM4ReplayableHolds == Spec => []PrevM4Replayable
<1>1. IInv => PrevM4Replayable
  BY DEF IInv, RestOK
<1> QED
  BY <1>1, InvariantHolds, PTL

-----------------------------------------------------------------------------
(* How votes change.                                                       *)

\* A step that takes the bundles of a slot from the old list, or has new IDs.
KeepsVotes(s) ==
  \A j \in DOMAIN m'[s] : \/ \E k \in DOMAIN m[s] : m'[s][j] = m[s][k]
                          \/ \A k \in DOMAIN m[s] : m[s][k].id # m'[s][j].id

LEMMA KeptVotes ==
  ASSUME NEW s, Unique(m[s]), KeepsVotes(s)
  PROVE  ~VoteChanges(s)
BY DEF Unique, KeepsVotes, VoteChanges

\* An M3, an M6 and the expiry change no votes.
LEMMA OtherStepsKeepVotes ==
  ASSUME IInv, handleM3 \/ handleM6 \/ delExpired, NEW s \in DOMAIN m
  PROVE  KeepsVotes(s)
<1>1. CASE m'[s] = m[s]
  BY <1>1 DEF KeepsVotes
<1>2. CASE handleM3 /\ m'[s] # m[s]
  <2> DEFINE bs == Append(m[s], Proposal)
  <2>1. /\ s = Head(todo).slot
        /\ IndexesOf(s, Head(todo).id) = {}
        /\ m'[s] = SortChrono(bs, DOMAIN bs)
    BY <1>2 DEF handleM3, SetBundles, Bundles, Proposal
  <2>2. Bundles(s) = m[s] /\ m[s] \in Seq(Bundle)
    BY DEF Bundles, IInv, ListsOK, Good
  <2>3. Proposal \in Bundle /\ Good(bs)
    BY <1>2, <2>1, <2>2, ProposalGood DEF handleM3
  <2>4. \A j \in DOMAIN m'[s] : \E k \in DOMAIN bs : m'[s][j] = bs[k]
    <3> HIDE DEF bs
    <3> QED
      BY <2>1, <2>3, SelectionKeeps DEF Good
  <2>5. \A k \in DOMAIN bs : (k \in DOMAIN m[s] /\ bs[k] = m[s][k]) \/ bs[k] = Proposal
    <3>1. Len(m[s]) \in Nat /\ DOMAIN m[s] = 1..Len(m[s])
      BY <2>2, LenProperties
    <3>2. /\ bs \in Seq(Bundle) /\ Len(bs) = Len(m[s]) + 1
          /\ \A k \in 1..Len(m[s]) : bs[k] = m[s][k]
          /\ bs[Len(m[s]) + 1] = Proposal
      BY <2>2, <2>3, AppendProperties
    <3>3. DOMAIN bs = 1..(Len(m[s]) + 1)
      BY <3>2, LenProperties
    <3> QED
      BY <3>1, <3>2, <3>3
  <2>6. \A k \in DOMAIN m[s] : m[s][k].id # Proposal.id
    BY <2>1, <2>2 DEF IndexesOf, Proposal
  <2> HIDE DEF bs
  <2> QED
    BY <2>4, <2>5, <2>6 DEF KeepsVotes
<1>3. CASE handleM6 /\ m'[s] # m[s]
  <2>1. PICK i : m'[s] = SortChrono(m[s], DOMAIN m[s] \ {i})
    BY <1>3 DEF handleM6, SetBundles, Bundles
  <2> QED
    BY <2>1, SelectionKeeps DEF KeepsVotes, IInv, ListsOK, Good
<1>4. CASE delExpired
  <2>1. m'[s] = SortChrono(m[s], Fresh(m[s])) /\ Fresh(m[s]) \in SUBSET DOMAIN m[s]
    BY <1>4 DEF delExpired, Fresh
  <2> QED
    BY <2>1, SelectionKeeps DEF KeepsVotes, IInv, ListsOK, Good
<1> QED
  BY <1>1, <1>2, <1>3, <1>4

\* Under a vote one bundle of the slot gains, if any, and the others lose.
LEMMA VotesMoveTogether ==
  ASSUME IInv, handleM4Votes \/ handleM4Leading, NEW s \in DOMAIN m
  PROVE  KeepsVotes(s) \/ MoveTogether(s)
<1>1. PICK want : m'[s] \in {m[s], upvote(want, m[s]), downvoteAll(m[s])}
  BY VotesCast
<1>2. CASE m'[s] = m[s]
  BY <1>2 DEF KeepsVotes
<1>3. CASE m'[s] = downvoteAll(m[s])
  BY <1>3 DEF downvoteAll, MoveTogether, AllDown
<1>4. CASE m'[s] = upvote(want, m[s])
  <2>1. /\ DOMAIN m'[s] = DOMAIN m[s]
        /\ \A i \in DOMAIN m[s] :
             m'[s][i] = IF i = want + 1 THEN Upvoted(m[s][i]) ELSE Downvoted(m[s][i])
    BY <1>4 DEF upvote
  <2>2. CASE want + 1 \in DOMAIN m[s]
    BY <2>1, <2>2 DEF MoveTogether, AllDown
  <2>3. CASE want + 1 \notin DOMAIN m[s]
    BY <2>1, <2>3 DEF MoveTogether, AllDown
  <2> QED
    BY <2>2, <2>3
<1> QED
  BY <1>1, <1>2, <1>3, <1>4

\* The votes of one slot change together, for every vector, list and width, in
\* blocks that are accepted and in those that are rejected (d2.go:131-218).
THEOREM VotesTogetherHolds == Spec => VotesTogether
<1>1. IInv /\ [Next]_vars => [\A s \in DOMAIN m : VoteChanges(s) => MoveTogether(s)]_vars
  <2> SUFFICES ASSUME IInv, Next, NEW s \in DOMAIN m
               PROVE  ~VoteChanges(s) \/ MoveTogether(s)
    OBVIOUS
  <2>1. Unique(m[s])
    BY DEF IInv, ListsOK, Good
  <2>2. CASE m' = m
    BY <2>1, <2>2, KeptVotes DEF KeepsVotes
  <2>3. CASE handleM3 \/ handleM6 \/ delExpired
    BY <2>1, <2>3, KeptVotes, OtherStepsKeepVotes
  <2>4. CASE handleM4Votes \/ handleM4Leading
    BY <2>1, <2>4, KeptVotes, VotesMoveTogether
  <2> QED
    BY <2>2, <2>3, <2>4 DEF Next, NextBlock, HandleMsgs, Handling, handleM4Repeat,
                            handleM4Unknown, handleOther
<1> QED
  BY <1>1, InvariantHolds, PTL DEF Spec, VotesTogether
=============================================================================
