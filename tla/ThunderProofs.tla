---------------------------- MODULE ThunderProofs ----------------------------
(***************************************************************************)
(* Theorems about scan of src/thunder/scan.go (module ThunderScan), for    *)
(* any set of hashes, whatever the node connects meanwhile.                *)
(***************************************************************************)
EXTENDS ThunderScan, Induction, SequenceTheorems

-----------------------------------------------------------------------------
(* The inductive invariant of scan.                                        *)

Reading == {"header", "body"}

Failures == {"noBody", "duplicateGenesis", "panicked"}

ParentHashes == Hashes \cup {None}

\* The node has the parents of its headers, and no block descends from itself.
NodeInv ==
  /\ DOMAIN headers \subseteq Hashes
  /\ headers \in [DOMAIN headers -> DOMAIN headers \cup {None}]
  /\ \E age \in [DOMAIN headers -> Nat] :
       \A h \in DOMAIN headers : headers[h] # None => age[headers[h]] < age[h]

\* What was read of the database is in the node's for ever.
BlocksRead == [Hash : DOMAIN headers, PrevSideHash : ParentHashes]

ListsInv ==
  /\ keys \in Seq(DOMAIN headers)
  /\ unsorted \in Seq(BlocksRead)
  /\ blocks \in Seq(BlocksRead)
  /\ header \in ParentHashes

PhaseInv ==
  /\ pc \in {"scan", "grow", "done"} \cup Reading \cup Failures
  /\ pc = "body" => keys # <<>>
  /\ pc = "scan" => keys = <<>> /\ unsorted = <<>>
  /\ pc \in {"scan"} \cup Reading => blocks = <<>>
  /\ pc \in {"grow", "done"} => keys = <<>> /\ blocks # <<>>
  /\ pc = "done" => unsorted = <<>>

\* No block is read twice.
DistinctInv ==
  /\ \A i, j \in DOMAIN keys : keys[i] = keys[j] => i = j
  /\ \A i, j \in DOMAIN unsorted : unsorted[i].Hash = unsorted[j].Hash => i = j
  /\ \A i \in DOMAIN unsorted, j \in DOMAIN keys : unsorted[i].Hash # keys[j]
  /\ \A i \in DOMAIN unsorted, j \in DOMAIN blocks : unsorted[i].Hash # blocks[j].Hash
  /\ \A i, j \in DOMAIN blocks : blocks[i].Hash = blocks[j].Hash => i = j

ReadHashes ==
  {keys[i] : i \in DOMAIN keys} \cup {b.Hash : b \in Read}

\* The keys of one transaction hold the parents of their blocks, and none of
\* them is lost.
ClosedInv ==
  pc # "scan" => /\ ReadHashes = found
                 /\ \A h \in ReadHashes : headers[h] \in ReadHashes \cup {None}

\* A parent that was read is the node's.
TrueInv ==
  /\ \A b \in Read : b.PrevSideHash = headers[b.Hash]
  /\ pc = "body" => header = headers[Head(keys)]

ChainInv ==
  /\ blocks # <<>> => blocks[1].PrevSideHash = None
  /\ \A i \in 2..Len(blocks) : blocks[i].PrevSideHash = blocks[i - 1].Hash

ScanInv ==
  /\ NodeInv /\ ListsInv /\ PhaseInv /\ DistinctInv
  /\ ClosedInv /\ TrueInv /\ ChainInv
  /\ FailsForAReason

-----------------------------------------------------------------------------
LEMMA NoneIsNoHash == None \notin Hashes
BY HashesAssumption DEF None

\* The elements that are left when one is removed (slices.Delete).
LEMMA RemoveAtLeaves ==
  ASSUME NEW T, NEW s \in Seq(T), NEW i \in 1..Len(s)
  PROVE  /\ RemoveAt(s, i) \in Seq(T)
         /\ Len(RemoveAt(s, i)) = Len(s) - 1
         /\ \A j \in 1..(Len(s) - 1) : RemoveAt(s, i)[j] = IF j < i THEN s[j] ELSE s[j + 1]
<1> DEFINE before == SubSeq(s, 1, i - 1)
           after == SubSeq(s, i + 1, Len(s))
<1>1. before \in Seq(T) /\ Len(before) = i - 1 /\ \A j \in 1..(i - 1) : before[j] = s[j]
  OBVIOUS
<1>2. /\ after \in Seq(T) /\ Len(after) = Len(s) - i
      /\ \A j \in 1..(Len(s) - i) : after[j] = s[i + j]
  OBVIOUS
<1>3. RemoveAt(s, i) = before \o after
  BY DEF RemoveAt
<1> HIDE DEF before, after
<1>4. /\ before \o after \in Seq(T) /\ Len(before \o after) = Len(s) - 1
      /\ \A j \in 1..(Len(s) - 1) : (before \o after)[j] =
           IF j <= i - 1 THEN before[j] ELSE after[j - (i - 1)]
  <2>1. Len(s) \in Nat /\ i \in 1..Len(s)
    OBVIOUS
  <2>2. Len(before) + Len(after) = Len(s) - 1
    BY <1>1, <1>2, <2>1
  <2>3. /\ before \o after \in Seq(T) /\ Len(before \o after) = Len(before) + Len(after)
        /\ \A j \in 1..(Len(before) + Len(after)) : (before \o after)[j] =
             IF j <= Len(before) THEN before[j] ELSE after[j - Len(before)]
    BY <1>1, <1>2, ConcatProperties
  <2> QED
    BY <1>1, <2>2, <2>3
<1>5. ASSUME NEW j \in 1..(Len(s) - 1)
      PROVE  (before \o after)[j] = IF j < i THEN s[j] ELSE s[j + 1]
  <2>1. CASE j < i
    BY <1>1, <1>4, <2>1
  <2>2. CASE ~ (j < i)
    <3>1. j - (i - 1) \in 1..(Len(s) - i) /\ i + (j - (i - 1)) = j + 1
      BY <2>2
    <3> QED
      BY <1>2, <1>4, <2>2, <3>1
  <2> QED
    BY <2>1, <2>2
<1> QED
  BY <1>3, <1>4, <1>5

Skip(i, j) == IF j < i THEN j ELSE j + 1

\* Take moves a block from the end of one list to the end of the other.
LEMMA TakeMoves ==
  ASSUME ListsInv, NEW i \in DOMAIN unsorted, Take(i)
  PROVE  /\ blocks' \in Seq(BlocksRead)
         /\ Len(blocks') = Len(blocks) + 1
         /\ \A j \in 1..Len(blocks) : blocks'[j] = blocks[j]
         /\ blocks'[Len(blocks) + 1] = unsorted[i]
         /\ unsorted' \in Seq(BlocksRead)
         /\ DOMAIN unsorted' = 1..(Len(unsorted) - 1)
         /\ \A j \in DOMAIN unsorted' :
              /\ Skip(i, j) \in DOMAIN unsorted /\ Skip(i, j) # i
              /\ unsorted'[j] = unsorted[Skip(i, j)]
         /\ \A j \in DOMAIN unsorted : j # i => \E k \in DOMAIN unsorted' : j = Skip(i, k)
<1>1. unsorted \in Seq(BlocksRead) /\ blocks \in Seq(BlocksRead)
  BY DEF ListsInv
<1>2. DOMAIN unsorted = 1..Len(unsorted) /\ unsorted[i] \in BlocksRead
  BY <1>1
<1>3. blocks' = Append(blocks, unsorted[i]) /\ unsorted' = RemoveAt(unsorted, i)
  BY DEF Take
<1>4. /\ blocks' \in Seq(BlocksRead) /\ Len(blocks') = Len(blocks) + 1
      /\ \A j \in 1..Len(blocks) : blocks'[j] = blocks[j]
      /\ blocks'[Len(blocks) + 1] = unsorted[i]
  BY <1>1, <1>2, <1>3
<1>5. /\ unsorted' \in Seq(BlocksRead) /\ Len(unsorted') = Len(unsorted) - 1
      /\ \A j \in 1..(Len(unsorted) - 1) :
           unsorted'[j] = IF j < i THEN unsorted[j] ELSE unsorted[j + 1]
  BY <1>1, <1>2, <1>3, RemoveAtLeaves
<1>6. DOMAIN unsorted' = 1..(Len(unsorted) - 1)
  BY <1>5
<1>7. Len(unsorted) \in Nat
  BY <1>1
<1>8. ASSUME NEW j \in DOMAIN unsorted'
      PROVE  /\ Skip(i, j) \in DOMAIN unsorted /\ Skip(i, j) # i
             /\ unsorted'[j] = unsorted[Skip(i, j)]
  BY <1>2, <1>5, <1>6, <1>7 DEF Skip
<1>9. ASSUME NEW j \in DOMAIN unsorted, j # i
      PROVE  \E k \in DOMAIN unsorted' : j = Skip(i, k)
  <2>1. CASE j < i
    BY <1>2, <1>6, <1>7, <2>1 DEF Skip
  <2>2. CASE j > i
    <3>1. j - 1 \in DOMAIN unsorted' /\ Skip(i, j - 1) = j
      BY <1>2, <1>6, <1>7, <2>2 DEF Skip
    <3> QED
      BY <3>1
  <2> QED
    BY <1>2, <1>9, <2>1, <2>2
<1> QED
  BY <1>4, <1>5, <1>6, <1>8, <1>9

\* So that no block is lost, none is read anew, and none is in both lists.
LEMMA TakeKeeps ==
  ASSUME ListsInv, DistinctInv, NEW i \in DOMAIN unsorted, Take(i), UNCHANGED <<keys, headers>>
  PROVE  Read' = Read /\ ReadHashes' = ReadHashes /\ DistinctInv'
<1> DEFINE n == Len(blocks)
<1>1. /\ blocks' \in Seq(BlocksRead) /\ Len(blocks') = n + 1
      /\ \A j \in 1..n : blocks'[j] = blocks[j]
      /\ blocks'[n + 1] = unsorted[i]
      /\ \A j \in DOMAIN unsorted' :
           /\ Skip(i, j) \in DOMAIN unsorted /\ Skip(i, j) # i
           /\ unsorted'[j] = unsorted[Skip(i, j)]
      /\ \A j \in DOMAIN unsorted : j # i => \E k \in DOMAIN unsorted' : j = Skip(i, k)
      /\ DOMAIN unsorted' \subseteq Nat
  BY TakeMoves
<1>2. n \in Nat /\ DOMAIN blocks = 1..n /\ DOMAIN blocks' = 1..(n + 1)
  BY <1>1 DEF ListsInv
<1>3. Read' \subseteq Read
  <2>1. ASSUME NEW j \in DOMAIN blocks'
        PROVE  blocks'[j] \in Read
    BY <1>1, <1>2 DEF Read
  <2>2. ASSUME NEW j \in DOMAIN unsorted'
        PROVE  unsorted'[j] \in Read
    BY <1>1 DEF Read
  <2> QED
    BY <2>1, <2>2 DEF Read
<1>4. Read \subseteq Read'
  <2>1. ASSUME NEW j \in DOMAIN blocks
        PROVE  blocks[j] \in Read'
    <3>1. j \in DOMAIN blocks' /\ blocks'[j] = blocks[j]
      BY <1>1, <1>2
    <3> QED
      BY <3>1 DEF Read
  <2>2. ASSUME NEW j \in DOMAIN unsorted
        PROVE  unsorted[j] \in Read'
    <3>1. CASE j = i
      <4>1. n + 1 \in DOMAIN blocks' /\ blocks'[n + 1] = unsorted[j]
        BY <1>1, <1>2, <3>1
      <4> QED
        BY <4>1 DEF Read
    <3>2. CASE j # i
      <4>1. PICK k \in DOMAIN unsorted' : j = Skip(i, k)
        BY <1>1, <3>2
      <4>2. unsorted'[k] = unsorted[j]
        BY <1>1, <4>1
      <4> QED
        BY <4>2 DEF Read
    <3> QED
      BY <3>1, <3>2
  <2> QED
    BY <2>1, <2>2 DEF Read
<1>5. Read' = Read
  BY <1>3, <1>4
<1>6. DistinctInv'
  <2>1. ASSUME NEW j \in DOMAIN unsorted', NEW k \in DOMAIN unsorted',
               unsorted'[j].Hash = unsorted'[k].Hash
        PROVE  j = k
    <3>1. Skip(i, j) = Skip(i, k)
      BY <1>1, <2>1 DEF DistinctInv
    <3>2. j \in Nat /\ k \in Nat /\ i \in Nat
      BY <1>1 DEF ListsInv
    <3> QED
      BY <3>1, <3>2 DEF Skip
  <2>2. ASSUME NEW j \in DOMAIN unsorted', NEW k \in DOMAIN keys'
        PROVE  unsorted'[j].Hash # keys'[k]
    BY <1>1 DEF DistinctInv
  <2>3. ASSUME NEW j \in DOMAIN unsorted', NEW k \in DOMAIN blocks'
        PROVE  unsorted'[j].Hash # blocks'[k].Hash
    <3>1. CASE k = n + 1
      BY <1>1, <3>1 DEF DistinctInv
    <3>2. CASE k \in 1..n
      BY <1>1, <1>2, <3>2 DEF DistinctInv
    <3> QED
      BY <1>2, <3>1, <3>2
  <2>4. \A j, k \in DOMAIN keys' : keys'[j] = keys'[k] => j = k
    BY DEF DistinctInv
  <2>5. ASSUME NEW j \in DOMAIN blocks', NEW k \in DOMAIN blocks',
               blocks'[j].Hash = blocks'[k].Hash
        PROVE  j = k
    <3>1. \A l \in 1..n : blocks'[l] = blocks[l] /\ blocks[l].Hash # unsorted[i].Hash
      BY <1>1, <1>2 DEF DistinctInv
    <3>2. CASE j \in 1..n /\ k \in 1..n
      BY <1>2, <2>5, <3>1, <3>2 DEF DistinctInv
    <3>3. CASE j = n + 1 \/ k = n + 1
      BY <1>1, <1>2, <2>5, <3>1, <3>3
    <3> QED
      BY <1>2, <3>2, <3>3
  <2> QED
    BY <2>1, <2>2, <2>3, <2>4, <2>5 DEF DistinctInv
<1> QED
  BY <1>5, <1>6 DEF ReadHashes

-----------------------------------------------------------------------------
(* Every step keeps the invariant.                                         *)

LEMMA InitScanInv ==
  ASSUME Init
  PROVE  ScanInv
<1>1. /\ headers \in [DOMAIN headers -> ParentHashes] /\ DOMAIN headers \subseteq Hashes
      /\ \A h \in DOMAIN headers : headers[h] \in DOMAIN headers \cup {None}
  BY DEF Init, ParentHashes
<1>2. PICK age \in [Hashes -> 0..Cardinality(Hashes)] :
        \A h \in DOMAIN headers : headers[h] # None => age[headers[h]] < age[h]
  BY DEF Init
<1>3. NodeInv
  <2> DEFINE years == [h \in DOMAIN headers |-> age[h]]
  <2>1. years \in [DOMAIN headers -> Nat]
    BY <1>1
  <2>2. \A h \in DOMAIN headers : headers[h] # None => years[headers[h]] < years[h]
    BY <1>1, <1>2
  <2>3. headers \in [DOMAIN headers -> DOMAIN headers \cup {None}]
    BY <1>1
  <2> QED
    BY <1>1, <2>1, <2>2, <2>3 DEF NodeInv
<1>4. keys = <<>> /\ unsorted = <<>> /\ blocks = <<>> /\ header = None /\ pc = "scan"
  BY DEF Init
<1>5. ListsInv
  <2>1. keys \in Seq(DOMAIN headers) /\ unsorted \in Seq(BlocksRead) /\ blocks \in Seq(BlocksRead)
    BY <1>4
  <2>2. header \in ParentHashes
    BY <1>4 DEF ParentHashes
  <2> QED
    BY <2>1, <2>2 DEF ListsInv
<1>6. PhaseInv /\ ClosedInv /\ DistinctInv
  BY <1>4 DEF PhaseInv, ClosedInv, DistinctInv
<1>7. TrueInv /\ ChainInv /\ FailsForAReason
  <2>1. Read = {}
    BY <1>4 DEF Read
  <2> QED
    BY <1>4, <2>1 DEF TrueInv, ChainInv, FailsForAReason
<1> QED
  BY <1>3, <1>5, <1>6, <1>7 DEF ScanInv

\* What the node does never changes a header, so that nothing that was read
\* becomes stale.
LEMMA NodeStep ==
  ASSUME ScanInv, Connect \/ StoreBody
  PROVE  ScanInv'
<1>1. UNCHANGED <<keys, header, found, unsorted, blocks, pc>> /\ pc \notin Failures
  BY DEF Connect, StoreBody, reading, ordering, Seen, Failures
<1>2. NodeInv
  BY DEF ScanInv
<1>3. /\ NodeInv'
      /\ DOMAIN headers \subseteq DOMAIN headers'
      /\ \A h \in DOMAIN headers : headers'[h] = headers[h]
  <2>1. CASE Connect
    <3>1. PICK h \in Hashes \ DOMAIN headers, prev \in DOMAIN headers \cup {None} :
            headers' = [k \in DOMAIN headers \cup {h} |-> IF k = h THEN prev ELSE headers[k]]
      BY <2>1 DEF Connect
    <3>2. PICK age \in [DOMAIN headers -> Nat] :
            \A k \in DOMAIN headers : headers[k] # None => age[headers[k]] < age[k]
      BY <1>2 DEF NodeInv
    <3>3. /\ DOMAIN headers' = DOMAIN headers \cup {h} /\ headers'[h] = prev
          /\ \A k \in DOMAIN headers : headers'[k] = headers[k] /\ k # h
      BY <3>1
    <3>4. \A k \in DOMAIN headers : headers[k] \in DOMAIN headers \cup {None}
      BY <1>2 DEF NodeInv
    <3>5. headers' \in [DOMAIN headers' -> DOMAIN headers' \cup {None}]
      BY <3>1, <3>3, <3>4
    <3> DEFINE new == IF prev = None THEN 0 ELSE age[prev] + 1
               years == [k \in DOMAIN headers' |-> IF k = h THEN new ELSE age[k]]
    <3>6. new \in Nat
      OBVIOUS
    <3>7. years \in [DOMAIN headers' -> Nat]
      BY <3>3, <3>6
    <3>8. ASSUME NEW k \in DOMAIN headers', headers'[k] # None
          PROVE  years[headers'[k]] < years[k]
      <4>1. CASE k = h
        <5>1. prev \in DOMAIN headers /\ prev # h
          BY <3>3, <3>8, <4>1
        <5>2. years[prev] = age[prev] /\ years[h] = age[prev] + 1 /\ age[prev] \in Nat
          BY <3>3, <3>8, <4>1, <5>1
        <5>3. headers'[k] = prev
          BY <3>3, <4>1
        <5> QED
          BY <4>1, <5>2, <5>3
      <4>2. CASE k # h
        <5>1. k \in DOMAIN headers /\ headers'[k] = headers[k] /\ headers[k] \in DOMAIN headers
          BY <3>3, <3>4, <3>8, <4>2
        <5>2. years[headers[k]] = age[headers[k]] /\ years[k] = age[k]
          BY <3>3, <5>1
        <5> QED
          BY <3>2, <3>8, <5>1, <5>2
      <4> QED
        BY <4>1, <4>2
    <3>9. DOMAIN headers' \subseteq Hashes
      BY <1>2, <3>3 DEF NodeInv
    <3> HIDE DEF years
    <3> QED
      BY <3>3, <3>5, <3>7, <3>8, <3>9 DEF NodeInv
  <2>2. CASE StoreBody
    <3>1. headers' = headers
      BY <2>2 DEF StoreBody
    <3> QED
      BY <1>2, <3>1 DEF NodeInv
  <2> QED
    BY <2>1, <2>2
<1>4. ListsInv
  BY DEF ScanInv
<1>5. ListsInv'
  <2>1. keys \in Seq(DOMAIN headers')
    BY <1>3, <1>4 DEF ListsInv
  <2>2. BlocksRead \subseteq BlocksRead'
    BY <1>3 DEF BlocksRead
  <2>3. unsorted \in Seq(BlocksRead') /\ blocks \in Seq(BlocksRead')
    <3> HIDE DEF BlocksRead
    <3> QED
      BY <1>4, <2>2 DEF ListsInv
  <2> QED
    BY <1>1, <1>4, <2>1, <2>3 DEF ListsInv
<1>6. \A b \in Read : b.Hash \in DOMAIN headers
  <2>1. ASSUME NEW b \in BlocksRead
        PROVE  b.Hash \in DOMAIN headers
    BY DEF BlocksRead
  <2>2. Read \subseteq BlocksRead
    BY <1>4 DEF ListsInv, Read
  <2> QED
    BY <2>1, <2>2
<1>7. \A h \in ReadHashes : headers'[h] = headers[h]
  BY <1>3, <1>4, <1>6 DEF ReadHashes, ListsInv
<1>8. Read' = Read /\ ReadHashes' = ReadHashes
  BY <1>1 DEF Read, ReadHashes
<1>9. ClosedInv'
  BY <1>1, <1>7, <1>8 DEF ClosedInv, ScanInv
<1>10. TrueInv'
  <2>1. \A b \in Read : headers'[b.Hash] = headers[b.Hash]
    BY <1>3, <1>6
  <2>2. pc = "body" => headers'[Head(keys)] = headers[Head(keys)]
    BY <1>3, <1>4 DEF ScanInv, PhaseInv, ListsInv
  <2> QED
    BY <1>1, <1>8, <2>1, <2>2 DEF TrueInv, ScanInv
<1>11. PhaseInv' /\ DistinctInv' /\ ChainInv'
  BY <1>1 DEF ScanInv, PhaseInv, DistinctInv, ChainInv, Reading, Failures
<1>12. FailsForAReason'
  BY <1>1 DEF FailsForAReason, Failures
<1> QED
  BY <1>3, <1>5, <1>9, <1>10, <1>11, <1>12 DEF ScanInv

\* ScanDB returns every key of its transaction, each of them once.
LEMMA ScanDBStep ==
  ASSUME ScanInv, ScanDB
  PROVE  ScanInv'
<1>1. PICK s \in [1..Cardinality(DOMAIN headers) -> DOMAIN headers] :
        /\ \A i, j \in DOMAIN s : i < j => s[i] < s[j]
        /\ keys' = s
  BY DEF ScanDB
<1>2. /\ pc = "scan" /\ pc' = "header" /\ UNCHANGED <<headers, header, unsorted, blocks>>
      /\ found' = DOMAIN headers
  BY DEF ScanDB, node, ordering
<1>3. DOMAIN headers \subseteq Hashes /\ DOMAIN headers \subseteq Nat /\ IsFiniteSet(DOMAIN headers)
  BY HashesAssumption, FS_Subset DEF ScanInv, NodeInv
<1>4. Cardinality(DOMAIN headers) \in Nat
  BY <1>3, FS_CardinalityType
<1>5. s \in Seq(DOMAIN headers) /\ DOMAIN s = 1..Cardinality(DOMAIN headers)
  BY <1>4
<1>6. \A i, j \in DOMAIN s : s[i] = s[j] => i = j
  <2> SUFFICES ASSUME NEW i \in DOMAIN s, NEW j \in DOMAIN s, i # j
               PROVE  s[i] # s[j]
    OBVIOUS
  <2>1. i < j \/ j < i
    BY <1>4, <1>5
  <2>2. s[i] \in Nat /\ s[j] \in Nat
    BY <1>3
  <2> QED
    BY <1>1, <2>1, <2>2
<1>7. {s[i] : i \in DOMAIN s} = DOMAIN headers
  <2>1. s \in Injection(1..Cardinality(DOMAIN headers), DOMAIN headers)
    BY <1>5, <1>6 DEF Injection, IsInjective
  <2>2. Cardinality(1..Cardinality(DOMAIN headers)) = Cardinality(DOMAIN headers)
    BY <1>4, FS_Interval
  <2>3. s \in Surjection(1..Cardinality(DOMAIN headers), DOMAIN headers)
    BY <1>3, <2>1, <2>2, FS_Injection
  <2> QED
    BY <1>5, <2>3 DEF Surjection
<1>8. unsorted = <<>> /\ blocks = <<>>
  BY <1>2 DEF ScanInv, PhaseInv
<1>9. NodeInv'
  BY <1>2 DEF ScanInv, NodeInv
<1>10. ListsInv'
  BY <1>1, <1>2, <1>5 DEF ScanInv, ListsInv, BlocksRead
<1>11. PhaseInv'
  BY <1>2, <1>8 DEF PhaseInv, Reading
<1>12. DistinctInv'
  BY <1>1, <1>2, <1>6, <1>8 DEF DistinctInv
<1>13. ClosedInv'
  <2>1. DOMAIN headers \subseteq ReadHashes'
    BY <1>1, <1>7 DEF ReadHashes
  <2>2. ReadHashes' \subseteq DOMAIN headers
    BY <1>1, <1>2, <1>5, <1>8 DEF ReadHashes, Read
  <2>3. \A h \in DOMAIN headers : headers[h] \in DOMAIN headers \cup {None}
    BY DEF ScanInv, NodeInv
  <2> QED
    BY <1>2, <2>1, <2>2, <2>3 DEF ClosedInv
<1>14. TrueInv' /\ ChainInv' /\ FailsForAReason'
  <2>1. Read' = {}
    BY <1>2, <1>8 DEF Read
  <2> QED
    BY <1>2, <1>8, <2>1 DEF TrueInv, ChainInv, FailsForAReason
<1> QED
  BY <1>9, <1>10, <1>11, <1>12, <1>13, <1>14 DEF ScanInv

\* The header that is read is the node's.
LEMMA HeaderStep ==
  ASSUME ScanInv, getBlockHeader
  PROVE  ScanInv'
<1>1. /\ pc = "header" /\ pc' = "body" /\ keys # <<>> /\ header' = headers[Head(keys)]
      /\ UNCHANGED <<headers, keys, found, unsorted, blocks>>
  BY DEF getBlockHeader, node, ordering
<1>2. header' \in ParentHashes
  <2>1. Head(keys) \in DOMAIN headers
    BY <1>1 DEF ScanInv, ListsInv
  <2> QED
    BY <1>1, <2>1 DEF ScanInv, NodeInv, ParentHashes
<1>3. Read' = Read /\ ReadHashes' = ReadHashes
  BY <1>1 DEF Read, ReadHashes
<1>4. NodeInv' /\ ListsInv' /\ DistinctInv' /\ ChainInv'
  BY <1>1, <1>2 DEF ScanInv, NodeInv, ListsInv, BlocksRead, DistinctInv, ChainInv
<1>5. PhaseInv' /\ ClosedInv' /\ TrueInv' /\ FailsForAReason'
  BY <1>1, <1>3 DEF ScanInv, PhaseInv, Reading, ClosedInv, TrueInv, FailsForAReason
<1> QED
  BY <1>4, <1>5 DEF ScanInv

\* The block of the first key that is left.
LEMMA BodyStep ==
  ASSUME ScanInv, getBlockBody
  PROVE  ScanInv'
<1>1. pc = "body" /\ UNCHANGED <<headers, found, blocks>>
  BY DEF getBlockBody, node
<1>2. CASE pc' = "noBody" /\ UNCHANGED <<keys, header, unsorted>>
  <2>1. Read' = Read /\ ReadHashes' = ReadHashes
    BY <1>1, <1>2 DEF Read, ReadHashes
  <2>2. NodeInv' /\ ListsInv' /\ DistinctInv' /\ ChainInv'
    BY <1>1, <1>2 DEF ScanInv, NodeInv, ListsInv, BlocksRead, DistinctInv, ChainInv
  <2>3. PhaseInv' /\ ClosedInv' /\ TrueInv' /\ FailsForAReason'
    BY <1>1, <1>2, <2>1 DEF ScanInv, PhaseInv, Reading, Failures, ClosedInv, TrueInv, FailsForAReason
  <2> QED
    BY <2>2, <2>3 DEF ScanInv
<1>3. CASE /\ unsorted' = Append(unsorted, Block(Head(keys), header))
           /\ keys' = Tail(keys)
           /\ header' = None
           /\ pc' = "header"
  <2> DEFINE k == Head(keys)
             b == Block(k, header)
             n == Len(unsorted)
  <2>1. /\ keys \in Seq(DOMAIN headers) /\ unsorted \in Seq(BlocksRead)
        /\ header \in ParentHashes
    BY DEF ScanInv, ListsInv
  <2>2. keys # <<>> /\ blocks = <<>>
    BY <1>1 DEF ScanInv, PhaseInv, Reading
  <2>3. /\ 1 \in DOMAIN keys /\ k = keys[1] /\ k \in DOMAIN headers
        /\ Tail(keys) \in Seq(DOMAIN headers)
        /\ \A i \in DOMAIN Tail(keys) :
             i + 1 \in DOMAIN keys /\ i + 1 # 1 /\ Tail(keys)[i] = keys[i + 1] /\ i \in Nat
        /\ \A i \in DOMAIN keys : i # 1 => i - 1 \in DOMAIN Tail(keys) /\ Tail(keys)[i - 1] = keys[i]
    BY <2>1, <2>2
  <2>4. b \in BlocksRead /\ b.Hash = k /\ b.PrevSideHash = header
    BY <2>1, <2>3 DEF Block, BlocksRead
  <2>5. /\ unsorted' \in Seq(BlocksRead) /\ DOMAIN unsorted' = 1..(n + 1) /\ n \in Nat
        /\ DOMAIN unsorted = 1..n /\ unsorted'[n + 1] = b
        /\ \A i \in 1..n : unsorted'[i] = unsorted[i]
    <3> HIDE DEF b
    <3> QED
      BY <1>3, <2>1, <2>4 DEF b
  <2> HIDE DEF b, k
  <2>6. Read' = Read \cup {b}
    <3>1. {unsorted'[i] : i \in DOMAIN unsorted'} = {unsorted[i] : i \in DOMAIN unsorted} \cup {b}
      BY <2>5
    <3> QED
      BY <1>1, <3>1 DEF Read
  <2>7. {keys[i] : i \in DOMAIN keys} = {keys'[i] : i \in DOMAIN keys'} \cup {k}
    <3>1. ASSUME NEW i \in DOMAIN keys
          PROVE  keys[i] \in {keys'[j] : j \in DOMAIN keys'} \cup {k}
      <4>1. CASE i = 1
        BY <2>3, <4>1
      <4>2. CASE i # 1
        BY <1>3, <2>3, <4>2
      <4> QED
        BY <4>1, <4>2
    <3>2. ASSUME NEW i \in DOMAIN keys'
          PROVE  keys'[i] \in {keys[j] : j \in DOMAIN keys}
      BY <1>3, <2>3
    <3>3. k \in {keys[j] : j \in DOMAIN keys}
      BY <2>3
    <3> QED
      BY <3>1, <3>2, <3>3
  <2>8. ReadHashes' = ReadHashes
    BY <2>4, <2>6, <2>7 DEF ReadHashes
  <2>9. NodeInv' /\ ChainInv'
    BY <1>1 DEF ScanInv, NodeInv, ChainInv
  <2>10. ListsInv'
    <3>1. BlocksRead' = BlocksRead
      BY <1>1 DEF BlocksRead
    <3> QED
      BY <1>1, <1>3, <2>3, <2>5, <3>1 DEF ScanInv, ListsInv, ParentHashes
  <2>11. PhaseInv'
    BY <1>1, <1>3, <2>2 DEF PhaseInv, Reading
  <2>12. DistinctInv'
    <3>1. ASSUME NEW i \in DOMAIN keys', NEW j \in DOMAIN keys', keys'[i] = keys'[j]
          PROVE  i = j
      <4>1. i + 1 = j + 1 /\ i \in Nat /\ j \in Nat
        BY <1>3, <2>3, <3>1 DEF ScanInv, DistinctInv
      <4> QED
        BY <4>1
    <3>2. \A i \in 1..n : unsorted[i].Hash # k
      BY <2>3, <2>5 DEF ScanInv, DistinctInv
    <3>3. ASSUME NEW i \in DOMAIN unsorted', NEW j \in DOMAIN unsorted',
                 unsorted'[i].Hash = unsorted'[j].Hash
          PROVE  i = j
      <4>1. CASE i = n + 1 \/ j = n + 1
        BY <2>4, <2>5, <3>2, <3>3, <4>1
      <4>2. CASE i \in 1..n /\ j \in 1..n
        BY <2>5, <3>3, <4>2 DEF ScanInv, DistinctInv
      <4> QED
        BY <2>5, <4>1, <4>2
    <3>4. ASSUME NEW i \in DOMAIN unsorted', NEW j \in DOMAIN keys'
          PROVE  unsorted'[i].Hash # keys'[j]
      <4>1. j + 1 \in DOMAIN keys /\ j + 1 # 1 /\ keys'[j] = keys[j + 1]
        BY <1>3, <2>3
      <4>2. CASE i = n + 1
        BY <2>3, <2>4, <2>5, <4>1, <4>2 DEF ScanInv, DistinctInv
      <4>3. CASE i \in 1..n
        BY <2>5, <4>1, <4>3 DEF ScanInv, DistinctInv
      <4> QED
        BY <2>5, <4>2, <4>3
    <3>5. DOMAIN blocks' = {}
      BY <1>1, <2>2
    <3> QED
      BY <3>1, <3>3, <3>4, <3>5 DEF DistinctInv
  <2>13. ClosedInv' /\ FailsForAReason'
    BY <1>1, <1>3, <2>8 DEF ScanInv, ClosedInv, FailsForAReason
  <2>14. TrueInv'
    <3>1. b.PrevSideHash = headers[b.Hash]
      BY <1>1, <2>4 DEF ScanInv, TrueInv, k
    <3> QED
      BY <1>1, <1>3, <2>6, <3>1 DEF ScanInv, TrueInv
  <2> QED
    BY <2>9, <2>10, <2>11, <2>12, <2>13, <2>14 DEF ScanInv
<1> QED
  BY <1>2, <1>3 DEF getBlockBody

\* A set that is not empty and has no single element has two.
LEMMA TwoElements ==
  ASSUME NEW S, IsFiniteSet(S), S # {}, Cardinality(S) # 1
  PROVE  \E i, j \in S : i # j
<1>1. PICK i \in S : TRUE
  OBVIOUS
<1>2. S # {i}
  BY FS_Singleton
<1> QED
  BY <1>1, <1>2

\* The first ancestor, among the blocks of a set, of one that is in it.
LEMMA EldestOf ==
  ASSUME NodeInv, NEW H \in SUBSET (DOMAIN headers), H # {}
  PROVE  \E h \in H : headers[h] \notin H
<1>1. PICK age \in [DOMAIN headers -> Nat] :
        \A h \in DOMAIN headers : headers[h] # None => age[headers[h]] < age[h]
  BY DEF NodeInv
<1> DEFINE ages == {age[h] : h \in H}
<1>2. ages \in SUBSET Nat /\ ages # {}
  OBVIOUS
<1>3. PICK m \in ages : \A n \in ages : m <= n
  <2> HIDE DEF ages
  <2> QED
    BY <1>2, LeastOfSet
<1>4. PICK h \in H : m = age[h]
  BY <1>3
<1>5. headers[h] \notin H
  <2> SUFFICES ASSUME headers[h] \in H
               PROVE  FALSE
    OBVIOUS
  <2>1. headers[h] # None /\ h \in DOMAIN headers
    BY NoneIsNoHash DEF NodeInv
  <2>2. age[headers[h]] < age[h] /\ age[h] \in Nat /\ age[headers[h]] \in Nat
    BY <1>1, <2>1
  <2>3. m <= age[headers[h]]
    BY <1>3
  <2> QED
    BY <1>4, <2>2, <2>3
<1> QED
  BY <1>5

\* The first block is taken from those read; if there is none, or another, there
\* was none at all, or the chain had forked.
LEMMA GenesisStep ==
  ASSUME ScanInv, findGenesis
  PROVE  ScanInv'
<1>1. pc = "header" /\ keys = <<>> /\ UNCHANGED <<headers, keys, header, found>>
  BY DEF findGenesis, node, reading
<1>2. blocks = <<>> /\ ListsInv /\ DistinctInv
  BY <1>1 DEF ScanInv, PhaseInv, Reading
<1>3. CASE pc' = "grow" /\ \E i \in Firsts : Take(i)
  <2>1. PICK i \in DOMAIN unsorted : unsorted[i].PrevSideHash = None /\ Take(i)
    BY <1>3 DEF Firsts
  <2>2. Read' = Read /\ ReadHashes' = ReadHashes /\ DistinctInv'
    BY <1>1, <1>2, <2>1, TakeKeeps
  <2>3. /\ blocks' \in Seq(BlocksRead) /\ unsorted' \in Seq(BlocksRead)
        /\ Len(blocks') = 1 /\ blocks'[1] = unsorted[i]
    <3>1. Len(blocks) = 0
      BY <1>2
    <3> QED
      BY <1>2, <2>1, <3>1, TakeMoves
  <2>4. NodeInv' /\ ListsInv'
    BY <1>1, <2>3 DEF ScanInv, NodeInv, ListsInv, BlocksRead
  <2>5. PhaseInv'
    <3>1. blocks' # <<>>
      <4>1. ASSUME NEW s, s = <<>>
            PROVE  Len(s) # 1
        BY <4>1
      <4> QED
        BY <2>3, <4>1
    <3> QED
      BY <1>1, <1>3, <3>1 DEF PhaseInv, Reading
  <2>6. ClosedInv' /\ TrueInv' /\ FailsForAReason'
    BY <1>1, <1>3, <2>2 DEF ScanInv, ClosedInv, TrueInv, FailsForAReason
  <2>7. ChainInv'
    BY <2>1, <2>3 DEF ChainInv
  <2> QED
    BY <2>2, <2>4, <2>5, <2>6, <2>7 DEF ScanInv
<1>4. CASE /\ Cardinality(Firsts) # 1
           /\ pc' = IF Firsts = {} THEN "panicked" ELSE "duplicateGenesis"
           /\ UNCHANGED <<blocks, unsorted>>
  <2>1. Read' = Read /\ ReadHashes' = ReadHashes /\ Forked' = Forked
    BY <1>1, <1>4 DEF Read, ReadHashes, Forked
  <2>2. NodeInv' /\ ListsInv' /\ DistinctInv' /\ ChainInv'
    BY <1>1, <1>4 DEF ScanInv, NodeInv, ListsInv, BlocksRead, DistinctInv, ChainInv
  <2>3. PhaseInv' /\ ClosedInv' /\ TrueInv'
    BY <1>1, <1>4, <2>1 DEF ScanInv, PhaseInv, Reading, Failures, ClosedInv, TrueInv
  <2>4. Read = {unsorted[i] : i \in DOMAIN unsorted}
    BY <1>2 DEF Read
  <2>5. Read = {} \/ Forked
    <3>1. CASE Firsts = {}
      <4> SUFFICES ASSUME Read # {}
                   PROVE  FALSE
        OBVIOUS
      <4> DEFINE H == {b.Hash : b \in Read}
      <4>1. ReadHashes = H
        BY <1>1 DEF ReadHashes
      <4>2. H \in SUBSET (DOMAIN headers) /\ H # {}
        <5>1. ASSUME NEW b \in BlocksRead
              PROVE  b.Hash \in DOMAIN headers
          BY DEF BlocksRead
        <5>2. Read \subseteq BlocksRead
          BY <1>2, <2>4 DEF ListsInv
        <5> QED
          BY <3>1, <5>1, <5>2
      <4>3. PICK h \in H : headers[h] \notin H
        <5> HIDE DEF H
        <5> QED
          BY <4>2, EldestOf DEF ScanInv
      <4>4. headers[h] = None
        BY <1>1, <4>1, <4>3 DEF ScanInv, ClosedInv
      <4>5. PICK i \in DOMAIN unsorted : unsorted[i].Hash = h
        BY <2>4
      <4>6. unsorted[i].PrevSideHash = None
        BY <2>4, <4>4, <4>5 DEF ScanInv, TrueInv
      <4> QED
        BY <3>1, <4>6 DEF Firsts
    <3>2. CASE Firsts # {}
      <4>1. IsFiniteSet(DOMAIN unsorted)
        BY <1>2, FS_Interval DEF ListsInv
      <4>2. IsFiniteSet(Firsts)
        BY <4>1, FS_Subset DEF Firsts
      <4>3. PICK i, j \in Firsts : i # j
        BY <1>4, <3>2, <4>2, TwoElements
      <4>4. /\ i \in DOMAIN unsorted /\ j \in DOMAIN unsorted
            /\ unsorted[i].PrevSideHash = unsorted[j].PrevSideHash
            /\ unsorted[i] # unsorted[j]
        BY <1>2, <4>3 DEF Firsts, DistinctInv
      <4>5. unsorted[i] \in Read /\ unsorted[j] \in Read
        BY <2>4, <4>4
      <4> QED
        BY <4>4, <4>5 DEF Forked
    <3> QED
      BY <3>1, <3>2
  <2>6. FailsForAReason'
    BY <1>1, <2>1, <2>5 DEF FailsForAReason
  <2> QED
    BY <2>2, <2>3, <2>6 DEF ScanInv
<1> QED
  BY <1>3, <1>4 DEF findGenesis

\* The blocks after the last of the chain: if none of them is its child, the
\* eldest of them has a brother in the chain.
LEMMA GrowStep ==
  ASSUME ScanInv, grow
  PROVE  ScanInv'
<1> DEFINE n == Len(blocks)
<1>1. pc = "grow" /\ UNCHANGED <<headers, keys, header, found>>
  BY DEF grow, node, reading
<1>2. /\ keys = <<>> /\ blocks # <<>> /\ ListsInv /\ DistinctInv
      /\ blocks \in Seq(BlocksRead) /\ unsorted \in Seq(BlocksRead)
  BY <1>1 DEF ScanInv, PhaseInv, ListsInv
<1>3. n \in Nat \ {0} /\ DOMAIN blocks = 1..n /\ Last(blocks) = blocks[n]
  BY <1>2 DEF Last
<1>4. CASE pc' = pc /\ \E i \in Children : Take(i)
  <2>1. PICK i \in DOMAIN unsorted : unsorted[i].PrevSideHash = blocks[n].Hash /\ Take(i)
    BY <1>3, <1>4 DEF Children
  <2>2. Read' = Read /\ ReadHashes' = ReadHashes /\ DistinctInv'
    BY <1>1, <1>2, <2>1, TakeKeeps
  <2>3. /\ blocks' \in Seq(BlocksRead) /\ unsorted' \in Seq(BlocksRead)
        /\ Len(blocks') = n + 1 /\ blocks'[n + 1] = unsorted[i]
        /\ \A j \in 1..n : blocks'[j] = blocks[j]
    BY <1>2, <2>1, TakeMoves
  <2>4. NodeInv' /\ ListsInv'
    BY <1>1, <2>3 DEF ScanInv, NodeInv, ListsInv, BlocksRead
  <2>5. PhaseInv'
    <3>1. blocks' # <<>>
      BY <1>3, <2>3
    <3> QED
      BY <1>1, <1>2, <1>4, <3>1 DEF PhaseInv, Reading
  <2>6. ClosedInv' /\ TrueInv' /\ FailsForAReason'
    BY <1>1, <1>4, <2>2 DEF ScanInv, ClosedInv, TrueInv, FailsForAReason
  <2>7. ChainInv'
    <3>1. blocks[1].PrevSideHash = None /\ \A j \in 2..n : blocks[j].PrevSideHash = blocks[j - 1].Hash
      BY <1>2 DEF ScanInv, ChainInv
    <3>2. blocks'[1] = blocks[1]
      BY <1>3, <2>3
    <3>3. ASSUME NEW j \in 2..(n + 1)
          PROVE  blocks'[j].PrevSideHash = blocks'[j - 1].Hash
      <4>1. j - 1 \in 1..n /\ blocks'[j - 1] = blocks[j - 1]
        BY <1>3, <2>3
      <4>2. CASE j = n + 1
        BY <1>3, <2>1, <2>3, <4>1, <4>2
      <4>3. CASE j \in 2..n
        BY <1>3, <2>3, <3>1, <4>1, <4>3
      <4> QED
        BY <1>3, <4>2, <4>3
    <3> QED
      BY <2>3, <3>1, <3>2, <3>3 DEF ChainInv
  <2> QED
    BY <2>2, <2>4, <2>5, <2>6, <2>7 DEF ScanInv
<1>5. ASSUME UNCHANGED <<blocks, unsorted>>,
             \/ pc' = "done" /\ unsorted = <<>>
             \/ pc' = "panicked" /\ unsorted # <<>> /\ Children = {}
      PROVE  ScanInv'
  <2>1. Read' = Read /\ ReadHashes' = ReadHashes /\ Forked' = Forked
    BY <1>1, <1>5 DEF Read, ReadHashes, Forked
  <2>2. NodeInv' /\ ListsInv' /\ DistinctInv' /\ ChainInv'
    BY <1>1, <1>5 DEF ScanInv, NodeInv, ListsInv, BlocksRead, DistinctInv, ChainInv
  <2>3. PhaseInv' /\ ClosedInv' /\ TrueInv'
    BY <1>1, <1>5, <2>1 DEF ScanInv, PhaseInv, Reading, Failures, ClosedInv, TrueInv
  <2>4. ASSUME unsorted # <<>>, Children = {}
        PROVE  Forked
    <3> DEFINE H == {unsorted[i].Hash : i \in DOMAIN unsorted}
    <3>1. H \in SUBSET (DOMAIN headers) /\ H # {}
      <4>1. ASSUME NEW b \in BlocksRead
            PROVE  b.Hash \in DOMAIN headers
        BY DEF BlocksRead
      <4>2. 1 \in DOMAIN unsorted
        BY <1>2, <2>4
      <4> QED
        BY <1>2, <4>1, <4>2
    <3>2. PICK h \in H : headers[h] \notin H
      <4> HIDE DEF H
      <4> QED
        BY <3>1, EldestOf DEF ScanInv
    <3>3. PICK i \in DOMAIN unsorted : unsorted[i].Hash = h
      OBVIOUS
    <3>4. unsorted[i] \in Read /\ \A j \in DOMAIN blocks : blocks[j] \in Read
      BY DEF Read
    <3>5. unsorted[i].PrevSideHash = headers[h]
      BY <2>4, <3>3, <3>4 DEF ScanInv, TrueInv
    <3>6. \A j \in DOMAIN blocks : unsorted[i] # blocks[j]
      BY <1>2 DEF DistinctInv
    <3>7. \E j \in DOMAIN blocks : blocks[j].PrevSideHash = headers[h]
      <4>1. CASE headers[h] = None
        BY <1>2, <1>3, <4>1 DEF ScanInv, ChainInv
      <4>2. CASE headers[h] # None
        <5>1. headers[h] \in ReadHashes
          <6>1. h \in ReadHashes
            BY <3>3, <3>4 DEF ReadHashes
          <6> QED
            BY <1>1, <4>2, <6>1 DEF ScanInv, ClosedInv
        <5>2. PICK j \in DOMAIN blocks : blocks[j].Hash = headers[h]
          BY <1>2, <3>2, <5>1 DEF ReadHashes, Read
        <5>3. j # n
          BY <1>3, <2>4, <3>5, <5>2 DEF Children
        <5>4. j + 1 \in 2..n /\ j + 1 \in DOMAIN blocks /\ (j + 1) - 1 = j
          BY <1>3, <5>3
        <5>5. blocks[j + 1].PrevSideHash = blocks[j].Hash
          BY <5>4 DEF ScanInv, ChainInv
        <5> QED
          BY <5>2, <5>4, <5>5
      <4> QED
        BY <4>1, <4>2
    <3> QED
      BY <3>4, <3>5, <3>6, <3>7 DEF Forked
  <2>5. FailsForAReason'
    BY <1>1, <1>5, <2>1, <2>4 DEF FailsForAReason
  <2> QED
    BY <2>2, <2>3, <2>5 DEF ScanInv
<1> QED
  BY <1>4, <1>5 DEF grow

LEMMA NextScanInv ==
  ASSUME ScanInv, [Next]_vars
  PROVE  ScanInv'
<1>1. CASE UNCHANGED vars
  <2>1. UNCHANGED <<headers, keys, header, found, unsorted, blocks, pc>>
    BY <1>1 DEF vars, node, reading, ordering
  <2>2. Read' = Read /\ ReadHashes' = ReadHashes /\ Forked' = Forked
    BY <2>1 DEF Read, ReadHashes, Forked
  <2>3. NodeInv' /\ ListsInv' /\ DistinctInv' /\ ChainInv'
    BY <2>1 DEF ScanInv, NodeInv, ListsInv, BlocksRead, DistinctInv, ChainInv
  <2>4. PhaseInv' /\ ClosedInv' /\ TrueInv' /\ FailsForAReason'
    BY <2>1, <2>2 DEF ScanInv, PhaseInv, Reading, Failures, ClosedInv, TrueInv, FailsForAReason
  <2> QED
    BY <2>3, <2>4 DEF ScanInv
<1> QED
  BY <1>1, NodeStep, ScanDBStep, HeaderStep, BodyStep, GenesisStep, GrowStep
     DEF Next, scan

-----------------------------------------------------------------------------
(* The theorems.                                                           *)

LEMMA ScanInvHolds == Spec => []ScanInv
<1>1. Init => ScanInv
  BY InitScanInv
<1>2. ScanInv /\ [Next]_vars => ScanInv'
  BY NextScanInv
<1> QED
  BY <1>1, <1>2, PTL DEF Spec

\* The chain that scan returns starts at a first block, goes from parent to child
\* and is the node's, for any number of blocks and whatever the node connects
\* between two reads (scan.go:36-66).
THEOREM ScanOrdersTheChain == Spec => []ChainInOrder
<1>1. ScanInv => ChainInOrder
  <2> SUFFICES ASSUME ScanInv, pc = "done"
               PROVE  /\ blocks[1].PrevSideHash = None
                      /\ \A i \in 2..Len(blocks) : blocks[i].PrevSideHash = blocks[i - 1].Hash
                      /\ \A i \in DOMAIN blocks :
                           blocks[i].PrevSideHash = headers[blocks[i].Hash]
    BY DEF ChainInOrder
  <2>1. blocks # <<>>
    BY DEF ScanInv, PhaseInv
  <2>2. \A i \in DOMAIN blocks : blocks[i] \in Read
    BY DEF Read
  <2> QED
    BY <2>1, <2>2 DEF ScanInv, ChainInv, TrueInv
<1> QED
  BY <1>1, ScanInvHolds, PTL

\* The chain that scan returns is the version of the database that ScanDB saw, to
\* the last block, each of them once, though every block is read in transactions
\* of its own between which the node connects others (scan.go:18-34, 51-66).
THEOREM ScanReturnsOneVersion == Spec => []OneVersion
<1>1. ScanInv => OneVersion
  <2> SUFFICES ASSUME ScanInv, pc = "done"
               PROVE  /\ {blocks[i].Hash : i \in DOMAIN blocks} = found
                      /\ \A i, j \in DOMAIN blocks : blocks[i].Hash = blocks[j].Hash => i = j
    BY DEF OneVersion
  <2>1. keys = <<>> /\ unsorted = <<>>
    BY DEF ScanInv, PhaseInv
  <2>2. ReadHashes = {blocks[i].Hash : i \in DOMAIN blocks}
    BY <2>1 DEF ReadHashes, Read
  <2> QED
    BY <2>2 DEF ScanInv, ClosedInv, DistinctInv
<1> QED
  BY <1>1, ScanInvHolds, PTL

\* scan panics, or returns an error, after its reads only if there was no block or
\* the chain had forked: the keys of the one transaction of ScanDB hold the
\* parents of their blocks (scan.go:36-63).
THEOREM ScanFailsForAReason == Spec => []FailsForAReason
<1>1. ScanInv => FailsForAReason
  BY DEF ScanInv
<1> QED
  BY <1>1, ScanInvHolds, PTL
=============================================================================
