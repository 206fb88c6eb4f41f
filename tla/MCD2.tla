-------------------------------- MODULE MCD2 --------------------------------
(* Instances of D2Audit for TLC. *)
EXTENDS D2Audit

CONSTANTS
  CoinbaseMax, \* bound: messages from the coinbase of a block
  M6Max,       \* bound: M6s of a block
  PaidIDs,     \* bound: the M6IDs of these M6s
  Vectors      \* the M4s that a block may carry

SeqUpTo(S, n) == UNION {[1..k -> S] : k \in 0..n}

vec1 == [Enum |-> "OneByte", V |-> <<0, 0>>]
vec2 == [Enum |-> "OneByte", V |-> <<1, 255>>]
vec3 == [Enum |-> "TwoByte", V |-> <<65534, 0>>]
repeat == [Enum |-> "RepeatPrevious", V |-> <<>>]
by50 == [Enum |-> "LeadingBy50", V |-> <<>>]
unknown == [Enum |-> "Unknown", V |-> <<>>]

AllVectors == {vec1, vec2, vec3, repeat, by50, unknown}

MCVoteValues == {0, 1, 254, 255, 65534, 65535}

\* What one coinbase output gives: the M3s get their vout from their place.
Outputs ==
  [type : {"M3"}, slot : SidechainNumbers, id : M6IDs]
    \cup [type : {"M4"}, m4 : Vectors] \cup {[type |-> "Other"]}

Numbered(c) ==
  [i \in DOMAIN c |->
     IF c[i].type = "M3"
     THEN [type |-> "M3", slot |-> c[i].slot, id |-> c[i].id, vout |-> i]
     ELSE c[i]]

\* checkBlockValidity refuses two M3s for one slot.
OneM3PerSlot(c) ==
  \A i, j \in DOMAIN c :
    c[i].type = "M3" /\ c[j].type = "M3" /\ c[i].slot = c[j].slot => i = j

MCBlocks ==
  {Numbered(c) \o t :
     c \in {d \in SeqUpTo(Outputs, CoinbaseMax) : OneM3PerSlot(d)},
     t \in SeqUpTo([type : {"M6"}, slot : SidechainNumbers, id : PaidIDs], M6Max)}
=============================================================================
