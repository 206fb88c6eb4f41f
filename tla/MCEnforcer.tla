---------------------------- MODULE MCEnforcer ----------------------------
(* Instances of Enforcer for TLC. *)
EXTENDS Enforcer

UpTo(S, n) == UNION {[1..k -> S] : k \in 0..n}

Treasury(s, v) == [kind |-> "treasury", slot |-> s, value |-> v]
Pay(v) == [kind |-> "pay", value |-> v]
In(o) == [known |-> TRUE, out |-> o]

\* Two withdrawals from slot 2, and the first one tried on slot 4.
Withdraw1(s) == [in |-> <<In(Treasury(s, 3))>>, out |-> <<Treasury(s, 1), Pay(1)>>]
\* Pays what Id1 pays, with another fee.
Withdraw3 == [in |-> <<In(Treasury(2, 2))>>, out |-> <<Treasury(2, 1), Pay(1)>>]
Withdraw2 == [in |-> <<In(Treasury(2, 3))>>, out |-> <<Treasury(2, 2)>>]
Id1 == [fee |-> 1, payouts |-> <<Pay(1)>>]
Id2 == [fee |-> 1, payouts |-> <<>>]
MCM6IDs == {<<[fee |-> f, payouts |-> p]>> : f \in 0..3, p \in {<<>>, <<Pay(1)>>}}
Regular == [in |-> <<In(Pay(2))>>, out |-> <<Pay(1)>>]

Return(tag, body) == [ret |-> TRUE, tag |-> tag, body |-> body]

CoinbaseOutputs ==
  {Return("M3", <<2, Id1>>), Return("M3", <<2, Id2>>), Return("M3", <<4, Id1>>),
   Return("M4", <<1, 0, 0>>), Return("M4", <<0>>), Return("none", <<>>)}

MCRawBlocks ==
  [coinbase : UpTo(CoinbaseOutputs, 2),
   txs : {<<>>, <<Regular, Withdraw1(2)>>, <<Withdraw2>>, <<Withdraw1(4)>>, <<Withdraw3>>},
   prev : {"tip"}]
=============================================================================
