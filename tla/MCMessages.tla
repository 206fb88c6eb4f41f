---------------------------- MODULE MCMessages ----------------------------
(* Instances of Messages for TLC: hashes of one byte, two slots. *)
EXTENDS Messages

CONSTANT MaxOutputs \* bound: outputs of a coinbase

UpTo(S, n) == UNION {[1..k -> S] : k \in 0..n}

Return(tag, body) == [ret |-> TRUE, tag |-> tag, body |-> body]

CoinbaseOutputs ==
  {Return("M1", <<>>), Return("M1", <<1, 9>>)}
    \cup {Return("M2", <<1, 7>>), Return("M2", <<2, 7, 7>>)}
    \cup {Return("M3", <<s, 7>>) : s \in {1, 2}}
    \cup {Return("M4", b) : b \in {<<>>, <<0>>, <<0, 0>>, <<1, 254>>, <<2, 0, 1>>,
                                   <<2, 253, 0>>, <<2, 253>>, <<3>>, <<9, 1>>}}
    \cup {Return("M7", <<s, h>>) : s \in {1, 2}, h \in {7, 8}}
    \cup {Return("none", <<>>), [ret |-> FALSE, tag |-> "M3", body |-> <<1, 7>>]}

Treasury(s, v) == [kind |-> "treasury", slot |-> s, value |-> v]
Pay(v) == [kind |-> "pay", value |-> v]
OpReturn == [kind |-> "return", value |-> 0]
Bid(s, h, p) == [kind |-> "m8", slot |-> s, hash |-> <<h>>, prev |-> p, value |-> 0]

In(o) == [known |-> TRUE, out |-> o]
Lost(o) == [known |-> FALSE, out |-> o]

BidTx(s, h, p) == [in |-> <<In(Pay(1))>>, out |-> <<Bid(s, h, p), Pay(1)>>]

\* Blocks whose coinbase is of interest, with at most one bid.
CoinbaseBlocks ==
  [coinbase : UpTo(CoinbaseOutputs, MaxOutputs),
   txs : {<<>>} \cup {<<BidTx(1, h, p)>> : h \in {7, 8}, p \in {"tip", "old"}},
   prev : {"tip"}]

Ins ==
  {In(Treasury(s, v)) : s \in {1, 2}, v \in {1, 2}} \cup {In(Pay(2)), Lost(Pay(2))}

Outs ==
  {Treasury(s, v) : s \in {1, 2}, v \in {1, 2}}
    \cup {Pay(1), OpReturn, Bid(1, 7, "tip"), Bid(1, 7, "old")}

\* bitcoind has checked that a transaction does not create value.
Txs ==
  {tx \in [in : UpTo(Ins, 2) \ {<<>>}, out : UpTo(Outs, MaxOutputs) \ {<<>>}] :
     Sum(Values(tx.out)) <= Sum(Values(Spent(tx)))}

\* Blocks whose transactions are of interest.
TransactionBlocks ==
  [coinbase : {<<Return("M7", <<1, 7>>)>>}, txs : {<<tx>> : tx \in Txs}, prev : {"tip"}]
    \cup [coinbase : {<<Return("M7", <<1, 7>>)>>},
          txs : [1..2 -> {tx \in Txs : Len(tx.in) = 1 /\ Len(tx.out) = 1}], prev : {"tip"}]

MCBlocks == CoinbaseBlocks \cup TransactionBlocks
=============================================================================
