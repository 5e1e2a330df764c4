---------------------------- MODULE MCCopyTrading ----------------------------
(* Instances of CopyTrading for TLC.                                        *)
EXTENDS CopyTrading, TLC

\* Tokens and tasks are only compared for equality.
Symmetry == Permutations(Mints) \cup Permutations(Buys)
BuySymmetry == Permutations(Buys)

\* Leaves out what monitors do once they listen, for questions about handlers
\* that would otherwise need more states than they are worth.
QuietMonitors == \A t \in Buys : monitor[t] \in {"none", "connecting", "ended"}

\* The Raydium token of an instance has not been traded yet.
OneToken ==
    /\ \A t \in Trades : mint[t] \notin RaydiumMints
    /\ \A t \in Buys : subject[t] \notin RaydiumMints

\* One sale at a time, its effects settled, and no clean-up.
OneSale ==
    /\ Cardinality({t \in Buys : monitor[t] \in SellingState}) <= 1
    /\ Cardinality(sells) <= 1
    /\ notices = {}
    /\ sweepMode = "idle"

\* The target has not sold >= 10 SOL of anything.
Calm == \A t \in Whales : pc[t] = "idle"

\* Everything happens while only one token is traded and Calm.  A sell of
\* >= 10 SOL of the target finds no monitor selling and none sold yet; and what
\* monitors do to each other's tokens is looked at one sale at a time.
Focus ==
    IF OneToken
    THEN Calm \/ (QuietMonitors /\ cancelled = {} /\ Cardinality(sells) <= 1)
    ELSE Calm /\ OneSale /\ \A t \in Buys : buyTx[t] # "dropped"
=============================================================================
