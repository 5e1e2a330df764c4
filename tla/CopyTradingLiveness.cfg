CONSTANTS
    m1 = m1
    b1 = b1
    w1 = w1
    NoTrade = NoTrade
    NoMint = NoMint
    Mints = {m1}
    RaydiumMints = {}
    Buys = {b1}
    Whales = {w1}
    CounterLimit = 1
    MaxOverlap = 1
    MaxRestarts = 0
SPECIFICATION FairSpec
PROPERTY HandlersFinish
PROPERTY SlotFreed
PROPERTY CancelledMonitorEnds
\* A handler of a sell of >= 10 SOL that succeeds waits for ever, and whoever
\* needs its entry with it.
CHECK_DEADLOCK FALSE
