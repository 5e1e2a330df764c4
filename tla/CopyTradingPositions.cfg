CONSTANTS
    m1 = m1
    m2 = m2
    b1 = b1
    b2 = b2
    w1 = w1
    NoTrade = NoTrade
    NoMint = NoMint
    Mints = {m1, m2}
    RaydiumMints = {m2}
    Buys = {b1, b2}
    Whales = {w1}
    CounterLimit = 2
    MaxOverlap = 2
    MaxRestarts = 0
SPECIFICATION Spec
SYMMETRY BuySymmetry
CONSTRAINT Focus
INVARIANT TypeOK
INVARIANT PositionsBlacklisted
INVARIANT UntouchedPositionKept
INVARIANT OrphanWasDisplaced
PROPERTY JamFinal
PROPERTY AbandonedForGood
\* A handler of a sell of >= 10 SOL that succeeds waits for ever, and the
\* clean-up task with it.
CHECK_DEADLOCK FALSE
