CONSTANTS
    m1 = m1
    b1 = b1
    b2 = b2
    NoTrade = NoTrade
    NoMint = NoMint
    Mints = {m1}
    RaydiumMints = {}
    Buys = {b1, b2}
    Whales = {}
    CounterLimit = 2
    MaxOverlap = 2
    MaxRestarts = 0
SPECIFICATION Spec
INVARIANT NeverRebuy
