CONSTANTS
    m1 = m1
    m2 = m2
    m3 = m3
    b1 = b1
    b2 = b2
    b3 = b3
    NoTrade = NoTrade
    NoMint = NoMint
    Mints = {m1, m2, m3}
    RaydiumMints = {}
    Buys = {b1, b2, b3}
    Whales = {}
    CounterLimit = 1
    MaxOverlap = 2
    MaxRestarts = 1
SPECIFICATION Spec
SYMMETRY Symmetry
CONSTRAINT QuietMonitors
INVARIANT OvershootBounded
PROPERTY KeepsPromise
