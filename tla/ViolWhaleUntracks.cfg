CONSTANTS
    m1 = m1
    b1 = b1
    w1 = w1
    NoTrade = NoTrade
    NoMint = NoMint
    Mints = {m1}
    RaydiumMints = {}
    Buys = {b1}
    Whales = {w1}
    CounterLimit = 1
    MaxOverlap = 1
    MaxRestarts = 0
SPECIFICATION ResponsiveSpec
PROPERTY WhaleSaleUntracks
CHECK_DEADLOCK FALSE
