CONSTANTS
    Scale = 6
    MaxU64 = 22
    AmountIn = 2
    Bps = 10
    Slippage = 5
    SolReserve = 3
    TokReserve = 5
    Stakes = {2}
    MaxReserve = 8
SPECIFICATION Spec
CONSTRAINT SmallPosition
INVARIANT TypeOK
INVARIANT QuoteFillable
PROPERTY PriceFollows
PROPERTY StrandedForGood
