\* Two tasks on two worker threads, prices one step up and one down, every kind
\* of trade; thresholds of the default configuration.
CONSTANTS
    w1 = w1
    w2 = w2
    Workers = {w1, w2}
    Threads = 2
    Prices = {2, 3, 4}
    Liquidities = {0, 1}
    WhaleThresholds = {10, 30}
    RetracementPnl = 25
    RetracementPct = 15
    TakeProfit = 25
    StopLoss <- DefaultStopLoss
    MinLiquidity = 2
    MaxDrop = 50
SPECIFICATION FairSpec
INVARIANT TypeOK
INVARIANT PricesInRange
INVARIANT WhaleSellInProfit
INVARIANT NoNormalSell
 
PROPERTY OldPositionSold
