CONSTANTS
    b1 = b1
    b2 = b2
    Buys = {b1, b2}
    Prices = {0, 20, 21, 24, 41}
    QuickWindow = 1
    MaxTime = 3
SPECIFICATION Spec
INVARIANT TypeOK
INVARIANT ExtremaExact
INVARIANT StopOfBest
INVARIANT QuickExact
INVARIANT BoughtIsTracked
\* The buys are over and the clock is at its bound.
CHECK_DEADLOCK FALSE
