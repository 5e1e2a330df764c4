CONSTANTS
    k1 = k1
    k2 = k2
    t1 = t1
    t2 = t2
    Keys = {k1, k2}
    Tasks = {t1, t2}
    TTL = 2
    Timeout = 1
    MaxTime = 5
SPECIFICATION Spec
SYMMETRY Symmetry
INVARIANT TypeOK
INVARIANT AgeBounded
PROPERTY ExpiresOnTime
PROPERTY RegressBounded
