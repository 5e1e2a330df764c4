CONSTANTS
    u = u
    r1 = r1
    r2 = r2
    f = f
    Updaters = {u}
    Readers = {r1, r2}
    Fallbacks = {f}
    Threshold = 1
    MaxTime = 3
    MaxStores = 3
SPECIFICATION Spec
SYMMETRY Symmetry
INVARIANT TypeOK
PROPERTY ReadsAtomically
PROPERTY EmbraceFinal
\* A reader and a writer may wait for each other, and the bounds run out.
CHECK_DEADLOCK FALSE
