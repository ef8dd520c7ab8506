CONSTANTS
    k1 = k1
    k2 = k2
    p1 = p1
    p2 = p2
    Keys = {k1, k2}
    Requests = {p1, p2}
    limit = 2
    window = 2
    Skew = 1
    MaxClock = 5
SPECIFICATION Spec
SYMMETRY Symmetry
INVARIANTS TypeOK SweptEntriesGone
PROPERTIES KeepsPromise
