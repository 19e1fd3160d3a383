CONSTANTS
    f1 = f1
    f2 = f2
    f3 = f3
    a1 = a1
    a2 = a2
    a3 = a3
    c1 = c1
    d1 = d1
    none = none
    Listing <- MCPair
    Pictures = {a1, a2, a3, c1}
    Stored = {a1, c1}
    Home <- MCHome
    RenamedTo <- MCOwnNames
    NoPicture = none
    Hash <- MCCopiesHash
    Look <- MCCopiesLook
    NoLook = none
    Distance <- MCDistance
    Threshold = 5
    Batches = {b1}
    Workers = 1
    MaxScans = 3
    MaxBatches = 3
    MaxTroubles = 0
SPECIFICATION Spec
INVARIANTS KeepsEveryPicture
CHECK_DEADLOCK FALSE
