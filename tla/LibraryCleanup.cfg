CONSTANTS
    f1 = f1
    f2 = f2
    f3 = f3
    a1 = a1
    a2 = a2
    a3 = a3
    c1 = c1
    d1 = d1
    none = none
    Listing <- MCListing
    Pictures = {a1, a2, c1, d1}
    Stored = {a1, c1}
    Home <- MCHome
    RenamedTo <- MCSharedName
    NoPicture = none
    Hash <- MCMixedHash
    Look <- MCMixedLook
    NoLook = none
    Distance <- MCDistance
    Threshold = 5
    Batches = {b1, b2}
    Workers = 1
    MaxScans = 2
    MaxBatches = 2
    MaxTroubles = 1
SPECIFICATION FairSpec
CHECK_DEADLOCK FALSE
INVARIANTS TypeOK KeepsTwoOfAName ActiveIsThere GroupsAreActive
    GroupsAreReviewable ExactIsExact
PROPERTIES WorkEnds
