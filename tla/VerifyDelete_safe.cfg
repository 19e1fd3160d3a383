CONSTANTS
    i1 = i1
    i2 = i2
    r1 = r1
    r2 = r2
    Items <- MCTwo
    Pair <- MCOnePair
    Runs <- MCTasks
    Deleters = {d1}
    NoItem = NoItem
    Careful = TRUE
    MaxFaults = 1
    MaxDamage = 1
    MaxEdits = 0
    MaxCrashes = 0
    MaxRechecks = 1
SPECIFICATION Spec
SYMMETRY MCTaskSymmetry
CHECK_DEADLOCK FALSE
INVARIANTS
    TypeOK
    NoPhotoLost
PROPERTIES
    VerifiedIsWhole
