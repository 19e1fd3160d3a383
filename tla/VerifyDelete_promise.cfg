CONSTANTS
    i1 = i1
    i2 = i2
    r1 = r1
    r2 = r2
    Items <- MCTwo
    Pair <- MCOnePair
    Runs = {r1}
    Deleters = {d1, d2}
    NoItem = NoItem
    Careful = TRUE
    MaxFaults = 1
    MaxDamage = 1
    MaxEdits = 1
    MaxCrashes = 1
    MaxRechecks = 0
SPECIFICATION FairSpec
CHECK_DEADLOCK FALSE
INVARIANTS
    PairsTogether
    VerifiedIsOnPhone
PROPERTIES
    DeletedIsFinal
    KeepsCustody
    CopiedIsJudged
    DeletionsEnd
