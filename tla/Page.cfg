CONSTANTS
    p1 = p1
    p2 = p2
    Photos = {p1, p2}
    MaxUnplugs = 1
    MaxFaults = 1
    MaxClicks = 3
SPECIFICATION FairSpec
CHECK_DEADLOCK FALSE
INVARIANTS
    TypeOK
    HearsOfPhone
    DoneMeansFreed
PROPERTIES
    ScreensAreLeft
