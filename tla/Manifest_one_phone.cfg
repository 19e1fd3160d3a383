CONSTANTS
    image = image
    motion = motion
    other = other
    A = A
    B = B
    Items <- MCItems
    NoItem = NoItem
    Devices = {A}
    NoDevice = NoDevice
    Device <- MCOnePhone
    Folder <- MCFolder
    Stem <- MCStem
    Ext <- MCExt
    Month <- MCMonth
    Size <- MCSize
    Images = {"HEIC", "JPG", "JPEG"}
    Motions = {"MOV"}
    Unknown = "unknown-date"
    Plain = "plain"
    NoPath = NoPath
    FirstReads = {TRUE, FALSE}
    MaxListings = 3
    MaxTroubles = 1
SPECIFICATION Spec
CHECK_DEADLOCK FALSE
INVARIANTS
    TypeOK
    CopiesAreTheirOwn
    PairsAreMutual
PROPERTIES
    HalvesLeaveTogether
