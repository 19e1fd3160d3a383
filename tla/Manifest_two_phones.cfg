CONSTANTS
    image = image
    motion = motion
    other = other
    A = A
    B = B
    Items <- MCItems
    NoItem = NoItem
    Devices = {A, B}
    NoDevice = NoDevice
    Device <- MCTwoPhones
    Folder <- MCFolder
    Stem <- MCStem
    Ext <- MCExt
    Month <- MCMonth
    Size <- MCSize
    Images = {"HEIC", "JPG", "JPEG"}
    Motions = {"MOV"}
    Unknown = "unknown-date"
    Plain = "plain"
    NoPath = NoPath
    FirstReads = {TRUE}
    MaxListings = 2
    MaxTroubles = 0
SPECIFICATION Spec
CHECK_DEADLOCK FALSE
INVARIANTS
    KeepsDeletedPhotos
