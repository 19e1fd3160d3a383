CONSTANTS
    NItems = 3
    Size <- MCQueue
    RemoteLen <- MCQueueServed
    Unreadable = {2}
    CanSeek = {TRUE, FALSE}
    FlushEvery = 2
    Engines = {e1}
    Tasks = {t1, t2}
    NoEngine = NoEngine
    NoTask = NoTask
    MaxClients = 3
    MaxFaults = 1
    MaxCrashes = 1
    MaxDepth = 3
SPECIFICATION FairSpec
CHECK_DEADLOCK FALSE
INVARIANTS
    TypeOK
    PartialIsPrefix
    OneRunPerEngine
    NoOrphan
PROPERTIES
    KeepsCopying
    DrainedMeansSettled
    RunsEnd
    ReconnectDrains
