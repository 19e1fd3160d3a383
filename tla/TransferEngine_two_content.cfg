CONSTANTS
    NItems = 1
    Size <- MCOne
    RemoteLen <- MCOne
    Unreadable = {}
    CanSeek = {FALSE}
    FlushEvery = 2
    Engines = {e1, e2}
    Tasks = {t1, t2}
    NoEngine = NoEngine
    NoTask = NoTask
    MaxClients = 1
    MaxFaults = 0
    MaxCrashes = 0
    MaxDepth = 1
SPECIFICATION Spec
CHECK_DEADLOCK FALSE
INVARIANTS
    CopiedIsComplete
