CONSTANTS
    Calls = {c1, c2}
    MaxStarts = 1
    MaxDeaths = 1
    MaxFaults = 0
SPECIFICATION FairSpec
CHECK_DEADLOCK FALSE
PROPERTIES CallsReturn
