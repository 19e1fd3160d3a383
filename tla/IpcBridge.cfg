CONSTANTS
    Calls = {c1, c2}
    MaxStarts = 3
    MaxDeaths = 1
    MaxFaults = 1
SPECIFICATION FairSpec
CHECK_DEADLOCK FALSE
INVARIANTS TypeOK GetsItsOwnAnswer PendingIsInFlight AnswersOnce EventFollowsAnswer
    RestoresSetting
PROPERTIES LiveCallsReturn DeathIsTold
