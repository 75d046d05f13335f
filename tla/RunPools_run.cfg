CONSTANTS
    StopMinN = 2
    FutilityConsecutiveFails = 3
    StopWilsonUpper = 70
    NTasks = 4
    Tracks = {1}
    Profiles <- TwoProfiles
    Parallelism = 2
    MaxTokens = 1
    Costs = {0, 2}
    MaxFaults = 1
    None = None
SPECIFICATION FairSpec
CHECK_DEADLOCK FALSE
INVARIANTS RowsComplete LadderRests SpendBounded
PROPERTIES RunEnds
