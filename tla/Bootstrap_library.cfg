SPECIFICATION Spec
CONSTANTS
    MaxFiles = 2
    MaxDiffLines = 4
    ContextCap = 4
    FollowupWindow = 14
    History <- MCHistory
    FirstHead = 2
    SeedMax = 0
    DocsShare = 50
    Submitters = {"boot"}
    Pollers = {"boot", "hand"}
    MaxBatches = 2
    MaxCommands = 4
    MaxFaults = 1
    StopMinN = 1
    FutilityConsecutiveFails = 2
    StopWilsonUpper = 10
    Tracks = {1}
    TrackOf <- MCTrackOf
    SmallOf <- MCSmallOf
    CallTokens = 1
    TokenBudget = 1
    Graders = {"hand"}
    Unjudged = Unjudged
    BootSubmitter = "boot"
    BootPoller = "boot"
    Backends = 1
INVARIANTS
    TypeOK
    SeedingHolds
    BriefsHonest
    SummaryOfRows
PROPERTIES
    WrittenOnce
CHECK_DEADLOCK FALSE
