CONSTANTS
    HeldOut = {h}
    Others = {o}
    w1 = w1
    w2 = w2
    p1 = p1
    p2 = p2
    Processes = {p1, p2}
    Workers = {w1, w2}
    ProcessOf <- OwnProcess
    Casts <- RunCasts
    NBoxes = 2
    Commits = {c0, c1}
    Tip = c0
    MaxTurns = 2
    MaxTaskTokens = 1
    Costs = {0, 1}
    MaxCalls = 1
    TasksPerSitting = 1
    PrepLimit = 1
    GradeLimit = 1
    LoopLimit = 1
    JudgeLimit = 2
    SweepAge = 5
    MaxKills = 1
    MaxFaults = 1
    None = None
SPECIFICATION FairSpec
CHECK_DEADLOCK FALSE
INVARIANTS ArenaKept ArenaComesHome LiveSandboxIntact

PROPERTIES TaskEnds LeftoversSwept
