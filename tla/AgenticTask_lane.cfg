CONSTANTS
    HeldOut = {h}
    Others = {o}
    w1 = w1
    w2 = w2
    p1 = p1
    p2 = p2
    Processes = {p1, p2}
    Workers = {w1, w2}
    ProcessOf <- OwnProcess
    Casts <- LaneCasts
    NBoxes = 2
    Commits = {c0, c1}
    Tip = c0
    MaxTurns = 2
    MaxTaskTokens = 1
    Costs = {0, 1}
    MaxCalls = 1
    TasksPerSitting = 1
    PrepLimit = 1
    GradeLimit = 1
    LoopLimit = 1
    JudgeLimit = 2
    SweepAge = 5
    MaxKills = 0
    MaxFaults = 0
    None = None
SPECIFICATION Spec
CHECK_DEADLOCK FALSE
INVARIANTS PassedLaneGreen

