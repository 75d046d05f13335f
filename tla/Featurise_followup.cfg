SPECIFICATION Spec
CONSTANTS
    RepoRelative <- MCPaths
    TopSegment <- MCSegments
    Sessions = {s1}
    Answers <- MCAnswers
    Asks <- MCAsks
    Results <- MCResults
    IncludeClean = 1
    Featurisers = {f1}
    MaxTurns = 2
    MaxFaults = 0
INVARIANTS
    FlaggedForTrouble
CHECK_DEADLOCK FALSE
