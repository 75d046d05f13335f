SPECIFICATION FairSpec
CONSTANTS
    RepoRelative <- MCPaths
    TopSegment <- MCSegments
    Sessions = {s1}
    Answers <- MCEdits
    Asks <- MCAsks
    Results <- MCResults
    IncludeClean = 1
    Featurisers = {f1, f2}
    MaxTurns = 2
    MaxFaults = 1
INVARIANTS
    TypeOK
    FollowupStands
    LabelsEarned
PROPERTIES
    FollowupsSettle
CHECK_DEADLOCK FALSE
