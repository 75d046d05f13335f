CONSTANTS
    Sessions = {s1}
    Cats = {c1}
    Reqs = {r1, r2}
    None = None
    ShadowOrdinals = {0}
    WaitingSessions = {}
    MaxFaults = 2
    MaxUpdates = 1
    MaxRestarts = 1
SPECIFICATION FairSpec
CHECK_DEADLOCK FALSE
PROPERTIES DriftRecorded SnapshotConverges ImplementsRoutedAnswers
