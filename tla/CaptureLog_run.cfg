CONSTANTS
    Reqs = {r1, r2, r3}
    QueueCap = 1
    BodyCap = 1
    MaxBody = 2
    None = None
SPECIFICATION FairSpec
CHECK_DEADLOCK FALSE
INVARIANTS AnsweredAsCaptured RecordsKept
PROPERTIES AnsweredWithoutLogger SignalEndsProcess
