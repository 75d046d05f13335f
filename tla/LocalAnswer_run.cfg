SPECIFICATION AnswerFairSpec
CONSTANTS
    Strings <- MCStrings
    ValidJSON <- MCJSON
    Completions <- MCCompletions
    Messages <- MCMessages
    MaxRetries = 8
    Deadline = 80
    MaxBackoff = 20
    MaxRetryAfter = 40
    RetryAfters = {0, 1, 50}
    MaxCapture = 13
    MaxNoise = 2
INVARIANTS
    StreamSaysWhatWasMeant
    CutIsFlagged
PROPERTIES
    RetriesBounded
    RequestEnds
CHECK_DEADLOCK FALSE
