CONSTANTS
    Calls = {c1, c2}
    Runners = {unit}
    None = None
    Answers = {"agree", "differ", "errored", "corrupt"}
    Retires = TRUE
    MaxFaults = 1
    MaxBatches = 3
    Commit <- MCCommit
    Resolve <- MCResolve
    Language <- MCLanguage
    Difft <- MCDifft
    Thresholds <- MCThresholds
    Linted = {}
    Tested = {"api/a.go"}
    LintSeen = {"ok"}
    TestsSeen = {"failed"}
    Texts <- MCTexts
    Messages <- MCMessages
    Compared <- MCCompared
    Exchanges <- MCExchanges
SPECIFICATION FairSpec
CHECK_DEADLOCK FALSE
INVARIANTS VerdictsRest ResultsApplied CascadeMeasures
PROPERTIES DecisionIsFinal QueuedIsJudged
