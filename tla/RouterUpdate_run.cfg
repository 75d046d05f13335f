SPECIFICATION FairSpec
CONSTANTS
    Tokens <- MCTokens
    Overrides <- MCNone
    MinN = 1
    MinWilsonLB = 10
    MinDivergenceN = 1
    DivergencePoints = 10
    Verifications <- MCVerifications
    EvalResults <- MCEvalResults
    FrontierModels <- MCFrontier
    LocalModels <- MCLocal
    Updaters = {u1, u2}
    MaxDisables = 1
    MaxFaults = 1
INVARIANTS
    TypeOK
    AgreementEarned
PROPERTIES
    StatisticsConverge
CHECK_DEADLOCK FALSE
