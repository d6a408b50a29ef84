SPECIFICATION FairSpec
CONSTANTS
    EXPECTED_BE = FALSE
    M0Plus = TRUE
    Wrap = 16
    Reselect = FALSE
    Spare <- SpareCalls
INVARIANTS
    CacheCoherent
    AnswerIsTrue
    VerdictIsResult
PROPERTIES
    CallReturns
CHECK_DEADLOCK FALSE
