\* Three concurrent callers; thresholds of two so that every edge is reached.
SPECIFICATION FairBreakerSpec
CONSTANTS
    Callers = {c1, c2, c3}
    FailureThreshold = 2
    SuccessThreshold = 2
    RecoveryTime = 2
    MaxFailures = 4
INVARIANT
    ClosedCountsTheStreak
PROPERTIES
    LegalTransitions
    Recovers
CHECK_DEADLOCK FALSE
