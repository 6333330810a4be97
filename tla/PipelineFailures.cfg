\* A job that fails or runs out of attempts.
SPECIFICATION Spec
CONSTANTS
    Deliveries = {d1}
    Agents = {"security", "correctness"}
    MaxPushes = 0
    MaxTries = 2
    Reports <- FewReports
    CollapseAfter = 3
    AutoPostConfidence = 700
    FindingPostConfidence = 6000
    PostMinSeverity = "minor"
    EscalateCriticalSecurity = TRUE
INVARIANT
    FailuresReachHumans
CHECK_DEADLOCK FALSE
