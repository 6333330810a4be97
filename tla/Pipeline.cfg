\* One delivery of any kind, crashed, failed and retried, under a moving head.
SPECIFICATION FairSpec
CONSTANTS
    Deliveries = {d1}
    Agents = {"security", "correctness"}
    MaxPushes = 1
    MaxTries = 2
    Reports <- MCReports
    CollapseAfter = 3
    AutoPostConfidence = 700
    FindingPostConfidence = 6000
    PostMinSeverity = "minor"
    EscalateCriticalSecurity = TRUE
INVARIANTS
    PostedFromWholePanel
    NoDisclosure
    StatusIsTrue
    ActsOnStoredFindings
    DuplicatesBounded
    DoneIsSettled
PROPERTIES
    OkVerdictsFinal
    EveryJobEnds
CHECK_DEADLOCK FALSE
