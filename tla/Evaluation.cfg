\* Three commands: two evals with a rescoring or an edit between them.
SPECIFICATION Spec
CONSTANTS
    Sets <- MCSets
    Outcomes <- MCOutcomes
    Paths = {p, q}
    Concurrency = 2
    Retrieval = TRUE
    MaxRepeat = 2
    MaxCommands = 3
    CollapseAfter = 3
    AutoPostConfidence = 700
    FindingPostConfidence = 6000
    PostMinSeverity = "minor"
    EscalateCriticalSecurity = TRUE
SYMMETRY AnyPath
INVARIANT
    FilesHoldMeasurements
PROPERTY
    NoSilentRegression
CHECK_DEADLOCK FALSE
