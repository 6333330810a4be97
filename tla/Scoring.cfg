\* Every panel of up to five findings out of ten, scored against two cases.
SPECIFICATION ReportSpec
CONSTANTS
    Pool <- MixedPool
    MaxFindings = 5
    CollapseAfter = 3
INVARIANTS
    NothingBuried
    NothingInvented
    RepetitionIsNotAgreement
    ReportAddsUp
    ConsolidationKeepsRecall
    RescoreFindsNoMore
CHECK_DEADLOCK FALSE
