\* Two reviews of two agents each, two attempts, on a day that has room for about one.
SPECIFICATION Spec
CONSTANTS
    Panels = {p1, p2}
    Agents = {"security", "correctness"}
    Attempts = 2
    Estimate = 2
    Costs = {2}
    ReviewCap = 3
    DailyCap = 4
INVARIANT
    OverspendIsBounded
PROPERTY
    KeepsPromise
CHECK_DEADLOCK FALSE
