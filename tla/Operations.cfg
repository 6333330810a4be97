\* Two files, two deaths of the runner; two places for items on pages of one, two people.
SPECIFICATION OperationsSpec
CONSTANTS
    Files <- MCFiles
    Creates <- MCCreates
    Deaths = 2
    Items = {1, 2}
    Priorities <- MCPriorities
    ReviewOf <- MCReviewOf
    Operators = {ann, bob}
    Limit = 1
    Failures = 1
INVARIANTS
    LedgerIsTrue
    FeedbackIsEarned
PROPERTIES
    MigrationsFinish
    QueueIsServed
CHECK_DEADLOCK FALSE
