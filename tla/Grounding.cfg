\* Every pair of patches of up to four lines, every claim.
SPECIFICATION DiffSpec
CONSTANTS
    SNAP_WINDOW = 1
    MaxBytes = 4
    Paths <- MCPaths
    Named <- MCNamed
    MaxLines = 4
    MaxLine = 3
    Torn = {"no", "text", "end"}
INVARIANTS
    NumbersAgree
    GroundedIsReal
CHECK_DEADLOCK FALSE
