\* Two index runs of two commits beside an earlier one, one review that searches for two files.
SPECIFICATION Spec
CONSTANTS
    MAX_CHUNK_LINES = 3
    MIN_CHUNK_LINES = 2
    WINDOW_OVERLAP = 1
    Indexers = {i1, i2}
    Commits = {"c1", "c2"}
    Trees <- MCTrees
    Readers = {r1}
    Changed = {"p1", "p2"}
    Queried <- MCQueried
    top_k = 2
    max_chars = 2
    retrieval_context_chars = 3
SYMMETRY Runs
INVARIANTS
    IndexNeverVanishes
    SwapsAlone
    EveryLineIndexed
    ContextIsLabelled
    EveryFileHeard
CHECK_DEADLOCK FALSE
