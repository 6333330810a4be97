\* Two clients, pages of two files, listings of at most four, one push.
SPECIFICATION Spec
CONSTANTS
    Clients = {c1, c2}
    Sizes = {0, 1, 2, 4, 5}
    PageSize = 2
    MaxFiles = 4
    Attempts = 2
    Pushes = 1
INVARIANTS
    PostsOnce
    PostedSaysAll
    ContextComplete
PROPERTY
    ClientsEnd
CHECK_DEADLOCK FALSE
