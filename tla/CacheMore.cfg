SPECIFICATION MCSpec
CONSTANTS
    NULL = NULL
    Clients = {c1, c2}
    Daemons = {"write_behind", "read_ahead"}
    CACHE_SIZE = 2
    NSectors = 3
    Parts = {h}
    Vals = {0}
    Partial = FALSE
VIEW View
SYMMETRY Symmetry
INVARIANTS
    AccessesOwnSector
    EntriesInStep
CHECK_DEADLOCK FALSE
