SPECIFICATION Spec
CONSTANTS
    NULL = NULL
    Clients = {c1}
    Daemons = {"flush"}
    CACHE_SIZE = 2
    NSectors = 3
    Parts = {h}
    Vals = {0, 1}
    Partial = FALSE
INVARIANTS
    ContentsExact
PROPERTIES
    FlushDurable
CHECK_DEADLOCK FALSE
