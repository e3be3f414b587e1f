SPECIFICATION FairSpec
CONSTANTS
    NULL = NULL
    Clients = {c1}
    Daemons = {"write_behind"}
    CACHE_SIZE = 2
    NSectors = 3
    Parts = {h}
    Vals = {0}
    Partial = FALSE
PROPERTIES
    WriteBehindFinishes
CHECK_DEADLOCK FALSE
