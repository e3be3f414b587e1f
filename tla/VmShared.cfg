SPECIFICATION Spec
CONSTANTS
    Procs = {"p", "q"}
    UFrames = {1, 2}
    KFrames = {9}
    NSlots = 3
    max = 2
    PGSIZE = 2
    NPages = 5
    MAX_PAGES = 2
    Segments <- MCSegments
    MapAddrs = {0, 2}
    Esps <- MCEsps
    ProgLen = 2
    Lens = {3}
    Values = {2}
    MaxStarts = 2
    MaxMaps = 1
    MaxFaults = 3
INVARIANTS EvictedEverywhere
CHECK_DEADLOCK FALSE
