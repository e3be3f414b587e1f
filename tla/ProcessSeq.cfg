SPECIFICATION Spec
CONSTANTS
    NULL = NULL
    Procs = {main, p1, p2, p3}
    Main = main
    Pages = {g0, g1, g2}
    Blocks = {b0, b1, b2}
    Statuses = {0}
    Clients = {}
    MaxWaits = 2
SYMMETRY Symmetry
PROPERTIES
    WaitDelivers
CHECK_DEADLOCK FALSE
