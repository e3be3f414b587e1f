SPECIFICATION LiveSpec
CONSTANTS
    NULL = NULL
    t1 = t1
    t2 = t2
    t3 = t3
    idle_thread = idle_thread
    la = la
    p0 = p0
    p1 = p1
    p2 = p2
    g0 = g0
    g1 = g1
    g2 = g2
    b0 = b0
    b1 = b1
INVARIANTS
    DonationExact
PROPERTIES
    NoPriorityInversion
    ExecReturns
    PromptReturns
CHECK_DEADLOCK FALSE
