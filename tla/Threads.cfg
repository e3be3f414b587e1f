SPECIFICATION Spec
CONSTANTS
    NULL = NULL
    t1 = t1
    t2 = t2
    t3 = t3
    Threads = {t1, t2}
    Idle = idle_thread
    Main = t1
    Semas = {sa}
    Locks = {la}
    InitPriority <- Ascending
    Priorities = {1, 3}
    InitValue <- Zero
    TIME_SLICE = 1
    DONATION_DEPTH = 8
    MaxSleep = 1
    MaxValue = 1
    Calls = {"sema", "lock", "try", "set_priority", "sleep", "exit"}
INVARIANTS
    
    LockConservation
PROPERTY
    LocksExclude
CHECK_DEADLOCK FALSE
