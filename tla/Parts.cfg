SPECIFICATION Spec
CONSTANTS
    null_pointer = null_pointer
    t1 = t1
    t2 = t2
    t3 = t3
    idle_thread = idle_thread
    la = la
    lb = lb
INVARIANTS ListsExact LocksNoPanic WakeupsKept HighestRuns
           AssertsHold BytesInOrder NothingStuck HeapExact DiskHonest  ContentsRight
           DataThrough ParsedRight TableExact PrintsWhole 
PROPERTIES LocksElevateHolders SignalsKept  KeysTyped OwnPartition UnmapSaves
CHECK_DEADLOCK FALSE
