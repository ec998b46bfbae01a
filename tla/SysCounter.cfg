SPECIFICATION SysSpec
CONSTANTS
    t1 = t1
    t2 = t2
    t3 = t3
    Threads <- MCThreads
    Root = t1
    Worker = t2
    Comm <- OwnComm
    Ops <- TwoOps
    Machines <- MCMachines
    MAX_PIDS = 2
    MAX_STAMPS = 4
    MAX_COUNTERS = 12
INVARIANTS
    LostOnlyAtFirst
    IgnoredNotCounted
    OwnIntervals
    RowsConsistent
    TableIsRight
CHECK_DEADLOCK FALSE
