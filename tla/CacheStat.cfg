SPECIFICATION CacheSpec
CONSTANTS
    t1 = t1
    t2 = t2
    Threads <- TwoThreads
    Traced <- OneThread
    Kernels <- AllKernels
    U64 = 1000
    MaxEvents = 3
    Intervals = 2
INVARIANTS
    AccessesConserved
    MissesConserved
    ShownWithinAccesses
CHECK_DEADLOCK FALSE
