\* MaxFree stops the system when the stack is full
CHECK_DEADLOCK FALSE
SPECIFICATION SegmentSpec
CONSTANTS
    t1 = t1
    t2 = t2
    t3 = t3
    Threads <- MCThreads
    EpochMod = 1
    SpuriousWakeups = FALSE
    MaxSegments = 3
    MaxFree = 3
SYMMETRY ThreadSymmetry
INVARIANTS
    SegmentTypeOK
    NoDoubleFree
    MarkedMeansFreed
PROPERTIES
    CommitMeetsNobody
