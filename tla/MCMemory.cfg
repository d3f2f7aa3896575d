SPECIFICATION MemorySpec
CONSTANTS
    t1 = t1
    t2 = t2
    t3 = t3
    Threads <- MCThreads
    EpochMod = 1
    SpuriousWakeups = FALSE
    NWords = 2
    Values <- MCValues
SYMMETRY ThreadSymmetry
INVARIANTS
    MemoryTypeOK
    WordsBelongToEpoch
    CopiesRaceFree
PROPERTIES
    ImplementsSnapshot
