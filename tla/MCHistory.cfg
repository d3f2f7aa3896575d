\* pthread_cond_wait returns on a broadcast only
SPECIFICATION HistorySpec
CONSTANTS
    t1 = t1
    t2 = t2
    t3 = t3
    t4 = t4
    Threads <- MCThreads
    EpochMod = 2
    SpuriousWakeups = FALSE
    NWords = 1
    Values <- MCValues
SYMMETRY ThreadSymmetry
INVARIANTS
    TypeOK
    Accounting
    UniqueIds
    NoLostUpdate
PROPERTIES
    EpochEndsAlone
    ImplementsGate
    AbortsHaveACause
