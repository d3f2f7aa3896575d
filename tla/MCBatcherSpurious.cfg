\* pthread_cond_wait may also return spuriously, as POSIX allows
SPECIFICATION BatcherFairSpec
CONSTANTS
    t1 = t1
    t2 = t2
    t3 = t3
    t4 = t4
    Threads <- MCThreads
    EpochMod = 3
    SpuriousWakeups = TRUE
INVARIANTS
    Conservation
    NoLostWakeup
PROPERTIES
    BlockedEnters
