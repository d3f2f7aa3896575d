CONSTANTS
    w1 = w1  w2 = w2  w3 = w3
    First = w1
    Workers <- MCWorkers
    Threads <- MCWorkers
    Settings <- MCSkewSettings
    MaxSegments = 3
    EpochMod = 1
    SpuriousWakeups = FALSE
    NWords = 6
    Values = {0}
SPECIFICATION Spec
INVARIANTS
    MoneyConserved
SYMMETRY AnyWorkers
CHECK_DEADLOCK FALSE
