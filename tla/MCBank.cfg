CONSTANTS
    w1 = w1  w2 = w2  w3 = w3
    First = w1
    Workers <- MCWorkers
    Threads <- MCWorkers
    Settings <- MCSettings
    MaxSegments = 3
    EpochMod = 1
    SpuriousWakeups = FALSE
    NWords = 5
    Values = {0}
SPECIFICATION FairSpec
INVARIANTS
    BankTypeOK
    NoViolationReported
    MoneyConserved
    SegmentsLinked
    AccessesAllocated
PROPERTY
    WorkersFinish
CHECK_DEADLOCK FALSE
