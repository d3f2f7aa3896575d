\* the process may end
CHECK_DEADLOCK FALSE
SPECIFICATION GraderFairSpec
CONSTANTS
    w1 = w1
    w2 = w2
    w3 = w3
    Workers <- MCWorkers
    nbrepeats = 2
    Timeouts = FALSE
    SpuriousReturns = FALSE
    ThrowIn <- MCThrowInCheck
PROPERTIES
    GraderExits
