\* the programs end when main has joined its threads
CHECK_DEADLOCK FALSE
SPECIFICATION ExamplesFairSpec
CONSTANTS
    THREADS = 3
    RUNS = 3
    BUFFER_SIZE = 2
INVARIANTS
    ExamplesTypeOK
    ExactCount
    LostIncrements
    OneLeader
    SomeoneLeads
    ConsumesProduced
    SlotsNotShared
PROPERTIES
    EveryoneFinishes
