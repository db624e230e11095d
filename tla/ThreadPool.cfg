CONSTANTS
    N = 4
    GenMod = 2
    Counts <- MCCounts
SPECIFICATION FairPoolSpec
INVARIANTS
    EachIndexOnce
    WorkersInsideCall
    NoLostWakeup
PROPERTIES
    PoolReturns
CHECK_DEADLOCK FALSE
