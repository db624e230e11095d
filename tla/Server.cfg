CONSTANTS
    c1 = c1
    c2 = c2
    c3 = c3
    Conns = {c1, c2, c3}
    Asked <- MCAsked
    Handlers = 2
    MaxQueueDepth = 1
    Pieces <- MCPieces
    MaxBytes = 4
SPECIFICATION FairServerSpec
INVARIANTS
    StreamIntegrity
    NoOrphanWork
PROPERTIES
    AnsweredWhileUp
CHECK_DEADLOCK FALSE
