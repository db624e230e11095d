CONSTANTS
    Blocks = {b1, b2, b3}
    BlockSize = 2
    PrefixCaching = FALSE
    Seqs = {s1, s2}
    x = x
    Token <- MCToken
    Prompts <- MCPrompts
    MaxTokens = 5
    Continuous = TRUE
    MaxNumSeqs = 2
    MaxBatchedTokens = 3
    ChunkSize = 3
    Lookahead = 1
    StarvationSteps = 0
    Deadline = TRUE
    Watermark <- OnePerResident
    Requests <- MCRequests
    StopIds = {}
    Aborts = {s1}
    MaxQueueDepth = 1
    Shutdowns = {"drain", "stop"}
    MayThrow = TRUE
SPECIFICATION FairEngineSpec
INVARIANTS
    QueuedExact
    EndReleasesScheduler
    IdleIsHealthy
PROPERTIES
    InboxServed
    ShutdownReturns
CHECK_DEADLOCK FALSE
