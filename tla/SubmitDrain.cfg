CONSTANTS
    Blocks = {b1, b2, b3}
    BlockSize = 2
    PrefixCaching = FALSE
    Seqs = {s1, s2}
    x = x
    Token <- MCToken
    Prompts <- MCPrompts
    MaxTokens = 5
    Continuous = TRUE
    MaxNumSeqs = 2
    MaxBatchedTokens = 3
    ChunkSize = 3
    Lookahead = 1
    StarvationSteps = 0
    Deadline = FALSE
    Watermark <- OnePerResident
    Requests <- MCRequests
    StopIds = {}
    Aborts = {}
    MaxQueueDepth = 0
    Shutdowns = {"drain"}
    MayThrow = FALSE
SPECIFICATION EngineSpec
INVARIANT AcceptedReleased
CHECK_DEADLOCK FALSE
