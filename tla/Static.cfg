CONSTANTS
    Blocks = {b1, b2, b3}
    BlockSize = 2
    PrefixCaching = FALSE
    Seqs = {s1, s2, s3}
    x = x
    y = y
    s1 = s1
    s2 = s2
    s3 = s3
    Token <- MCToken
    Prompts <- MCPrompts
    MaxTokens = 6
    Continuous = FALSE
    MaxNumSeqs = 2
    MaxBatchedTokens = 3
    ChunkSize = 2
    Lookahead = 2
    StarvationSteps = 2
    Deadline = TRUE
    Watermark = 1
    Requests <- StaticRequests
    StopIds <- MCStopIds
    Aborts = {}
SPECIFICATION FairSpec
PROPERTIES
    StarvingHoldsQueue
    ImplementsRequestLife
CHECK_DEADLOCK FALSE
