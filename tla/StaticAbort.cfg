CONSTANTS
    Blocks = {b1, b2, b3}
    BlockSize = 4
    PrefixCaching = FALSE
    Seqs = {s1, s2, s3}
    x = x
    y = y
    s1 = s1
    s2 = s2
    s3 = s3
    Token <- MCToken
    Prompts <- MCPrompts
    MaxTokens = 6
    Continuous = FALSE
    MaxNumSeqs = 2
    MaxBatchedTokens = 3
    ChunkSize = 2
    Lookahead = 1
    StarvationSteps = 2
    Deadline = FALSE
    Watermark <- OnePerResident
    Requests <- ShortRequests
    StopIds <- MCStopIds
    Aborts = {s1}
SPECIFICATION FairSpec
PROPERTY RequestsFinish
CHECK_DEADLOCK FALSE
