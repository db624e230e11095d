CONSTANTS
    Blocks = {b1, b2, b3}
    BlockSize = 2
    PrefixCaching = TRUE
    Seqs = {s1, s2, s3}
    x = x
    y = y
    s1 = s1
    s2 = s2
    s3 = s3
    Token <- MCToken
    Prompts <- MCPrompts
    MaxTokens = 6
    Continuous = TRUE
    MaxNumSeqs = 2
    MaxBatchedTokens = 3
    ChunkSize = 2
    Lookahead = 1
    StarvationSteps = 1
    Deadline = TRUE
    Watermark <- OnePerResident
    Requests <- MCRequests
    StopIds <- MCStopIds
    Aborts = {s1}
SPECIFICATION Spec
INVARIANT TimedOutNeverAdmitted
CHECK_DEADLOCK FALSE
