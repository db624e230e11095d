CONSTANTS
    Blocks = {b1, b2, b3}
    BlockSize = 2
    PrefixCaching = TRUE
    Seqs = {s1, s2, s3}
    x = x
    y = y
    s1 = s1
    s2 = s2
    s3 = s3
    Token <- MCToken
    Prompts <- MCPrompts
    MaxTokens = 6
    Continuous = TRUE
    MaxNumSeqs = 2
    MaxBatchedTokens = 2
    ChunkSize = 2
    Lookahead = 1
    StarvationSteps = 1
    Deadline = FALSE
    Watermark = 0
    Requests <- MCRequests
    StopIds <- MCStopIds
    Aborts = {s1}
SPECIFICATION FairSpec
INVARIANTS
    NoLostRequest
    SlicesFresh
    PlacedKeepSlots
    StepWithinBudget
PROPERTIES
    SeniorityKept
    ImplementsRequestLife
CHECK_DEADLOCK FALSE
