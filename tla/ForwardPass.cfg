CONSTANTS
    KThreads = 4
    KWarps = 2
    KWarp = 2
    MaxGroup = 2
    MaxHeadDim = 4
    QHeads = 4
    KVHeads = 2
    HeadDim = 2
    BlockSize = 2
    Vocab = 3
    FirstWindow = 1
    Widening = 2
    Weights = {0, 1, 2}
    Layers = 2
    Backends = {"cpu", "decode", "gqa"}
    SeqTokens <- MCTokens
    SeqTable <- MCTable
    Steps <- MCSteps
    ScoreShapes <- MCScoreShapes
SPECIFICATION PassSpec
INVARIANTS
    AttentionExact
    SampleExact
    LogitsReachTheirSequence
PROPERTIES
    StepEnds
CHECK_DEADLOCK FALSE
