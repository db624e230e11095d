CONSTANTS
    Blocks = {b1, b2, b3}
    BlockSize = 2
    PrefixCaching = TRUE
    Seqs = {s1, s2}
    x = x
    y = y
    Token <- MCToken
    Prompts <- MCPrompts
    MaxTokens = 4
SPECIFICATION KVSpec
SYMMETRY Symmetry
INVARIANTS
    TypeOK
    PoolPartition
    RefCounts
    IndexCoherent
    NoOrphans
    PublishedContent
    OwnContent
    PromisedBlocksRemain
PROPERTY PublishedImmutable
