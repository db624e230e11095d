CONSTANTS
    Families = {"ByteLevel", "Metaspace"}
    Texts <- MCTexts
    LetterRanges <- MCLetters
    NumberRanges <- MCNumbers
    SpaceRanges <- MCSpaces
    Vocabulary <- MCVocabulary
    MergeList <- MCMergeList
    AddedTokens <- MCAddedTokens
    ByteTokens <- MCByteTokens
    Unknown <- MCUnknown
SPECIFICATION TokSpec
INVARIANTS
    SplitExact
    MergeExact
    SpecialsExact
    RoundTrip
