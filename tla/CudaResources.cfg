CONSTANTS
    Layers = 2
    Hidden = 2
    KvDim = 1
    Inter = 3
    Vocab = 4
    Demands <- MCDemands
    MaxSteps = 3
    LayerScopes = 1
    MaxEventFailures = 2
SPECIFICATION ResSpec
INVARIANTS
    StepBuffersLive
    ReleasedOnce
    SpansOfThisStep
CHECK_DEADLOCK FALSE
