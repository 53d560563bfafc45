SPECIFICATION FairEngineSpec
CONSTANTS
    c1 = c1
    c2 = c2
    Threads <- TwoThreads
    Kinds <- BatchKinds
    ClaimSpins = 1
    MaxEpoch = 1
    MaxInject = 0
PROPERTIES
    UnseenBatchHasNoVerdict
