SPECIFICATION EngineSpec
CONSTANTS
    c1 = c1
    c2 = c2
    Threads <- TwoThreads
    Kinds <- MixedKinds
    ClaimSpins = 1
    MaxEpoch = 2
    MaxInject = 1
SYMMETRY Interchangeable
INVARIANTS
    ClaimExclusive
    LatchCoversRunningEngine
PROPERTIES
    NothingAfterTheLatch
    CompletedIsReported
