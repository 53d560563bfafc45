SPECIFICATION FairEngineSpec
CONSTANTS
    c1 = c1
    c2 = c2
    Threads = {c1}
    Kinds <- AllKinds
    ClaimSpins = 2
    MaxEpoch = 2
    MaxInject = 1
PROPERTIES
    RequestsReturn
