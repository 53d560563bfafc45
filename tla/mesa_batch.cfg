SPECIFICATION Spec
CONSTANTS
    none = none
    blockA = blockA
    blockB = blockB
    Shapes <- AllShapes
    NoKey <- none
    BatchLimit = 3
    RefusalLimit = 2
    NarrowLimit = 1
    MaxSource = 3
    MaxUpdates = 2
    MaxForks = 1
INVARIANTS
    OrderKept
    LostButOneBatchCounted
    OwnState
PROPERTIES
    RevokedStaysSoftware
    EveryCallReturns
CHECK_DEADLOCK FALSE
