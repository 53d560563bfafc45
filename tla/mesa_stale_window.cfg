SPECIFICATION Spec
CONSTANTS
    none = none
    blockA = blockA
    blockB = blockB
    Shapes <- AllShapes
    NoKey <- none
    BatchLimit = 3
    RefusalLimit = 2
    NarrowLimit = 1
    MaxSource = 3
    MaxUpdates = 1
    MaxForks = 0
INVARIANTS
    NoStaleWrite
CHECK_DEADLOCK FALSE
