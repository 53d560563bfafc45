SPECIFICATION Spec
CONSTANTS
    WordMax = 2147483647
    Machines <- AllMachines
    Alter <- AsGiven
    Elapsed <- Times
    Snapshots <- SeenOf
    Requests <- AllRequests
    ByteMax = 255
    IdMax = 3
    MaxSurfaces = 2
    Rectangles <- AllRectangles
    Corners <- AllCorners
CHECK_DEADLOCK FALSE
INVARIANTS
    StatesAreEarned
    PlansShowTheMode
    AdmittedIsLive
