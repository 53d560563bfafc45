SPECIFICATION Spec
CONSTANTS
    c1 = c1
    c2 = c2
    a1 = a1
    a2 = a2
    Nobody = nobody
    Contexts <- MCContexts
    Arrays <- MCArrays
    Sizes <- MCSizes
    Width = 2
    MaxBrackets = 2
SYMMETRY Alike
INVARIANTS
    ArrayAgrees
    CleanMeansDelivered
    ReadResultKept
PROPERTIES
    LiveFrameKept
CHECK_DEADLOCK FALSE
