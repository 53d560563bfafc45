SPECIFICATION MCSpec
CONSTANTS
    c1 = c1
    c2 = c2
    Clients <- TwoClients
    Boards <- AllBoards
    Declarations <- AllDeclarations
    Modes <- AllModes
    Offsets <- OneOffset
    Small = 16
    Conservative = 32
    Gated = 64
    Proven = 14
    StageOne = 24
    Margin = 8
    Stride = 2
    Meg = 2
    Chunk = 4
    MayFail <- Harmless
    MaxMapFailures = 1
    MaxModeSets = 2
    Topologies <- Machines
    MaxBus = 2
    MaxDevice = 1
    MaxFunction = 1
    Ours <- Card100
    Fb = 8
    Want = 4
    Top = 16
INVARIANTS
    ProvedWhileUnused
    WindowIsBacked
    HonestBoardOpensWhole
    ClearMeansOurs
    RefusalIsJustified
    NeighboursAreSpared
PROPERTIES
    WindowOpensClean
    ClientPixelsStay
CHECK_DEADLOCK FALSE
