SPECIFICATION HookSpec
CONSTANTS
    WordMax = 524287
    QOne = 8
    QMin = 1
    QMax = 1024
    Span = 128
    Ladder <- ScaledLadder
    LadderTop = 32
    EdgeWalk = 70
    Bits <- ScaledBits
    Align <- CodeAlign
    MaxDim = 64
    MaxPitch = 63
    ExpBits = 3
    ManBits = 2
    Float <- SmallFloat
    SlideMax = 12
    MaxTris = 2
    MaxRuns = 3
    MaxVertices = 6
    SubBits = 2
    CoordLimit = 8
    FracBits = 3
    ChannelMax = 3
    DepthMax = 15
    Triangles <- AllTriangles
    Batches <- AllBatches
    WarpBatches <- AllWarpBatches
    Meshes <- AllMeshes
    Window <- MmapWindow
    Stride = 64
    States <- AllStates
    Fragments <- SampleFragments
    Full = 3
    Aperture <- MmapWindow
    TexOrg = 4096
    Shapes <- AllShapes
INVARIANTS
    AcceptedStaysInside
    AcceptedSamplesInRange
    OneVerdict
    PaintsTheTriangle
    BuiltIsAccepted
    InterpolatesAsAsked
    MeshIsDrawnAsGiven
    AdmittedIsDrawn
    DrawnAsGL
