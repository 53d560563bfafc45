SPECIFICATION Spec
CONSTANTS
    t1 = t1
    t2 = t2
    NoTexture = none
    Textures <- MCTextures
    Widths <- MCWidths
    Surfaces <- MCSurfaces
    Window = 8
    MaxBlocks = 2
    MaxPending = 2
    MaxChanges = 4
SYMMETRY Alike
INVARIANTS
    PendingSamplesItsTexels
    OneOwner
    SurfacesUntouched
CHECK_DEADLOCK FALSE
