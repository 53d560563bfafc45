--------------------------- MODULE MCMesaBatch ---------------------------
(* Instances of MesaBatch: a handful of source triangles that between them *)
(* take every way through osmgaMesaTriangle.                               *)
EXTENDS MesaBatch

CONSTANTS none, blockA, blockB

Shape(key, warp, traps, clipped, facing) ==
  [key |-> key, warp |-> warp, mip |-> FALSE, fits |-> TRUE, traps |-> traps, clipped |-> clipped,
   facing |-> facing]

PlainWarp == Shape(none, TRUE, 1, FALSE, 0)
ClippedWarp == Shape(blockA, TRUE, 1, TRUE, 1)
Two == Shape(blockA, FALSE, 2, FALSE, 0)
OtherTexture == Shape(blockB, FALSE, 1, TRUE, 1)
NoArea == Shape(none, FALSE, 0, FALSE, 0)
Mip == [OtherTexture EXCEPT !.mip = TRUE]

AllShapes == {PlainWarp, ClippedWarp, Two, OtherTexture, NoArea, Mip}
=============================================================================
