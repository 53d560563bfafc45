-------------------------- MODULE MCMesaTextures --------------------------
(* Instances of MesaTextures: two textures of two levels, an arena of five   *)
(* cells behind the small surface and of two behind the large one.           *)
EXTENDS MesaTextures, TLC
CONSTANTS t1, t2
MCTextures == {t1, t2}
MCWidths == 0..2
MCSurfaces == {1, 2}
Alike == Permutations(MCTextures)
=============================================================================
