-------------------------- MODULE MCMesaPictures --------------------------
(* Instances of MesaPictures: two contexts, two arrays, two sizes.           *)
EXTENDS MesaPictures, TLC
CONSTANTS c1, c2, a1, a2
MCContexts == {c1, c2}
MCArrays == {a1, a2}
MCSizes == {1, 2}
\* Nothing tells one context or one array from another.
Alike == Permutations(MCContexts) \cup Permutations(MCArrays)
=============================================================================
