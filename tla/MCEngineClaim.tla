---------------------------- MODULE MCEngineClaim ----------------------------
(* Instances of EngineClaim for model checking. *)
EXTENDS EngineClaim, TLC

CONSTANTS c1, c2

TwoThreads == {c1, c2}
Interchangeable == Permutations(TwoThreads)

BatchKinds   == {"v9", "v10", "present"}
MixedKinds   == {"v9", "v10", "present", "blit", "harness"}
==============================================================================
