-------------------------- MODULE MCOffscreenWindow --------------------------
(* Instances of OffscreenWindow for model checking: two pages to a megabyte  *)
(* and to a half megabyte's witness, so a stage has pages no witness stands  *)
(* on.                                                                       *)
EXTENDS OffscreenWindow

CONSTANTS c1, c2

TwoClients == {c1, c2}

BoardOf(size, wraps) == [size |-> size, wraps |-> wraps]
AllBoards == {BoardOf(size, wraps) : size \in {16, 32, 64}, wraps \in BOOLEAN}

\* 8, 16 and 32 megabytes, and one (12) that is clamped down to 16.
AllDeclarations == {16, 24, 32, 64}

\* A small picture, and one whose window starts above the proven seven megabytes.
SmallMode == [visible |-> 3, start |-> 4]
LargeMode == [visible |-> 15, start |-> 18]
AllModes == {SmallMode, LargeMode}

OneOffset == {4}

\* Mappings that may fail without leaving a signature behind by themselves.
Harmless == {"probe_save", "probe_write", "witness", "region", "look", "clean"}
=============================================================================
