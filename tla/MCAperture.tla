------------------------------ MODULE MCAperture ------------------------------
(* Instances of Aperture for model checking: two machines, one clear and one   *)
(* refused, boot in front of every board; every other machine boots in front   *)
(* of the largest board and with all that may be declared.                     *)
EXTENDS Aperture, MCOffscreenWindow, MCPciSurvey

Clear   == At([Parent EXCEPT !.subordinate = 1])
Crowded == (<<1, 1, 0>> :> OrdinaryDevice(<<Reg("m32", 9, 1)>>, Off)) @@ At(Parent)
Generous == board = BoardOf(64, FALSE) /\ mode = SmallMode /\ limit = Gated /\ ~ring

MCInit == ApertureInit /\ (space \in {Clear, Crowded} \/ Generous)
MCSpec == MCInit /\ [][Survey \/ Drive]_apertureVars
===============================================================================
