------------------------------- MODULE Aperture -------------------------------
(***************************************************************************)
(* The survey and the window together, as -initFromDeviceDescription: has  *)
(* them: the survey walks configuration space once, its verdict and the    *)
(* alignment of the base are the gate (osmgaSurveyGate32), and the gate    *)
(* decides how much memory this boot may attempt.  Everything the window's *)
(* driver does comes after.                                                *)
(*                                                                         *)
(* Wanted counts megabytes from Fb, the window counts pages from the start *)
(* of the same range; Want is what Gated is in megabytes.                  *)
(***************************************************************************)
EXTENDS OffscreenWindow, PciSurvey

apertureVars == <<vars, surveyVars>>

\* OSMGASurveyAlignmentBound: a base register is aligned to what it decodes, and Want
\* is a power of two.
Aligned == Fb # 0 /\ Fb % Want = 0

SurveyGateByBase == Aligned                        \* mutant: the walk is not asked

SurveyGate == verdict = "clear" /\ Aligned

\* The limit of OffscreenWindow is there from the first state, for either answer of
\* the gate.  A boot goes on with the one its own survey has allowed.
GateDecides ==
    /\ stage = "end"
    /\ \E asked \in Declarations : limit = AttemptLimit(VramDeclaration(asked), SurveyGate)

ApertureInit == SurveyInit /\ Init

Survey == SurveyNext /\ UNCHANGED vars
Drive  == GateDecides /\ Next /\ UNCHANGED surveyVars

ApertureSpec == ApertureInit /\ [][Survey \/ Drive]_apertureVars

-------------------------------------------------------------------------------
\* Beyond the sixteen megabytes every card has the range may be a neighbour's, and
\* nothing found there by writing would tell: no region is proved, no page cleaned
\* and no window offered there unless every address of the range is the card's own,
\* whatever is on the buses.
Beyond ==
    \/ at \in ProofSteps /\ to > Conservative
    \/ reached > Conservative \/ windowEnd > Conservative

NeighboursAreSpared == Beyond => RangeIsOurs

===============================================================================
