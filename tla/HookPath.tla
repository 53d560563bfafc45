------------------------------- MODULE HookPath -------------------------------
(***************************************************************************)
(* The hook's whole path: a state of GL passes the gate of MesaState and   *)
(* becomes the words of a primitive and of a batch; a triangle drawn under *)
(* it is built, asked about, checked and walked as BatchPath has it.       *)
(* Batches and meshes nobody drew through GL are asked for as long as no   *)
(* state is set.                                                           *)
(***************************************************************************)
EXTENDS BatchPath, MesaState

CONSTANT Shapes      \* what GL draws: [tri, offset]

ASSUME ShapeAssumption == \A s \in Shapes : IsTriangle(s.tri) /\ s.offset \in Int
(* Both modules have the driver's one window.                              *)
ASSUME OneWindow == Aperture = Window
(* A batch takes both halves of a triangle, and no surface is bound whose  *)
(* rows are longer than the display's; an origin and GL's numbers are      *)
(* words.                                                                  *)
ASSUME SurfaceAssumption ==
  /\ MaxTris \in Nat /\ MaxTris >= 2
  /\ \A family \in States : \A g \in family :
       /\ g.surface.placed => g.surface.stride <= Stride
       /\ g.surface.zorg \in 0..WordMax
       /\ g.scissor.w <= WordMax /\ g.scissor.h <= WordMax

hookVars == <<vars, stateVars>>

HookInit == Init /\ StateInit

(* osmgaMesaTriangle in the trapezoid tier: the builder is told which axis *)
(* repeats, and its batch holds the words of the state.                    *)
DrawBuilt ==
  /\ phase = "idle" /\ tier = "trapezoid"
  /\ \E s \in Shapes :
       AskTriangle([tri |-> s.tri, prim |-> words.prim, repeats |-> "REPEATU" \in words.flags,
                    offset |-> s.offset, state |-> words.state])
  /\ UNCHANGED stateVars

(* A batch on its way, or one that GL has no part in.                      *)
Path  == (phase = "idle" => choice = "none") /\ Next /\ UNCHANGED stateVars
State == phase = "idle" /\ StateNext /\ UNCHANGED vars
(* The next change of GL's state, and the gate is asked again.             *)
Anew ==
  /\ phase = "idle" /\ tier # "none"
  /\ gl' = NoState /\ choice' = "none" /\ tier' = "none" /\ words' = NoWords
  /\ UNCHANGED vars

HookNext == Path \/ State \/ DrawBuilt \/ Anew
HookSpec == HookInit /\ [][HookNext]_hookVars

-----------------------------------------------------------------------------
(* A triangle whose state the gate admitted and whose shape the client's   *)
(* own question let pass is never refused in the ring, where others wait   *)
(* behind it: the gate and that question, which looks at no window and no  *)
(* alignment, leave the driver nothing to find (osmgaMesaChooseTriangle,   *)
(* osmgaMesaPrevalidate and mgaSubmitHW3D).                                 *)
SubmittedIsTaken ==
  (phase \in {"drawing", "done"} /\ tier = "trapezoid" /\ verdict.by = "kernel")
  => verdict.is = "OK"

(* What the gate lets through is drawn: the words of the state pass the    *)
(* questions of both tiers, and no triangle drawn under it is then refused *)
(* behind the hook's back.                                                 *)
AdmittedIsDrawn == AdmittedIsTaken /\ SubmittedIsTaken
=============================================================================
