------------------------------ MODULE MCHookPath ------------------------------
(* An instance of HookPath: GL draws a triangle on the surface, one that hangs  *)
(* over two of its edges and one whose texture coordinate has run repeats away. *)
EXTENDS HookPath, MCBatchPath, MCMesaState

Shape(p, q, r, u, v, w, offset) == [tri |-> Corners3(p, q, r, u, v, w), offset |-> offset]
AllShapes ==
  {Shape(<<1, 2>>, <<14, 5>>, <<6, 15>>, 0, 60, 30, 0), Shape(<<-3, 0>>, <<15, 7>>, <<2, 26>>, 0, 100, 0, -1),
   Shape(<<2, 2>>, <<11, 6>>, <<1, 9>>, 1300, 1500, 1400, 0)}
=============================================================================
