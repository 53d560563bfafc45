------------------------------- MODULE MesaWarp -------------------------------
(***************************************************************************)
(* The vertex builder and the batch assembler of mesa/OpenStepMGAMesaWarp.c *)
(* and the slide of the weights before them (osmgaMesaWarpTriangle).  A    *)
(* source vertex has x, y in subpixels, z in as many parts of a depth code, *)
(* and a weight qw, a divisor tq and coordinates s, t in units of the      *)
(* smallest float; what the code carries in doubles is exact here.         *)
(***************************************************************************)
EXTENDS MesaTriangle

CONSTANT SlideMax           \* the furthest the model's weights are moved; frexp knows no end
ASSUME SlideAssumption == SlideMax \in Nat

(* The powers of two.                                                      *)
Twos[n \in Nat] == IF n = 0 THEN 1 ELSE 2 * Twos[n - 1]

Infinity == (2^ExpBits - 1) * 2^ManBits
Negative == 2^(ExpBits + ManBits)

Value(p) ==      \* in units of the smallest float
  LET man == p % 2^ManBits
  IN  (IF F32Sign(p) = 1 THEN -1 ELSE 1)
        * (IF F32Exp(p) = 0 THEN man ELSE (2^ManBits + man) * Twos[F32Exp(p) - 1])

(* A double to the nearest float, to the even one of two; the pattern      *)
(* after the largest is infinity.                                          *)
Values == [p \in 0..Infinity |-> Value(p)]
Nearest(n, d) ==
  LET below == Max({p \in 0..Infinity : d * Values[p] <= n})
      past == 2 * n - d * (Values[below] + Values[below + 1])
  IN  IF below = Infinity THEN Infinity
      ELSE IF past > 0 \/ (past = 0 /\ below % 2 = 1) THEN below + 1 ELSE below
F32Of(n, d) == Nearest(Abs(n), d) + IF n < 0 THEN Negative ELSE 0

(* The limits are positive numbers, a weight's in full precision.          *)
ASSUME FloatAssumption ==
  /\ ExpBits \in 2..8 /\ ManBits \in 1..23 /\ DepthMax \in Nat
  /\ {Float.one, Float.coord, Float.rhwMin, Float.rhwMax} \subseteq 1..(Infinity - 1)
  /\ Float.one <= Float.coord
  /\ 2^ManBits <= Float.rhwMin /\ Float.rhwMin <= Float.rhwMax

-----------------------------------------------------------------------------
(* The slide: weights outside the window move into it together, by the     *)
(* power of two that brings the largest into its upper half, top included. *)

Weights(tri) == {v.qw * v.tq : v \in {tri[1], tri[2], tri[3]}}
WeightMin == Value(Float.rhwMin)
WeightMax == Value(Float.rhwMax)

(* w * 2^n: [n, d].                                                        *)
Ldexp(w, n) == [n |-> w * Twos[Max({n, 0})], d |-> Twos[Max({-n, 0})]]

UpperHalf(w, n) ==
  LET v == Ldexp(w, n) IN 2 * v.n > WeightMax * v.d /\ v.n <= WeightMax * v.d
Slide(most) == CHOOSE n \in -SlideMax..SlideMax : UpperHalf(most, n)

Rebase(tri) ==
  LET ws == Weights(tri)
      n == Slide(Max(ws))
      least == Ldexp(Min(ws), n)
  IN  IF \/ \E w \in ws : w <= 0
         \/ Min(ws) >= WeightMin /\ Max(ws) <= WeightMax
      THEN [ok |-> TRUE, n |-> 0]
      ELSE [ok |-> least.n >= WeightMin * least.d, n |-> n]

-----------------------------------------------------------------------------
(* OSMGAMesaBuildWarpVertex: half a pixel low, the offset folded into the  *)
(* depth, the divisor into the weight and out of the coordinates.          *)

BuildVertex(v, textured, offset, slide) ==
  LET one == Value(Float.one)
      w == Ldexp(v.qw * v.tq, slide)
      Coordinate(c) == IF textured THEN F32Of(c, v.tq) ELSE 0
  IN  [x |-> F32Of(one * (v.x - SubOne \div 2), SubOne), y |-> F32Of(one * (v.y - SubOne \div 2), SubOne),
       z |-> F32Of(one * (v.z + offset * SubOne), SubOne * (DepthMax + 1)),
       rhw |-> F32Of(w.n, w.d), tu0 |-> Coordinate(v.s), tv0 |-> Coordinate(v.t)]

(* Three vertices, or none where one is declined.                          *)
BuildWarp(tri, prim, offset) ==
  LET slide == Rebase(tri)
      built == [i \in 1..3 |-> BuildVertex(tri[i], prim.opcode = OpTex, offset, slide.n)]
  IN  IF /\ slide.ok
         /\ \A i \in 1..3 : tri[i].qw > 0 /\ tri[i].tq > 0
         /\ \A i \in 1..3 : VertexOK(built[i])
      THEN built ELSE <<>>

-----------------------------------------------------------------------------
(* OSMGAMesaWarpReset, Capacity and Add.                                   *)

EmptyWarp(state) ==
  [state |-> state, mips |-> 0, mipOrg |-> <<0, 0, 0, 0>>, runs |-> <<>>, vtxCount |-> 0, vtx |-> <<>>]

(* A capacity of nought, or above the real one, leaves that one.           *)
Capacity(asked, real) == IF asked = 0 THEN real ELSE Min({asked, real})

SameDwgctl(r, prim) == [r.prim EXCEPT !.ac = 0] = [prim EXCEPT !.ac = 0]   \* mutant: the blend does not end a run
SameWords(r, prim) == r.prim = prim
NeedsRun(b, prim) == b.runs = <<>> \/ ~SameWords(Last(b.runs), prim)

WarpFull(b, prim, caps) ==
  \/ b.vtxCount + 3 > Capacity(caps.vtx, MaxVertices)
  \/ NeedsRun(b, prim) /\ Len(b.runs) >= Capacity(caps.runs, MaxRuns)

WarpAdd(b, prim, vs) ==
  LET opened == IF NeedsRun(b, prim)
                THEN Append(b.runs, [prim |-> prim, first |-> b.vtxCount, count |-> 0]) ELSE b.runs
  IN  [b EXCEPT !.runs = [opened EXCEPT ![Len(opened)].count = @ + 3],
                !.vtxCount = @ + 3, !.vtx = @ \o vs]
=============================================================================
