----------------------------- MODULE MesaTriangle -----------------------------
(***************************************************************************)
(* The triangle builder of mesa/OpenStepMGAMesaTriangle.c: three vertices  *)
(* in subpixels become at most two trapezoids whose edges the engine walks *)
(* in integers.  The planes the code carries in doubles are rationals      *)
(* here, <<numerator, denominator>>; a rounding is the only loss.          *)
(***************************************************************************)
EXTENDS HW3D

CONSTANTS
  SubBits,        \* OSMGA_MESA_SUBBITS
  CoordLimit,     \* OSMGA_MESA_RULE_COORD_MAX, in pixels
  FracBits,       \* fraction of a colour: 15
  ChannelMax,     \* largest channel: 255
  DepthMax        \* largest depth: 65535

(* The code has eight.                                                     *)
ASSUME SubBitsAssumption == SubBits \in 1..8
(* The code has fifteen bits of fraction, and fields of 22 and 24.  The     *)
(* largest channel half a unit up, and every edge the walk may take, have  *)
(* a field that holds them.                                                *)
ASSUME FieldAssumption ==
  /\ FracBits \in 0..15 /\ {Bits.ar, Bits.ar1, Bits.dr} \subseteq 1..24
  /\ {ChannelMax, EdgeWalk} \subseteq Nat
  /\ EdgeWalk < 2^(Bits.ar - 1) /\ EdgeWalk < 2^(Bits.ar1 - 1)
  /\ ChannelMax * 2^FracBits + 2^FracBits \div 2 < 2^(Bits.dr - 1)

SubOne == 2^SubBits
CeilDiv(a, b) == -((-a) \div b)
FloorDiv(a, b) == a \div b
Sign(x) == IF x < 0 THEN -1 ELSE 1

-----------------------------------------------------------------------------
(* Edges: [xa, ya, dee, height], walked with s bits below the pixel.       *)

Edge(p, q) == [xa |-> p.x, ya |-> p.y, dee |-> q.x - p.x, height |-> q.y - p.y]

EdgeRegsRight(e, r0, s) ==                   \* mutant: an edge to the left starts as one to the right
  LET step == 2^(SubBits - s)
      M == 2^s
      XA == FloorDiv(e.xa, step)
      YA == FloorDiv(e.ya, step)
      DD == FloorDiv(e.dee, step)
      HH == FloorDiv(e.height, step)
      Q2 == 2 * M * HH
      P0 == 2 * XA * HH - M * HH + ((2 * r0 + 1) * M - 2 * YA) * DD
      x0 == CeilDiv(P0, Q2)
  IN  [x0 |-> x0, mag |-> 2 * Abs(DD), dy |-> 2 * HH, sgn |-> Sign(DD),
       err |-> CeilDiv(P0 - x0 * Q2, M)]
(* osmgaEdgeRegs: the first column whose centre is not left of the edge in *)
(* row r0, and what is left over, on the scale the walk adds dy and mag.   *)
EdgeRegs(e, r0, s) ==
  LET step == 2^(SubBits - s)
      M == 2^s
      XA == FloorDiv(e.xa, step)
      YA == FloorDiv(e.ya, step)
      DD == FloorDiv(e.dee, step)
      HH == FloorDiv(e.height, step)
      Q2 == 2 * M * HH
      P0 == 2 * XA * HH - M * HH + ((2 * r0 + 1) * M - 2 * YA) * DD
      x0 == CeilDiv(P0, Q2)
      r == P0 - x0 * Q2
      e2 == IF DD >= 0 THEN r ELSE -r - Q2 + 1
  IN  [x0 |-> x0, mag |-> 2 * Abs(DD), dy |-> 2 * HH, sgn |-> Sign(DD), err |-> CeilDiv(e2, M)]

EdgeVanishes(height, s) == Abs(height) \div 2^(SubBits - s) = 0

(* The registers of an edge, as a trapezoid carries them.                  *)
Registers(l, r, y, h) ==
  [y |-> y, h |-> h, left |-> l.x0, right |-> r.x0,
   ar0 |-> l.dy, ar2 |-> -l.mag, ar1 |-> -l.mag - l.err,
   ar6 |-> r.dy, ar5 |-> -r.mag, ar4 |-> -r.mag - r.err,
   sgn |-> (IF l.sgn < 0 THEN {"left"} ELSE {}) \cup (IF r.sgn < 0 THEN {"right"} ELSE {})]
Walked(le, re, y, h, s) == Registers(EdgeRegs(le, y, s), EdgeRegs(re, y, s), y, h)

FirstDrawnZero(le, re, r0, h, s) == 0        \* mutant: the empty rows at the top are kept
(* osmgaFirstDrawn: the first row with a pixel; h when there is none.      *)
FirstDrawn(le, re, r0, h, s) ==
  LET t == Walked(le, re, r0, h, s) IN Min({h} \cup DrawnRows(t))

-----------------------------------------------------------------------------
(* Planes over the triangle: a value at the first corner and the slopes    *)
(* per subpixel, numerators over den.                                      *)

Doubled(tri) ==
  (tri[2].x - tri[1].x) * (tri[3].y - tri[1].y) - (tri[3].x - tri[1].x) * (tri[2].y - tri[1].y)
Plane(tri, va, vb, vc) ==
  LET s == Sign(Doubled(tri))
  IN  [at |-> va, den |-> Abs(Doubled(tri)),
       dx |-> s * ((vb - va) * (tri[3].y - tri[1].y) - (vc - va) * (tri[2].y - tri[1].y)),
       dy |-> s * ((vc - va) * (tri[2].x - tri[1].x) - (vb - va) * (tri[3].x - tri[1].x))]
(* The plane at the centre of pixel (x, y), over twice its denominator.    *)
AtCentre(p, a, x, y) ==
  2 * p.at * p.den + p.dx * (2 * SubOne * x + SubOne - 2 * a.x)
                   + p.dy * (2 * SubOne * y + SubOne - 2 * a.y)

Clamped(v, lo, hi) == Max({lo, Min({v, hi})})
RoundHalfUp(n, d) == (2 * n + d) \div (2 * d)                    \* osmgaRound
RoundHalfAway(n, d) == Sign(n) * ((2 * Abs(n) + d) \div (2 * d)) \* osmgaFixed
ChannelOne == 2^FracBits

(* A start is held to its range and stands half a unit up; a slope is held *)
(* to the range: osmgaStartFixed, osmgaClampSlope and their depth likes.   *)
StartFixedPlain(n, d, max) ==                \* mutant: no half unit is added
  RoundHalfAway(Clamped(n, 0, max * d) * ChannelOne, d)
StartFixed(n, d, max) ==
  RoundHalfAway(Clamped(n, 0, max * d) * ChannelOne, d) + ChannelOne \div 2
SlopeFixed(n, d, max) == RoundHalfAway(Clamped(n, -max * d, max * d) * ChannelOne, d)
Interpolated(p, a, x, y, max) ==
  <<StartFixed(AtCentre(p, a, x, y), 2 * p.den, max),
    SlopeFixed(p.dx * SubOne, p.den, max), SlopeFixed(p.dy * SubOne, p.den, max)>>

(* A depth that climbs past its range within a pixel is made flat.         *)
DepthPlane(tri) ==
  LET p == Plane(tri, tri[1].z, tri[2].z, tri[3].z)
  IN  IF Abs(p.dx) * SubOne > DepthMax * p.den THEN [p EXCEPT !.dx = 0, !.dy = 0] ELSE p
(* glPolygonOffset: refused when a corner leaves the range.                *)
OffsetOK(tri, offset) ==
  offset = 0 \/
  LET p == [DepthPlane(tri) EXCEPT !.at = @ + offset]
  IN  \A i \in 1..3 :
        p.at * p.den + p.dx * (tri[i].x - tri[1].x) + p.dy * (tri[i].y - tri[1].y)
          \in 0..(DepthMax * p.den)

-----------------------------------------------------------------------------
(* The texture anchor, for vertices of one weight.  A coordinate is given  *)
(* in units of which Span make one repeat.                                 *)

(* osmgaMesaRebaseK: the whole repeats to take off; there may be no such.  *)
RebaseKs(lo, hi) == CeilDiv(hi - 8 * Span, Span)..FloorDiv(lo + Span, Span)
RebaseK(lo, hi) ==
  Clamped(FloorDiv(lo + hi - 6 * Span, 2 * Span), Min(RebaseKs(lo, hi)), Max(RebaseKs(lo, hi)))
Rebased(values, repeats) ==
  LET lo == Min({values[1], values[2], values[3]})
      hi == Max({values[1], values[2], values[3]})
  IN  IF repeats /\ (lo < 0 \/ hi > 8 * Span) /\ RebaseKs(lo, hi) # {}
      THEN [i \in 1..3 |-> values[i] - RebaseK(lo, hi) * Span] ELSE values
TexInRange(values) == \A i \in 1..3 : values[i] \in -Span..CoordMax

-----------------------------------------------------------------------------
(* OSMGAMesaBuildTriangleTex.                                              *)

CoordOK(v) == Abs(v.x) <= CoordLimit * SubOne /\ Abs(v.y) <= CoordLimit * SubOne

(* The three comparisons and swaps; a stable order.                        *)
ByY(tri) ==
  LET one == IF tri[1].y > tri[2].y THEN <<tri[2], tri[1], tri[3]>> ELSE tri
      two == IF one[2].y > one[3].y THEN <<one[1], one[3], one[2]>> ELSE one
  IN  IF two[1].y > two[2].y THEN <<two[2], two[1], two[3]>> ELSE two

(* The finest precision whose walk stays under the engine's.               *)
Quotient(a, b) == Sign(a) * (Abs(a) \div b)            \* C's division
Worst(v, s) ==
  LET step == 2^(SubBits - s)
  IN  Max({2 * (Abs(Quotient(v[j].x - v[i].x, step)) + Abs(Quotient(v[j].y - v[i].y, step))) :
           i \in 1..3, j \in 1..3})
Precision(v) == Max({0} \cup {s \in 1..SubBits : Worst(v, s) <= EdgeWalk})

RowOf(y) == CeilDiv(y - SubOne \div 2, SubOne)

(* The middle corner is on one side of the long edge all the way down.    *)
LongIsLeft(v) ==
  (v[3].x - v[1].x) * (v[2].y - v[1].y) < (v[3].y - v[1].y) * (v[2].x - v[1].x)

(* One half: between two vertices, the long edge beside the short one;     *)
(* no trapezoid when no row of it has a pixel.                             *)
HalfRows(v, from, to) == IF v[to].y > v[from].y THEN RowOf(v[to].y) - RowOf(v[from].y) ELSE 0
Between(le, re, first, rows, skip, s) ==
  IF rows <= 0 \/ skip >= rows THEN <<>> ELSE <<Walked(le, re, first + skip, rows - skip, s)>>
DrawnPart(le, re, first, rows, s) ==
  Between(le, re, first, rows, FirstDrawn(le, re, first, rows, s), s)
Half(v, from, to, s) ==
  LET long == Edge(v[1], v[3])
      short == Edge(v[from], v[to])
  IN  DrawnPart(IF LongIsLeft(v) THEN long ELSE short, IF LongIsLeft(v) THEN short ELSE long,
                RowOf(v[from].y), HalfRows(v, from, to), s)
(* At a coarse precision an edge may have no height left to walk.          *)
HalfVanishes(v, from, to, s) ==
  /\ HalfRows(v, from, to) > 0
  /\ EdgeVanishes(v[3].y - v[1].y, s) \/ EdgeVanishes(v[to].y - v[from].y, s)

(* What a trapezoid of the triangle carries besides: its words, a channel  *)
(* for the four, its depth and its anchors, all at its first pixel.  Its   *)
(* columns share a word of 16 bits each.                                   *)
ColourOf(t, tri) ==
  Interpolated(Plane(tri, tri[1].c, tri[2].c, tri[3].c), tri[1], t.left, t.y, ChannelMax)
DepthOf(t, tri, offset) ==
  Interpolated([DepthPlane(tri) EXCEPT !.at = @ + offset], tri[1], t.left, t.y, DepthMax)
AnchorOf(t, tri, u) ==
  LET p == Plane(tri, u[1], u[2], u[3]) IN RoundHalfUp(AtCentre(p, tri[1], t.left, t.y), 2 * p.den)
Dressed(t, tri, u, prim, offset) ==
  LET colour == ColourOf(t, tri)
  IN  [y |-> t.y, h |-> t.h, left |-> t.left % 65536, right |-> t.right % 65536, sgn |-> t.sgn,
       ar0 |-> t.ar0, ar1 |-> t.ar1, ar2 |-> t.ar2, ar4 |-> t.ar4, ar5 |-> t.ar5, ar6 |-> t.ar6,
       prim |-> prim, colour |-> colour, dr |-> {colour[i] : i \in 1..3},
       depth |-> DepthOf(t, tri, offset),
       tu0 |-> IF prim.opcode = OpTex THEN AnchorOf(t, tri, u) ELSE 0, tv0 |-> 0, tq0 |-> QOne]

(* The slopes the batch holds: affine, no denominator.                     *)
TmrOf(tri, u) ==
  LET p == Plane(tri, u[1], u[2], u[3])
  IN  <<RoundHalfUp(p.dx * SubOne, p.den), RoundHalfUp(p.dy * SubOne, p.den), 0, 0, 0, 0>>

(* The answer: [ok, tris, tmr]; not ok is the software's.                  *)
BuildTriangle(tri, prim, repeats, offset) ==
  LET v == ByY(tri)
      s == Precision(v)
      u == Rebased(<<tri[1].u, tri[2].u, tri[3].u>>, repeats)
      halves == Half(v, 1, 2, s) \o Half(v, 2, 3, s)
      no == [ok |-> FALSE, tris |-> <<>>, tmr |-> <<0, 0, 0, 0, 0, 0>>]
  IN  IF \E i \in 1..3 : ~CoordOK(tri[i]) THEN no
      ELSE IF Doubled(tri) = 0 THEN [no EXCEPT !.ok = TRUE]
      ELSE IF ~OffsetOK(tri, offset) THEN no
      ELSE IF prim.opcode = OpTex /\ ~TexInRange(u) THEN no
      ELSE IF HalfVanishes(v, 1, 2, s) \/ HalfVanishes(v, 2, 3, s) THEN no
      ELSE [ok |-> TRUE, tmr |-> TmrOf(tri, u),
            tris |-> [i \in DOMAIN halves |-> Dressed(halves[i], tri, u, prim, offset)]]
=============================================================================
