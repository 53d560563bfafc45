-------------------------- MODULE TrianglePath_proofs --------------------------
(* Proofs about the triangles of BatchPath: what the trapezoids of the builder *)
(* cover, which values they carry and what the driver says of their shape, for *)
(* any triangles, windows and field widths; and about HookPath: that what the  *)
(* gate admits is drawn.                                                       *)
EXTENDS BatchPath_proofs, HookPath

-------------------------------------------------------------------------------
(* How an edge is walked: the column of its closed form, and of its centre.  *)

\* A quotient rounded up is the least integer that is not short of it.
LEMMA CeilIs ==
  ASSUME NEW a \in Int, NEW b \in Nat \ {0}
  PROVE  /\ CeilDiv(a, b) \in Int
         /\ b * (CeilDiv(a, b) - 1) < a /\ a <= b * CeilDiv(a, b)
<1>1. PICK n \in Int : n = -a
  OBVIOUS
<1>2. PICK d \in Int : d = n \div b /\ n - d * b \in 0..(b - 1)
  BY DivisionIs
<1>3. CeilDiv(a, b) = -d
  BY <1>1, <1>2 DEF CeilDiv
<1>4. PICK m \in Int : m = d * b
  OBVIOUS
<1>5. b * (-d) = -m /\ b * (-d - 1) = -m - b
  BY <1>4
<1> QED BY <1>1, <1>2, <1>3, <1>4, <1>5

\* An error that starts above minus the divisor, and not above nought, has taken as
\* many columns before row k as its sum holds divisors, rounded up.
LEMMA ColumnsAre ==
  ASSUME NEW err \in Int, NEW mag \in Nat, NEW D \in Nat \ {0}, NEW k \in Nat,
         -D < err, err <= 0
  PROVE  LET C == Columns(-mag - err, -mag, D, k)
         IN  C \in Int /\ D * (C - 1) < err + k * mag /\ err + k * mag <= D * C
<1> DEFINE C == Columns(-mag - err, -mag, D, k)
<1>1. PICK s \in Nat : s = k * mag
  OBVIOUS
<1>2. k = 0 => s = 0
  BY <1>1
<1>3. k * (-mag) = -s
  BY <1>1
<1>4. PICK t \in Int : t = k * (-mag) /\ t = -s
  BY <1>3
<1>5. PICK z \in Int : z = 0 - (err + s)
  OBVIOUS
<1>6. C = IF k = 0 THEN 0 ELSE IF z >= 0 THEN 0 ELSE -(z \div D)
  <2>1. (-mag - err) - (-mag) + k * (-mag) = z
    BY <1>4, <1>5
  <2> QED BY <2>1 DEF Columns
<1>7. CASE k = 0 \/ z >= 0
  <2>1. C = 0 /\ err + s <= 0 /\ -D < err + s
    BY <1>2, <1>5, <1>6, <1>7
  <2>2. D * (C - 1) = -D /\ D * C = 0
    BY <2>1
  <2> QED BY <1>1, <2>1, <2>2
<1>8. CASE ~(k = 0 \/ z >= 0)
  <2>1. C = CeilDiv(err + s, D)
    <3>1. -(err + s) = z
      BY <1>5
    <3> QED BY <1>6, <1>8, <3>1 DEF CeilDiv
  <2> QED BY <1>1, <2>1, CeilIs
<1> QED BY <1>7, <1>8

\* The walk of an edge down k rows: the columns it comes to are the quotient of its
\* own numerator, rounded up, though what is walked is that of each row in turn.
LEMMA WalkIs ==
  ASSUME NEW M \in Nat \ {0}, NEW D \in Nat \ {0}, NEW G \in Int, NEW k \in Nat,
         NEW P \in Int, NEW x0 \in Int, M * D * (x0 - 1) < P, P <= M * D * x0,
         NEW e2 \in Int, e2 = IF G >= 0 THEN P - x0 * (M * D) ELSE -(P - x0 * (M * D)) - M * D + 1
  PROVE  LET err == CeilDiv(e2, M)
             X == x0 + Sign(G) * Columns(-(2 * Abs(G)) - err, -(2 * Abs(G)), D, k)
         IN  /\ X \in Int
             /\ M * D * (X - 1) < P + k * (2 * M * G) /\ P + k * (2 * M * G) <= M * D * X
<1>1. PICK Q \in Nat \ {0} : Q = M * D
  <2>1. M * D \in Nat \ {0}
    OBVIOUS
  <2> QED BY <2>1
<1>2. PICK mag \in Nat : mag = 2 * Abs(G)
  BY DEF Abs
<1>3. PICK q \in Int : q = x0 * Q
  OBVIOUS
<1>4. Q * (x0 - 1) = q - Q /\ Q * x0 = q
  BY <1>3
<1>5. q - Q < P /\ P <= q
  BY <1>1, <1>4
<1>6. e2 = IF G >= 0 THEN P - q ELSE q - P - Q + 1
  BY <1>1, <1>3
<1>7. -Q < e2 /\ e2 <= 0
  BY <1>5, <1>6
<1>8. PICK err \in Int : err = CeilDiv(e2, M) /\ M * (err - 1) < e2 /\ e2 <= M * err
  BY CeilIs
<1>9. PICK me \in Int : me = M * err
  OBVIOUS
<1>10. me - M < e2 /\ e2 <= me
  <2>1. M * (err - 1) = me - M
    BY <1>9
  <2> QED BY <1>8, <1>9, <2>1
<1>11. err <= 0
  <2>1. M * (err - 1) < 0
    BY <1>7, <1>8
  <2>2. err >= 1 => M * (err - 1) >= 0
    OBVIOUS
  <2> QED BY <2>1, <2>2
<1>12. -D < err
  <2>1. err <= -D => M * err <= -(M * D)
    OBVIOUS
  <2> QED BY <1>1, <1>7, <1>8, <2>1
<1>13. PICK C \in Int : /\ C = Columns(-mag - err, -mag, D, k)
                        /\ D * (C - 1) < err + k * mag /\ err + k * mag <= D * C
  <2> DEFINE c == Columns(-mag - err, -mag, D, k)
  <2>1. c \in Int /\ D * (c - 1) < err + k * mag /\ err + k * mag <= D * c
    BY <1>11, <1>12, ColumnsAre
  <2> HIDE DEF c
  <2>2. \E C \in Int : C = c /\ D * (C - 1) < err + k * mag /\ err + k * mag <= D * C
    BY <2>1
  <2> QED BY <2>2 DEF c
<1>14. PICK s \in Nat : s = k * mag
  OBVIOUS
<1>15. PICK dc \in Int, qc \in Int, ms \in Int : dc = D * C /\ qc = Q * C /\ ms = M * s
  OBVIOUS
<1>16. qc = M * dc
  BY <1>1, <1>15
<1>17. me + ms <= qc
  <2>1. err + s <= dc
    BY <1>13, <1>14, <1>15
  <2>2. M * (err + s) <= M * dc
    BY <2>1
  <2>3. M * (err + s) = me + ms
    BY <1>9, <1>15
  <2> QED BY <1>16, <2>2, <2>3
<1>18. qc - Q + M <= me + ms
  <2>1. D * (C - 1) = dc - D
    BY <1>15
  <2>2. dc - D + 1 <= err + s
    BY <1>13, <1>14, <2>1
  <2>3. M * (dc - D + 1) <= M * (err + s)
    BY <2>2
  <2>4. M * (dc - D + 1) = M * dc - M * D + M
    OBVIOUS
  <2>5. M * (err + s) = me + ms
    BY <1>9, <1>15
  <2> QED BY <1>1, <1>16, <2>3, <2>4, <2>5
<1>19. qc - Q < e2 + ms /\ e2 + ms <= qc
  BY <1>10, <1>17, <1>18
<1>20. PICK X \in Int : X = x0 + Sign(G) * C
  BY DEF Sign
<1>21. PICK g \in Int : g = k * (2 * M * G)
  OBVIOUS
<1>22. CASE G >= 0
  <2>1. X = x0 + C /\ g = ms
    <3>1. mag = 2 * G
      BY <1>2, <1>22 DEF Abs
    <3>2. k * (2 * M * G) = M * (k * (2 * G))
      OBVIOUS
    <3> QED BY <1>14, <1>15, <1>20, <1>21, <1>22, <3>1, <3>2 DEF Sign
  <2>2. Q * X = q + qc /\ Q * (X - 1) = q + qc - Q
    BY <1>3, <1>15, <2>1
  <2>3. e2 = P - q
    BY <1>6, <1>22
  <2>4. Q * (X - 1) < P + g /\ P + g <= Q * X
    BY <1>19, <2>1, <2>2, <2>3
  <2> QED BY <1>1, <1>2, <1>8, <1>13, <1>20, <1>21, <2>4
<1>23. CASE ~(G >= 0)
  <2>1. X = x0 - C /\ g = -ms
    <3>1. mag = -(2 * G)
      BY <1>2, <1>23 DEF Abs
    <3>2. k * (2 * M * G) = -(M * (k * (-(2 * G))))
      OBVIOUS
    <3> QED BY <1>14, <1>15, <1>20, <1>21, <1>23, <3>1, <3>2 DEF Sign
  <2>2. Q * X = q - qc /\ Q * (X - 1) = q - qc - Q
    BY <1>3, <1>15, <2>1
  <2>3. e2 = q - P - Q + 1
    BY <1>6, <1>23
  <2>4. Q * (X - 1) < P + g /\ P + g <= Q * X
    BY <1>19, <2>1, <2>2, <2>3
  <2> QED BY <1>1, <1>2, <1>8, <1>13, <1>20, <1>21, <2>4
<1> QED BY <1>22, <1>23

\* A subpixel is a whole part of half a pixel.
LEMMA HalfOne == \E H \in Nat \ {0} : SubOne = 2 * H /\ SubOne \div 2 = H
<1> DEFINE Factor(k) == 2^k
<1>1. \/ SubBits = 1 \/ SubBits = 2 \/ SubBits = 3 \/ SubBits = 4
      \/ SubBits = 5 \/ SubBits = 6 \/ SubBits = 7 \/ SubBits = 8
  BY SubBitsAssumption
<1>2. /\ Factor(1) = 2 * 1 /\ Factor(2) = 2 * 2 /\ Factor(3) = 2 * 4 /\ Factor(4) = 2 * 8
      /\ Factor(5) = 2 * 16 /\ Factor(6) = 2 * 32 /\ Factor(7) = 2 * 64 /\ Factor(8) = 2 * 128
  OBVIOUS
<1>3. SubOne = Factor(SubBits)
  BY DEF SubOne
<1> HIDE DEF Factor
<1>4. \E H \in {1, 2, 4, 8, 16, 32, 64, 128} : SubOne = 2 * H
  BY <1>1, <1>2, <1>3
<1>5. PICK H \in {1, 2, 4, 8, 16, 32, 64, 128} : SubOne = 2 * H
  BY <1>4
<1>6. H \in Nat \ {0} /\ (2 * H) \div 2 = H
  OBVIOUS
<1> QED BY <1>5, <1>6

\* The centre of a pixel, in subpixels.
Centre(x, y) == [x |-> SubOne * x + SubOne \div 2, y |-> SubOne * y + SubOne \div 2]

LEMMA CentreIs ==
  ASSUME NEW x \in Int, NEW y \in Int
  PROVE  Centre(x, y).x \in Int /\ Centre(x, y).y \in Int
<1>1. PICK H \in Nat \ {0} : SubOne = 2 * H /\ SubOne \div 2 = H
  BY HalfOne
<1> QED BY <1>1 DEF Centre

\* The column the edge from p down to q is walked to from row r0 in k rows, at full
\* precision, is the first whose centre is not left of it.
IsPoint(p) == p.x \in Int /\ p.y \in Int
ColumnOf(p, q, r0, k) ==
  LET g == EdgeRegs(Edge(p, q), r0, SubBits)
  IN  g.x0 + Sign(g.sgn) * Columns(-g.mag - g.err, -g.mag, g.dy, k)
LEMMA EdgeColumn ==
  ASSUME NEW p, IsPoint(p), NEW q, IsPoint(q), q.y > p.y, NEW r0 \in Int, NEW k \in Nat
  PROVE  /\ ColumnOf(p, q, r0, k) \in Int
         /\ \A x \in Int : ColumnOf(p, q, r0, k) <= x <=> Inward(p, q, Centre(x, r0 + k)) <= 0
<1> DEFINE e == Edge(p, q)
           step == 2^(SubBits - SubBits)
           XA == FloorDiv(e.xa, step)
           YA == FloorDiv(e.ya, step)
           DD == FloorDiv(e.dee, step)
           HH == FloorDiv(e.height, step)
           Q2 == 2 * SubOne * HH
           P0 == 2 * XA * HH - SubOne * HH + ((2 * r0 + 1) * SubOne - 2 * YA) * DD
           x0 == CeilDiv(P0, Q2)
           r == P0 - x0 * Q2
           e2 == IF DD >= 0 THEN r ELSE -r - Q2 + 1
           g == EdgeRegs(e, r0, SubBits)
<1>1. g = [x0 |-> x0, mag |-> 2 * Abs(DD), dy |-> 2 * HH, sgn |-> Sign(DD), err |-> CeilDiv(e2, SubOne)]
  BY DEF EdgeRegs, SubOne
<1>2. PICK H \in Nat \ {0} : SubOne = 2 * H /\ SubOne \div 2 = H
  BY HalfOne
<1>3. PICK M \in Nat \ {0} : M = 2 * H /\ M = SubOne
  BY <1>2
<1>4. PICK h \in Nat \ {0} : h = q.y - p.y
  BY DEF IsPoint
<1>5. PICK d \in Int : d = q.x - p.x
  BY DEF IsPoint
<1>6. PICK px \in Int, py \in Int : px = p.x /\ py = p.y
  BY DEF IsPoint
<1>7. XA = px /\ YA = py /\ DD = d /\ HH = h
  <2>1. step = 1
    <3> DEFINE Factor(n) == 2^n
    <3>1. SubBits - SubBits = 0
      BY SubBitsAssumption
    <3>2. Factor(0) = 1
      OBVIOUS
    <3>3. step = Factor(SubBits - SubBits)
      OBVIOUS
    <3> HIDE DEF Factor, step
    <3> QED BY <3>1, <3>2, <3>3
  <2>2. e.xa = px /\ e.ya = py /\ e.dee = d /\ e.height = h
    BY <1>4, <1>5, <1>6 DEF Edge
  <2> HIDE DEF step, e
  <2> QED BY <2>1, <2>2 DEF FloorDiv
<1> HIDE DEF XA, YA, DD, HH, e, step
<1>8. PICK Q \in Nat \ {0} : Q = 2 * M * h
  <2>1. 2 * M * h \in Nat \ {0}
    OBVIOUS
  <2> QED BY <2>1
<1>9. PICK P \in Int : P = 2 * px * h - M * h + ((2 * r0 + 1) * M - 2 * py) * d
  OBVIOUS
<1>10. Q2 = Q /\ P0 = P
  BY <1>3, <1>7, <1>8, <1>9
<1> HIDE DEF Q2, P0
<1>11. x0 \in Int /\ Q * (x0 - 1) < P /\ P <= Q * x0
  BY <1>10, CeilIs
<1>12. PICK X0 \in Int : X0 = x0
  BY <1>11
<1>13. PICK f \in Int : f = IF d >= 0 THEN P - X0 * Q ELSE -(P - X0 * Q) - Q + 1
  <2> DEFINE F == IF d >= 0 THEN P - X0 * Q ELSE -(P - X0 * Q) - Q + 1
  <2>1. F \in Int
    OBVIOUS
  <2> HIDE DEF F
  <2>2. \E f \in Int : f = F
    BY <2>1
  <2> QED BY <2>2 DEF F
<1>14. e2 = f
  BY <1>7, <1>10, <1>12, <1>13
<1> HIDE DEF x0, r, e2
<1>15. PICK err : err = CeilDiv(f, M)
  OBVIOUS
<1>16. ColumnOf(p, q, r0, k) = X0 + Sign(d) * Columns(-(2 * Abs(d)) - err, -(2 * Abs(d)), 2 * h, k)
  <2>1. /\ g.x0 = X0 /\ g.mag = 2 * Abs(d) /\ g.dy = 2 * h /\ g.sgn = Sign(d) /\ g.err = err
    BY <1>1, <1>3, <1>7, <1>12, <1>14, <1>15
  <2>2. Sign(Sign(d)) = Sign(d)
    BY DEF Sign
  <2>3. ColumnOf(p, q, r0, k) = g.x0 + Sign(g.sgn) * Columns(-g.mag - g.err, -g.mag, g.dy, k)
    BY DEF ColumnOf, e
  <2> HIDE DEF g
  <2> QED BY <2>1, <2>2, <2>3
<1> HIDE DEF g
<1>17. PICK D \in Nat \ {0} : D = 2 * h
  OBVIOUS
<1>18. M * D = Q
  BY <1>8, <1>17
<1> DEFINE X == X0 + Sign(d) * Columns(-(2 * Abs(d)) - err, -(2 * Abs(d)), D, k)
<1>19. X \in Int /\ Q * (X - 1) < P + k * (2 * M * d) /\ P + k * (2 * M * d) <= Q * X
  <2>1. M * D * (X0 - 1) < P /\ P <= M * D * X0
    BY <1>11, <1>12, <1>18
  <2>2. f = IF d >= 0 THEN P - X0 * (M * D) ELSE -(P - X0 * (M * D)) - M * D + 1
    BY <1>13, <1>18
  <2> QED BY <1>15, <1>18, <2>1, <2>2, WalkIs
<1>20. X = ColumnOf(p, q, r0, k)
  BY <1>16, <1>17
<1> HIDE DEF X
<1>21. PICK y \in Int : y = r0 + k
  OBVIOUS
<1>22. PICK R \in Int : R = (M * y + H - py) * d
  OBVIOUS
<1>23. P + k * (2 * M * d) = 2 * ((px - H) * h + R)
  <2>1. (2 * r0 + 1) * M - 2 * py + 2 * M * k = 2 * (M * y + H - py)
    BY <1>3, <1>21
  <2>2. ((2 * r0 + 1) * M - 2 * py) * d + k * (2 * M * d) = ((2 * r0 + 1) * M - 2 * py + 2 * M * k) * d
    OBVIOUS
  <2>3. (2 * (M * y + H - py)) * d = 2 * R
    BY <1>22
  <2>4. 2 * px * h - M * h = 2 * ((px - H) * h)
    BY <1>3
  <2>5. ((2 * r0 + 1) * M - 2 * py) * d + k * (2 * M * d) = 2 * R
    BY <2>1, <2>2, <2>3
  <2> QED BY <1>9, <2>4, <2>5
<1>24. ASSUME NEW x \in Int PROVE X <= x <=> Inward(p, q, Centre(x, y)) <= 0
  <2>1. Inward(p, q, Centre(x, y)) = d * (M * y + H - py) - h * (M * x + H - px)
    BY <1>2, <1>3, <1>4, <1>5, <1>6 DEF Inward, Centre
  <2>2. PICK U \in Int : U = (px - H) * h
    OBVIOUS
  <2>3. PICK W \in Int : W = M * h * x
    OBVIOUS
  <2>4. h * (M * x + H - px) = W - U
    BY <2>2, <2>3
  <2>5. Inward(p, q, Centre(x, y)) = R - W + U
    BY <1>22, <2>1, <2>4
  <2>6. Q * x = 2 * W
    BY <1>8, <2>3
  <2>7. Q * (X - 1) < 2 * (U + R) /\ 2 * (U + R) <= Q * X
    BY <1>19, <1>23, <2>2
  <2>8. X <= x => Q * X <= Q * x
    BY <1>19
  <2>9. ~(X <= x) => Q * x <= Q * (X - 1)
    BY <1>19
  <2> QED BY <1>19, <2>5, <2>6, <2>7, <2>8, <2>9
<1> QED BY <1>19, <1>20, <1>21, <1>24
-----------------------------------------------------------------------------
(* The fill rule.                                                            *)

\* A product has the sign its factors give it.
LEMMA Signs ==
  ASSUME NEW a \in Int, NEW b \in Int
  PROVE  /\ a * b \in Int
         /\ (a >= 0 /\ b >= 0) => a * b >= 0
         /\ (a > 0 /\ b > 0) => a * b > 0
         /\ (a >= 0 /\ b <= 0) => a * b <= 0
         /\ (a > 0 /\ b < 0) => a * b < 0
         /\ (a <= 0 /\ b >= 0) => a * b <= 0
         /\ (a < 0 /\ b > 0) => a * b < 0
         /\ (a <= 0 /\ b <= 0) => a * b >= 0
         /\ (a < 0 /\ b < 0) => a * b > 0
         /\ (a = 0 \/ b = 0) => a * b = 0
OBVIOUS

\* An edge has a point on the inner side of it, or on it when it is a left or a top one.
Has(s, p, q, v) ==
  LET e == s * Inward(p, q, v)
  IN  \/ e > 0
      \/ e = 0 /\ (s * (q.y - p.y) < 0 \/ (q.y = p.y /\ s * (q.x - p.x) > 0))
Twice(a, b, c) == (b.x - a.x) * (c.y - a.y) - (c.x - a.x) * (b.y - a.y)
Inside(a, b, c, v) ==
  LET s == Sign(Twice(a, b, c)) IN Has(s, a, b, v) /\ Has(s, b, c, v) /\ Has(s, c, a, v)

LEMMA CoversIs ==
  ASSUME NEW tri, NEW x \in Int, NEW y \in Int
  PROVE  /\ Doubled(tri) = Twice(tri[1], tri[2], tri[3])
         /\ Covers(tri, x, y) <=> Inside(tri[1], tri[2], tri[3], Centre(x, y))
<1> DEFINE s == Sign(Doubled(tri))
           v == Centre(x, y)
<1>1. Doubled(tri) = Twice(tri[1], tri[2], tri[3])
  BY DEF Doubled, Twice
<1>2. Covers(tri, x, y) <=> \A i \in 1..3 : Has(s, tri[i], tri[(i % 3) + 1], v)
  BY Zenon DEF Covers, Has, Centre
<1>3. (1 % 3) + 1 = 2 /\ (2 % 3) + 1 = 3 /\ (3 % 3) + 1 = 1 /\ 1..3 = {1, 2, 3}
  OBVIOUS
<1>4. Inside(tri[1], tri[2], tri[3], v) <=>
        Has(s, tri[1], tri[2], v) /\ Has(s, tri[2], tri[3], v) /\ Has(s, tri[3], tri[1], v)
  BY <1>1 DEF Inside
<1> HIDE DEF s, v
<1>5. (\A i \in 1..3 : Has(s, tri[i], tri[(i % 3) + 1], v)) <=>
        Has(s, tri[1], tri[2], v) /\ Has(s, tri[2], tri[3], v) /\ Has(s, tri[3], tri[1], v)
  BY <1>3
<1> QED BY <1>1, <1>2, <1>4, <1>5 DEF v

\* Nothing of that depends on the order the corners are told in.
LEMMA HasTurned ==
  ASSUME NEW p, IsPoint(p), NEW q, IsPoint(q), NEW v, IsPoint(v), NEW s \in {-1, 1}
  PROVE  Inward(q, p, v) = -Inward(p, q, v) /\ Inward(p, q, v) \in Int
         /\ (Has(-s, q, p, v) <=> Has(s, p, q, v))
<1>1. Inward(q, p, v) = -Inward(p, q, v) /\ Inward(p, q, v) \in Int
  BY DEF Inward, IsPoint
<1>2. PICK w \in Int : w = Inward(p, q, v)
  BY <1>1
<1>3. (-s) * (-w) = s * w
  OBVIOUS
<1>4. (-s) * (p.y - q.y) = s * (q.y - p.y) /\ (-s) * (p.x - q.x) = s * (q.x - p.x)
  BY DEF IsPoint
<1>5. q.y = p.y <=> p.y = q.y
  OBVIOUS
<1> QED BY <1>1, <1>2, <1>3, <1>4, <1>5 DEF Has

LEMMA InsideTurned ==
  ASSUME NEW a, IsPoint(a), NEW b, IsPoint(b), NEW c, IsPoint(c), NEW v, IsPoint(v),
         Twice(a, b, c) # 0
  PROVE  /\ Twice(b, a, c) # 0 /\ Twice(a, c, b) # 0
         /\ Inside(b, a, c, v) <=> Inside(a, b, c, v)
         /\ Inside(a, c, b, v) <=> Inside(a, b, c, v)
<1>1. Twice(b, a, c) = -Twice(a, b, c) /\ Twice(a, c, b) = -Twice(a, b, c) /\ Twice(a, b, c) \in Int
  BY DEF Twice, IsPoint
<1>2. PICK s \in {-1, 1} : s = Sign(Twice(a, b, c))
  BY DEF Sign
<1>3. Sign(Twice(b, a, c)) = -s /\ Sign(Twice(a, c, b)) = -s
  BY <1>1, <1>2 DEF Sign
<1>4. /\ Has(-s, b, a, v) <=> Has(s, a, b, v)
      /\ Has(-s, c, b, v) <=> Has(s, b, c, v)
      /\ Has(-s, a, c, v) <=> Has(s, c, a, v)
  BY HasTurned
<1> QED BY <1>1, <1>2, <1>3, <1>4 DEF Inside

LEMMA InsideSorted ==
  ASSUME NEW tri, IsTriangle(tri), Doubled(tri) # 0, NEW x \in Int, NEW y \in Int
  PROVE  /\ Doubled(ByY(tri)) # 0
         /\ Covers(tri, x, y) <=> Inside(ByY(tri)[1], ByY(tri)[2], ByY(tri)[3], Centre(x, y))
<1> DEFINE one == IF tri[1].y > tri[2].y THEN <<tri[2], tri[1], tri[3]>> ELSE tri
           two == IF one[2].y > one[3].y THEN <<one[1], one[3], one[2]>> ELSE one
           three == IF two[1].y > two[2].y THEN <<two[2], two[1], two[3]>> ELSE two
           v == Centre(x, y)
           Good(t) == /\ IsPoint(t[1]) /\ IsPoint(t[2]) /\ IsPoint(t[3])
                      /\ Twice(t[1], t[2], t[3]) # 0
                      /\ Covers(tri, x, y) <=> Inside(t[1], t[2], t[3], v)
<1>1. IsPoint(v)
  BY CentreIs DEF IsPoint
<1> HIDE DEF v
<1>2. Good(tri)
  <2>1. \A i \in 1..3 : IsPoint(tri[i])
    BY DEF IsTriangle, IsPoint
  <2>2. IsPoint(tri[1]) /\ IsPoint(tri[2]) /\ IsPoint(tri[3])
    BY <2>1
  <2> QED BY <2>2, CoversIs DEF v
<1>3. ASSUME NEW t, Good(t) PROVE Good(<<t[2], t[1], t[3]>>) /\ Good(<<t[1], t[3], t[2]>>)
  BY <1>1, <1>3, InsideTurned
<1>4. ByY(tri) = three
  BY DEF ByY
<1> HIDE DEF Good
<1>5. Good(one)
  BY <1>2, <1>3
<1> HIDE DEF one
<1>6. Good(two)
  BY <1>3, <1>5
<1> HIDE DEF two
<1>7. Good(three)
  BY <1>3, <1>6
<1> HIDE DEF three
<1> QED BY <1>4, <1>7, CoversIs DEF Good, v

\* Weighted with the doubled areas they look down on, the corners balance in any point.
LEMMA Areas ==
  ASSUME NEW ax \in Int, NEW ay \in Int, NEW bx \in Int, NEW by \in Int
  PROVE  (bx - ax) * (0 - ay) - (by - ay) * (0 - ax) = by * ax - ay * bx
OBVIOUS

LEMMA Balanced ==
  ASSUME NEW ax \in Int, NEW ay \in Int, NEW bx \in Int, NEW by \in Int, NEW cx \in Int, NEW cy \in Int
  PROVE  LET p == by * ax - ay * bx
             q == cy * bx - by * cx
             r == ay * cx - cy * ax
         IN  /\ p \in Int /\ q \in Int /\ r \in Int
             /\ p + q + r = (bx - ax) * (cy - ay) - (cx - ax) * (by - ay)
             /\ q * ay + r * by + p * cy = 0 /\ q * ax + r * bx + p * cx = 0
OBVIOUS

LEMMA Balance ==
  ASSUME NEW a, IsPoint(a), NEW b, IsPoint(b), NEW c, IsPoint(c), NEW v, IsPoint(v)
  PROVE  /\ Inward(a, b, v) + Inward(b, c, v) + Inward(c, a, v) = Twice(a, b, c)
         /\ Inward(b, c, v) * (a.y - v.y) + Inward(c, a, v) * (b.y - v.y)
              + Inward(a, b, v) * (c.y - v.y) = 0
         /\ Inward(b, c, v) * (a.x - v.x) + Inward(c, a, v) * (b.x - v.x)
              + Inward(a, b, v) * (c.x - v.x) = 0
<1>1. PICK ax \in Int, ay \in Int : ax = a.x - v.x /\ ay = a.y - v.y
  BY DEF IsPoint
<1>2. PICK bx \in Int, by \in Int : bx = b.x - v.x /\ by = b.y - v.y
  BY DEF IsPoint
<1>3. PICK cx \in Int, cy \in Int : cx = c.x - v.x /\ cy = c.y - v.y
  BY DEF IsPoint
<1>4. /\ b.x - a.x = bx - ax /\ b.y - a.y = by - ay /\ c.x - b.x = cx - bx /\ c.y - b.y = cy - by
      /\ a.x - c.x = ax - cx /\ a.y - c.y = ay - cy /\ c.x - a.x = cx - ax /\ c.y - a.y = cy - ay
      /\ v.x - a.x = 0 - ax /\ v.y - a.y = 0 - ay /\ v.x - b.x = 0 - bx /\ v.y - b.y = 0 - by
      /\ v.x - c.x = 0 - cx /\ v.y - c.y = 0 - cy
  BY <1>1, <1>2, <1>3 DEF IsPoint
<1>5. /\ Inward(a, b, v) = (bx - ax) * (0 - ay) - (by - ay) * (0 - ax)
      /\ Inward(b, c, v) = (cx - bx) * (0 - by) - (cy - by) * (0 - bx)
      /\ Inward(c, a, v) = (ax - cx) * (0 - cy) - (ay - cy) * (0 - cx)
      /\ Twice(a, b, c) = (bx - ax) * (cy - ay) - (cx - ax) * (by - ay)
  BY <1>4, Zenon DEF Inward, Twice
<1>6. /\ Inward(a, b, v) = by * ax - ay * bx
      /\ Inward(b, c, v) = cy * bx - by * cx
      /\ Inward(c, a, v) = ay * cx - cy * ax
  BY <1>5, Areas
<1>7. PICK p \in Int, q \in Int, r \in Int :
        /\ p = by * ax - ay * bx /\ q = cy * bx - by * cx /\ r = ay * cx - cy * ax
        /\ p + q + r = (bx - ax) * (cy - ay) - (cx - ax) * (by - ay)
        /\ q * ay + r * by + p * cy = 0 /\ q * ax + r * bx + p * cx = 0
  <2> DEFINE p == by * ax - ay * bx
             q == cy * bx - by * cx
             r == ay * cx - cy * ax
  <2>1. /\ p \in Int /\ q \in Int /\ r \in Int
        /\ p + q + r = (bx - ax) * (cy - ay) - (cx - ax) * (by - ay)
        /\ q * ay + r * by + p * cy = 0 /\ q * ax + r * bx + p * cx = 0
    BY Balanced
  <2> QED BY <2>1, Zenon
<1>8. Inward(a, b, v) = p /\ Inward(b, c, v) = q /\ Inward(c, a, v) = r /\ Twice(a, b, c) = p + q + r
  BY <1>5, <1>6, <1>7, Zenon
<1>9. /\ Inward(a, b, v) + Inward(b, c, v) + Inward(c, a, v) = Twice(a, b, c)
      /\ Inward(b, c, v) * ay + Inward(c, a, v) * by + Inward(a, b, v) * cy = 0
      /\ Inward(b, c, v) * ax + Inward(c, a, v) * bx + Inward(a, b, v) * cx = 0
  <2>1. p + q + r = q + r + p
    OBVIOUS
  <2> QED BY <1>7, <1>8
<1> QED BY <1>1, <1>2, <1>3, <1>9

\* Weights that balance three heights, the middle one's not negative and one below
\* nought: the point is between the first two heights or between the last two, and
\* what is asked of the weights is what is asked of the edges there.
LEMMA LongIsLeftHolds ==
  ASSUME NEW A \in Int, NEW B \in Int, NEW C \in Int, A <= B, B <= C, A < C,
         NEW w1 \in Int, NEW w2 \in Int, NEW w3 \in Int,
         w1 * A + w2 * B + w3 * C = 0, A = B /\ A = 0 => w3 = 0
  PROVE  (/\ w3 > 0 \/ (w3 = 0 /\ A = B)
          /\ w1 > 0 /\ w2 >= 0)
         <=> \/ A <= 0 /\ 0 < B /\ w2 >= 0 /\ w3 > 0
             \/ B <= 0 /\ 0 < C /\ w2 >= 0 /\ w1 > 0
<1>1. PICK pa \in Int, pb \in Int, pc \in Int : pa = w1 * A /\ pb = w2 * B /\ pc = w3 * C
  OBVIOUS
<1>2. pa + pb + pc = 0
  BY <1>1
<1>3. ASSUME w1 > 0, w2 >= 0, w3 > 0 \/ (w3 = 0 /\ A = B)
      PROVE  \/ A <= 0 /\ 0 < B /\ w3 > 0
             \/ B <= 0 /\ 0 < C
  <2>1. ASSUME A > 0 PROVE FALSE
    <3>1. pa > 0
      BY <1>1, <1>3, <2>1, Signs
    <3>2. pb >= 0
      BY <1>1, <1>3, <2>1, Signs
    <3>3. pc >= 0
      BY <1>1, <1>3, <2>1, Signs
    <3> QED BY <1>2, <3>1, <3>2, <3>3
  <2>2. ASSUME C <= 0 PROVE FALSE
    <3>1. pa > 0
      BY <1>1, <1>3, <2>2, Signs
    <3>2. pb >= 0
      BY <1>1, <1>3, <2>2, Signs
    <3>3. pc >= 0
      BY <1>1, <1>3, <2>2, Signs
    <3> QED BY <1>2, <3>1, <3>2, <3>3
  <2> QED BY <1>3, <2>1, <2>2
<1>4. ASSUME A <= 0, 0 < B, w2 >= 0, w3 > 0 PROVE w1 > 0
  <2>1. pb >= 0 /\ pc > 0
    BY <1>1, <1>4, Signs
  <2>2. w1 <= 0 => pa >= 0
    BY <1>1, <1>4, Signs
  <2> QED BY <1>2, <2>1, <2>2
<1>5. ASSUME B <= 0, 0 < C, w2 >= 0, w1 > 0 PROVE w3 > 0 \/ (w3 = 0 /\ A = B)
  <2>1. pa <= 0 /\ pb <= 0
    BY <1>1, <1>5, Signs
  <2>2. w3 < 0 => pc < 0
    BY <1>1, <1>5, Signs
  <2>3. w3 = 0 => pc = 0
    BY <1>1, Signs
  <2>4. A < 0 => pa < 0
    BY <1>1, <1>5, Signs
  <2> QED BY <1>2, <1>5, <2>1, <2>2, <2>3, <2>4
<1> QED BY <1>3, <1>4, <1>5

LEMMA ShortIsLeftHolds ==
  ASSUME NEW A \in Int, NEW B \in Int, NEW C \in Int, A <= B, B <= C, A < C,
         NEW w1 \in Int, NEW w2 \in Int, NEW w3 \in Int,
         w1 * A + w2 * B + w3 * C = 0
  PROVE  (/\ w3 <= 0 /\ w2 < 0
          /\ w1 < 0 \/ (w1 = 0 /\ B < C))
         <=> \/ A <= 0 /\ 0 < B /\ w3 <= 0 /\ w2 < 0
             \/ B <= 0 /\ 0 < C /\ w1 <= 0 /\ w2 < 0
<1>1. PICK pa \in Int, pb \in Int, pc \in Int : pa = w1 * A /\ pb = w2 * B /\ pc = w3 * C
  OBVIOUS
<1>2. pa + pb + pc = 0
  BY <1>1
<1>3. ASSUME w3 <= 0, w2 < 0, w1 < 0 \/ (w1 = 0 /\ B < C)
      PROVE  \/ A <= 0 /\ 0 < B
             \/ B <= 0 /\ 0 < C /\ w1 <= 0
  <2>1. ASSUME A > 0 PROVE FALSE
    <3>1. pa <= 0 /\ pc <= 0
      BY <1>1, <1>3, <2>1, Signs
    <3>2. pb < 0
      BY <1>1, <1>3, <2>1, Signs
    <3> QED BY <1>2, <3>1, <3>2
  <2>2. ASSUME C <= 0 PROVE FALSE
    <3>1. pa >= 0 /\ pb >= 0 /\ pc >= 0
      BY <1>1, <1>3, <2>2, Signs
    <3>2. w1 < 0 => pa > 0
      BY <1>1, <2>2, Signs
    <3>3. B < C => pb > 0
      BY <1>1, <1>3, <2>2, Signs
    <3> QED BY <1>2, <1>3, <3>1, <3>2, <3>3
  <2> QED BY <1>3, <2>1, <2>2
<1>4. ASSUME A <= 0, 0 < B, w3 <= 0, w2 < 0 PROVE w1 < 0
  <2>1. pb < 0 /\ pc <= 0
    BY <1>1, <1>4, Signs
  <2>2. w1 >= 0 => pa <= 0
    BY <1>1, <1>4, Signs
  <2> QED BY <1>2, <2>1, <2>2
<1>5. ASSUME B <= 0, 0 < C, w1 <= 0, w2 < 0 PROVE w3 <= 0
  <2>1. pa >= 0 /\ pb >= 0
    BY <1>1, <1>5, Signs
  <2>2. w3 > 0 => pc > 0
    BY <1>1, <1>5, Signs
  <2> QED BY <1>2, <2>1, <2>2
<1> QED BY <1>3, <1>4, <1>5

\* The point of a triangle with its corners in order is between its long edge and the
\* short one of the half its height is in.
Spans(a, b, c, from, to, v) ==
  IF Twice(a, b, c) > 0 THEN Inward(a, c, v) <= 0 /\ Inward(from, to, v) > 0
  ELSE Inward(from, to, v) <= 0 /\ Inward(a, c, v) > 0
LEMMA FillRule ==
  ASSUME NEW a, IsPoint(a), NEW b, IsPoint(b), NEW c, IsPoint(c), NEW v, IsPoint(v),
         a.y <= b.y, b.y <= c.y, Twice(a, b, c) # 0
  PROVE  Inside(a, b, c, v) <=> \/ a.y <= v.y /\ v.y < b.y /\ Spans(a, b, c, a, b, v)
                                \/ b.y <= v.y /\ v.y < c.y /\ Spans(a, b, c, b, c, v)
<1>1. PICK A \in Int : A = a.y - v.y
  BY DEF IsPoint
<1>2. PICK B \in Int : B = b.y - v.y
  BY DEF IsPoint
<1>3. PICK C \in Int : C = c.y - v.y
  BY DEF IsPoint
<1>4. PICK du \in Int, dl \in Int, dn \in Int : du = b.x - a.x /\ dl = c.x - b.x /\ dn = a.x - c.x
  BY DEF IsPoint
<1>5. /\ a.y <= v.y <=> A <= 0
      /\ v.y < b.y <=> 0 < B
      /\ b.y <= v.y <=> B <= 0
      /\ v.y < c.y <=> 0 < C
      /\ A <= B /\ B <= C
      /\ b.y = a.y <=> A = B
      /\ c.y = b.y <=> B = C
      /\ a.y = c.y <=> A = C
      /\ b.y - a.y = B - A /\ c.y - b.y = C - B /\ a.y - c.y = A - C
  BY <1>1, <1>2, <1>3 DEF IsPoint
<1>6. PICK w1 \in Int : w1 = Inward(b, c, v)
  BY HasTurned
<1>7. PICK w2 \in Int : w2 = Inward(c, a, v) /\ Inward(a, c, v) = -w2
  BY HasTurned
<1>8. PICK w3 \in Int : w3 = Inward(a, b, v)
  BY HasTurned
<1>9. w1 * A + w2 * B + w3 * C = 0
  BY <1>1, <1>2, <1>3, <1>6, <1>7, <1>8, Balance
<1>10. PICK D \in Int : D = Twice(a, b, c) /\ D = du * (C - A) - (du + dl) * (B - A)
  <2>1. Twice(a, b, c) = (b.x - a.x) * (c.y - a.y) - (c.x - a.x) * (b.y - a.y)
    BY DEF Twice
  <2>2. b.x - a.x = du /\ c.x - a.x = du + dl /\ c.y - a.y = C - A /\ b.y - a.y = B - A
    BY <1>1, <1>2, <1>3, <1>4 DEF IsPoint
  <2>3. du * (C - A) - (du + dl) * (B - A) \in Int
    OBVIOUS
  <2> QED BY <2>1, <2>2, <2>3
<1>11. /\ A = B => D = du * (C - A)
       /\ B = C => D = (-dl) * (C - A)
  BY <1>10
<1>12. A < C
  <2>1. A = C => A = B /\ C - A = 0
    BY <1>5
  <2> QED BY <1>5, <1>10, <1>11, <2>1
<1>13. A = B /\ A = 0 => w3 = 0
  <2>1. w3 = (b.x - a.x) * (v.y - a.y) - (b.y - a.y) * (v.x - a.x)
    BY <1>8 DEF Inward
  <2>2. A = B /\ A = 0 => v.y - a.y = 0 /\ b.y - a.y = 0
    BY <1>1, <1>2 DEF IsPoint
  <2> QED BY <2>1, <2>2, <1>4 DEF IsPoint
<1>14. CASE D > 0
  <2>1. A = B => du > 0
    BY <1>11, <1>12, <1>14, Signs
  <2>2. B = C => dl < 0
    BY <1>11, <1>12, <1>14, Signs
  <2>3. Inside(a, b, c, v) <=> Has(1, a, b, v) /\ Has(1, b, c, v) /\ Has(1, c, a, v)
    BY <1>10, <1>14 DEF Inside, Sign
  <2>4. Has(1, a, b, v) <=> w3 > 0 \/ (w3 = 0 /\ A = B)
    BY <1>4, <1>5, <1>8, <2>1 DEF Has
  <2>5. Has(1, b, c, v) <=> w1 > 0
    BY <1>4, <1>5, <1>6, <2>2 DEF Has
  <2>6. Has(1, c, a, v) <=> w2 >= 0
    BY <1>5, <1>7, <1>12 DEF Has
  <2>7. /\ Spans(a, b, c, a, b, v) <=> w2 >= 0 /\ w3 > 0
        /\ Spans(a, b, c, b, c, v) <=> w2 >= 0 /\ w1 > 0
    BY <1>6, <1>7, <1>8, <1>10, <1>14 DEF Spans
  <2>8. (/\ w3 > 0 \/ (w3 = 0 /\ A = B)
         /\ w1 > 0 /\ w2 >= 0)
        <=> \/ A <= 0 /\ 0 < B /\ w2 >= 0 /\ w3 > 0
            \/ B <= 0 /\ 0 < C /\ w2 >= 0 /\ w1 > 0
    BY <1>5, <1>9, <1>12, <1>13, LongIsLeftHolds
  <2> QED BY <1>5, <2>3, <2>4, <2>5, <2>6, <2>7, <2>8
<1>15. CASE ~(D > 0)
  <2>0. D < 0
    BY <1>10, <1>15
  <2>1. A = B => du < 0
    <3>1. du >= 0 => du * (C - A) >= 0
      BY <1>12, Signs
    <3> QED BY <1>11, <2>0, <3>1
  <2>2. B = C => dl > 0
    <3>1. -dl >= 0 => (-dl) * (C - A) >= 0
      BY <1>12, Signs
    <3> QED BY <1>11, <2>0, <3>1
  <2>3. Inside(a, b, c, v) <=> Has(-1, a, b, v) /\ Has(-1, b, c, v) /\ Has(-1, c, a, v)
    BY <1>10, <2>0 DEF Inside, Sign
  <2>4. Has(-1, a, b, v) <=> w3 <= 0
    BY <1>4, <1>5, <1>8, <2>1 DEF Has
  <2>5. Has(-1, b, c, v) <=> w1 < 0 \/ (w1 = 0 /\ B < C)
    BY <1>4, <1>5, <1>6, <2>2 DEF Has
  <2>6. Has(-1, c, a, v) <=> w2 < 0
    BY <1>5, <1>7, <1>12 DEF Has
  <2>7. /\ Spans(a, b, c, a, b, v) <=> w3 <= 0 /\ w2 < 0
        /\ Spans(a, b, c, b, c, v) <=> w1 <= 0 /\ w2 < 0
    BY <1>6, <1>7, <1>8, <1>10, <1>15 DEF Spans
  <2>8. (/\ w3 <= 0 /\ w2 < 0
         /\ w1 < 0 \/ (w1 = 0 /\ B < C))
        <=> \/ A <= 0 /\ 0 < B /\ w3 <= 0 /\ w2 < 0
            \/ B <= 0 /\ 0 < C /\ w1 <= 0 /\ w2 < 0
    BY <1>5, <1>9, <1>12, ShortIsLeftHolds
  <2> QED BY <1>5, <2>3, <2>4, <2>5, <2>6, <2>7, <2>8
<1> QED BY <1>14, <1>15
-----------------------------------------------------------------------------
(* The two halves of a triangle.                                             *)

\* The row of a vertex is the first whose centres are not above it.
LEMMA RowIs ==
  ASSUME NEW y \in Int, NEW k \in Int, NEW x \in Int
  PROVE  RowOf(y) \in Int /\ (RowOf(y) <= k <=> y <= Centre(x, k).y)
<1>1. PICK H \in Nat \ {0} : SubOne = 2 * H /\ SubOne \div 2 = H
  BY HalfOne
<1>2. PICK M \in Nat \ {0} : M = SubOne
  BY <1>1
<1>3. PICK a \in Int : a = y - H
  OBVIOUS
<1>4. PICK r \in Int : r = RowOf(y) /\ M * (r - 1) < a /\ a <= M * r
  <2>1. RowOf(y) = CeilDiv(a, M)
    BY <1>1, <1>2, <1>3 DEF RowOf
  <2> QED BY <2>1, CeilIs
<1>5. Centre(x, k).y = M * k + H
  BY <1>1, <1>2 DEF Centre
<1>6. r <= k => M * r <= M * k
  OBVIOUS
<1>7. ~(r <= k) => M * k <= M * (r - 1)
  OBVIOUS
<1> QED BY <1>3, <1>4, <1>5, <1>6, <1>7

\* A trapezoid walked between two edges has the pixels between them.
LEMMA WalkedPaints ==
  ASSUME NEW p, IsPoint(p), NEW q, IsPoint(q), q.y > p.y,
         NEW a, IsPoint(a), NEW b, IsPoint(b), b.y > a.y,
         NEW r0 \in Int, NEW h \in Int, NEW k \in Nat
  PROVE  LET t == Walked(Edge(p, q), Edge(a, b), r0, h, SubBits)
         IN  /\ t.y = r0 /\ t.h = h /\ t.left = LeftAt(t, 0) /\ t.right = RightAt(t, 0)
             /\ LeftAt(t, k) \in Int /\ RightAt(t, k) \in Int
             /\ \A x \in Int : /\ LeftAt(t, k) <= x <=> Inward(p, q, Centre(x, r0 + k)) <= 0
                               /\ RightAt(t, k) <= x <=> Inward(a, b, Centre(x, r0 + k)) <= 0
<1> DEFINE t == Walked(Edge(p, q), Edge(a, b), r0, h, SubBits)
           l == EdgeRegs(Edge(p, q), r0, SubBits)
           r == EdgeRegs(Edge(a, b), r0, SubBits)
<1>1. t = Registers(l, r, r0, h)
  BY DEF Walked
<1> HIDE DEF t, l, r
<1>2. /\ t.y = r0 /\ t.h = h /\ t.left = l.x0 /\ t.right = r.x0
      /\ t.ar0 = l.dy /\ t.ar1 = -l.mag - l.err /\ t.ar2 = -l.mag
      /\ t.ar6 = r.dy /\ t.ar4 = -r.mag - r.err /\ t.ar5 = -r.mag
      /\ t.sgn = (IF l.sgn < 0 THEN {"left"} ELSE {}) \cup (IF r.sgn < 0 THEN {"right"} ELSE {})
  BY <1>1 DEF Registers
<1>3. Toward(t.sgn, "left") = Sign(l.sgn) /\ Toward(t.sgn, "right") = Sign(r.sgn)
  BY <1>2 DEF Toward, Sign
<1>4. ASSUME NEW n \in Nat
      PROVE  LeftAt(t, n) = ColumnOf(p, q, r0, n) /\ RightAt(t, n) = ColumnOf(a, b, r0, n)
  BY <1>2, <1>3, Zenon DEF LeftAt, RightAt, ColumnOf, l, r
<1>5. t.left = LeftAt(t, 0) /\ t.right = RightAt(t, 0)
  <2>1. l.x0 + Sign(l.sgn) * 0 = l.x0 /\ r.x0 + Sign(r.sgn) * 0 = r.x0
    <3>1. l.x0 \in Int /\ r.x0 \in Int
      <4>1. SubBits \in 0..SubBits
        BY SubBitsAssumption
      <4>2. /\ FloorDiv(Edge(p, q).height, 2^(SubBits - SubBits)) > 0
            /\ FloorDiv(Edge(a, b).height, 2^(SubBits - SubBits)) > 0
        <5> DEFINE Factor(n) == 2^n
                   step == 2^(SubBits - SubBits)
        <5>1. SubBits - SubBits = 0
          BY SubBitsAssumption
        <5>2. Factor(0) = 1
          OBVIOUS
        <5>3. step = Factor(SubBits - SubBits)
          OBVIOUS
        <5> HIDE DEF Factor, step
        <5>4. step = 1
          BY <5>1, <5>2, <5>3
        <5>5. FloorDiv(Edge(p, q).height, step) > 0 /\ FloorDiv(Edge(a, b).height, step) > 0
          BY <5>4 DEF FloorDiv, Edge, IsPoint
        <5> QED BY <5>5 DEF step
      <4>3. /\ {Edge(p, q).xa, Edge(p, q).ya, Edge(p, q).dee, Edge(p, q).height} \subseteq Int
            /\ {Edge(a, b).xa, Edge(a, b).ya, Edge(a, b).dee, Edge(a, b).height} \subseteq Int
        BY DEF Edge, IsPoint
      <4>4. {l.x0, l.mag, l.dy, l.err} \subseteq Int
        BY <4>1, <4>2, <4>3, RegsTyped DEF l
      <4>5. {r.x0, r.mag, r.dy, r.err} \subseteq Int
        BY <4>1, <4>2, <4>3, RegsTyped DEF r
      <4> QED BY <4>4, <4>5
    <3> QED BY <3>1 DEF Sign
  <2> QED BY <1>2, <1>3, <2>1 DEF LeftAt, RightAt, Columns
<1>6. /\ ColumnOf(p, q, r0, k) \in Int
      /\ \A x \in Int : ColumnOf(p, q, r0, k) <= x <=> Inward(p, q, Centre(x, r0 + k)) <= 0
  BY EdgeColumn
<1>7. /\ ColumnOf(a, b, r0, k) \in Int
      /\ \A x \in Int : ColumnOf(a, b, r0, k) <= x <=> Inward(a, b, Centre(x, r0 + k)) <= 0
  BY EdgeColumn
<1>8. /\ LeftAt(t, k) \in Int /\ RightAt(t, k) \in Int
      /\ \A x \in Int : /\ LeftAt(t, k) <= x <=> Inward(p, q, Centre(x, r0 + k)) <= 0
                        /\ RightAt(t, k) <= x <=> Inward(a, b, Centre(x, r0 + k)) <= 0
  BY <1>4, <1>6, <1>7
<1> QED BY <1>2, <1>5, <1>8 DEF t

\* In a row that the edge crosses, the first column whose centre is not left of it is
\* no farther out than its ends.
LEMMA ColumnBounds ==
  ASSUME NEW p, IsPoint(p), NEW q, IsPoint(q), NEW L \in Nat,
         Abs(p.x) <= L * SubOne, Abs(q.x) <= L * SubOne, NEW y \in Int,
         p.y <= Centre(0, y).y, Centre(0, y).y < q.y
  PROVE  Inward(p, q, Centre(L, y)) <= 0 /\ Inward(p, q, Centre(-L - 1, y)) > 0
<1>1. PICK H \in Nat \ {0} : SubOne = 2 * H /\ SubOne \div 2 = H
  BY HalfOne
<1>2. PICK R \in Nat : R = SubOne * L
  BY <1>1
<1>3. PICK a \in Nat, b \in Nat : a = Centre(0, y).y - p.y /\ b = q.y - Centre(0, y).y /\ b > 0
  <2>1. Centre(0, y).y \in Int
    BY CentreIs
  <2> QED BY <2>1 DEF IsPoint
<1>4. ASSUME NEW x \in Int
      PROVE  /\ Inward(p, q, Centre(x, y)) = b * (p.x - Centre(x, y).x) + a * (q.x - Centre(x, y).x)
             /\ Centre(x, y).x = SubOne * x + H /\ Centre(x, y).x \in Int
  <2>1. Centre(x, y).y = Centre(0, y).y /\ Centre(x, y).x = SubOne * x + H /\ Centre(x, y).x \in Int
    BY <1>1, CentreIs DEF Centre
  <2>2. PICK c \in Int : c = Centre(x, y).x
    BY <2>1
  <2>3. PICK m \in Int, n \in Int : m = p.x - c /\ n = q.x - c
    BY DEF IsPoint
  <2>4. q.x - p.x = n - m /\ c - p.x = 0 - m /\ Centre(x, y).y - p.y = a /\ q.y - p.y = a + b
    <3>1. Centre(0, y).y \in Int
      BY CentreIs
    <3> QED BY <1>3, <2>1, <2>3, <3>1 DEF IsPoint
  <2>5. Inward(p, q, Centre(x, y)) = (n - m) * a - (a + b) * (0 - m)
    BY <2>2, <2>4 DEF Inward
  <2>6. (n - m) * a - (a + b) * (0 - m) = b * m + a * n
    OBVIOUS
  <2> QED BY <2>1, <2>2, <2>3, <2>5, <2>6
<1>5. Abs(p.x) <= R /\ Abs(q.x) <= R
  <2>1. L * SubOne = SubOne * L
    BY <1>1
  <2> QED BY <1>2, <2>1
<1>6. Inward(p, q, Centre(L, y)) <= 0
  <2>1. PICK m \in Int, n \in Int : m = p.x - Centre(L, y).x /\ n = q.x - Centre(L, y).x
    BY <1>4 DEF IsPoint
  <2>2. m <= 0 /\ n <= 0
    BY <1>2, <1>4, <1>5, <2>1 DEF IsPoint, Abs
  <2>3. b * m <= 0 /\ a * n <= 0 /\ b * m \in Int /\ a * n \in Int
    BY <2>2, Signs
  <2> QED BY <1>4, <2>1, <2>3
<1>7. Inward(p, q, Centre(-L - 1, y)) > 0
  <2>1. PICK m \in Int, n \in Int : m = p.x - Centre(-L - 1, y).x /\ n = q.x - Centre(-L - 1, y).x
    BY <1>4 DEF IsPoint
  <2>2. SubOne * (-L - 1) = -R - 2 * H
    BY <1>1, <1>2
  <2>3. Centre(-L - 1, y).x = -R - H
    BY <1>4, <2>2
  <2>4. m > 0 /\ n > 0
    BY <1>5, <2>1, <2>3 DEF IsPoint, Abs
  <2>5. b * m > 0 /\ a * n >= 0 /\ b * m \in Int /\ a * n \in Int
    BY <1>3, <2>4, Signs
  <2> QED BY <1>4, <2>1, <2>5
<1> QED BY <1>6, <1>7

\* The pixels a trapezoid has, and those of a half of the triangle.
Paints(t, x, y) ==
  y - t.y \in Rows(t) /\ LeftAt(t, y - t.y) <= x /\ x < RightAt(t, y - t.y)
OfHalf(v, from, to, x, y) ==
  /\ v[from].y <= Centre(x, y).y /\ Centre(x, y).y < v[to].y
  /\ Spans(v[1], v[2], v[3], v[from], v[to], Centre(x, y))
Columned(t) == {t.left, t.right} \subseteq (-CoordLimit)..CoordLimit
PaintsHalf(t, v, from, to) ==
  /\ t.h > 0 /\ RowOf(v[from].y) <= t.y /\ t.y + t.h = RowOf(v[to].y) /\ Columned(t)
  /\ \A x, y \in Int : Paints(t, x, y) <=> OfHalf(v, from, to, x, y)

Follows(t, p, q, a, b, r, h) ==
  /\ t.y = r /\ t.h = h /\ t.left = LeftAt(t, 0) /\ t.right = RightAt(t, 0)
  /\ \A k \in Nat : LeftAt(t, k) \in Int /\ RightAt(t, k) \in Int
  /\ \A k \in Nat, x \in Int :
       /\ LeftAt(t, k) <= x <=> Inward(p, q, Centre(x, r + k)) <= 0
       /\ RightAt(t, k) <= x <=> Inward(a, b, Centre(x, r + k)) <= 0
LEMMA WalkedFollows ==
  ASSUME NEW p, IsPoint(p), NEW q, IsPoint(q), q.y > p.y,
         NEW a, IsPoint(a), NEW b, IsPoint(b), b.y > a.y, NEW r \in Int, NEW h \in Int
  PROVE  Follows(Walked(Edge(p, q), Edge(a, b), r, h, SubBits), p, q, a, b, r, h)
<1> DEFINE t == Walked(Edge(p, q), Edge(a, b), r, h, SubBits)
<1>1. ASSUME NEW k \in Nat
      PROVE  /\ t.y = r /\ t.h = h /\ t.left = LeftAt(t, 0) /\ t.right = RightAt(t, 0)
             /\ LeftAt(t, k) \in Int /\ RightAt(t, k) \in Int
             /\ \A x \in Int : /\ LeftAt(t, k) <= x <=> Inward(p, q, Centre(x, r + k)) <= 0
                               /\ RightAt(t, k) <= x <=> Inward(a, b, Centre(x, r + k)) <= 0
  BY WalkedPaints
<1> HIDE DEF t
<1>2. 0 \in Nat
  OBVIOUS
<1>3. Follows(t, p, q, a, b, r, h)
  BY <1>1, <1>2, Zenon DEF Follows
<1> QED BY <1>3 DEF t

Amid(p, q, a, b, first, rows, x, y) ==
  /\ y \in first..(first + rows - 1)
  /\ Inward(p, q, Centre(x, y)) <= 0 /\ Inward(a, b, Centre(x, y)) > 0
PaintsAmid(part, p, q, a, b, first, rows) ==
  \/ part = <<>> /\ \A x, y \in Int : ~Amid(p, q, a, b, first, rows, x, y)
  \/ \E t : /\ part = <<t>> /\ t.h > 0 /\ first <= t.y /\ t.y + t.h = first + rows
            /\ Columned(t)
            /\ \A x, y \in Int : Paints(t, x, y) <=> Amid(p, q, a, b, first, rows, x, y)

\* Between two edges that both cross its rows, a half is the trapezoid without its
\* empty rows at the top, and there is none when all its rows are empty.
LEMMA BetweenPaints ==
  ASSUME NEW p, IsPoint(p), NEW q, IsPoint(q), q.y > p.y,
         NEW a, IsPoint(a), NEW b, IsPoint(b), b.y > a.y,
         CoordLimit \in Nat,
         \A c \in {p, q, a, b} : Abs(c.x) <= CoordLimit * SubOne,
         NEW first \in Int, NEW rows \in Nat \ {0},
         \A y \in first..(first + rows - 1) :
           /\ p.y <= Centre(0, y).y /\ Centre(0, y).y < q.y
           /\ a.y <= Centre(0, y).y /\ Centre(0, y).y < b.y
  PROVE  PaintsAmid(DrawnPart(Edge(p, q), Edge(a, b), first, rows, SubBits), p, q, a, b, first, rows)
<1> DEFINE part == DrawnPart(Edge(p, q), Edge(a, b), first, rows, SubBits)
           skip == FirstDrawn(Edge(p, q), Edge(a, b), first, rows, SubBits)
           Meant(x, y) == Amid(p, q, a, b, first, rows, x, y)
<1>0. PICK u : u = Walked(Edge(p, q), Edge(a, b), first, rows, SubBits)
  OBVIOUS
<1>1. Follows(u, p, q, a, b, first, rows)
  <2>1. rows \in Int
    OBVIOUS
  <2> QED BY <1>0, <2>1, WalkedFollows, Zenon
<1>2. \A x, y \in Int : Inward(p, q, Centre(x, y)) \in Int /\ Inward(a, b, Centre(x, y)) \in Int
  <2>1. \A x, y \in Int : IsPoint(Centre(x, y))
    BY CentreIs DEF IsPoint
  <2> QED BY <2>1, HasTurned
<1>3. part = IF rows <= 0 \/ skip >= rows THEN <<>>
             ELSE <<Walked(Edge(p, q), Edge(a, b), first + skip, rows - skip, SubBits)>>
  BY DEF DrawnPart, Between
<1>4. skip = Min({rows} \cup DrawnRows(u))
  BY <1>0 DEF FirstDrawn
<1> HIDE DEF part, skip
<1>5. skip \in Nat /\ skip <= rows /\ \A k \in 0..(skip - 1) : ~(LeftAt(u, k) < RightAt(u, k))
  <2> DEFINE S == {rows} \cup DrawnRows(u)
  <2>1. S \in SUBSET Int /\ S # {} /\ \A k \in S : 0 <= k
    <3>1. u.h = rows
      BY <1>1 DEF Follows
    <3> QED BY <3>1 DEF DrawnRows, Rows
  <2>2. rows \in S
    OBVIOUS
  <2>3. \A k \in 0..(rows - 1) : LeftAt(u, k) < RightAt(u, k) => k \in S
    <3>1. u.h = rows
      BY <1>1 DEF Follows
    <3> QED BY <3>1 DEF DrawnRows, Rows
  <2> HIDE DEF S
  <2>4. Min(S) \in S /\ \A k \in S : Min(S) <= k
    BY <2>1, LeastOf
  <2>5. skip = Min(S)
    BY <1>4 DEF S
  <2>6. skip \in Int /\ 0 <= skip /\ skip <= rows /\ \A k \in S : skip <= k
    BY <2>1, <2>2, <2>4, <2>5
  <2> QED BY <2>3, <2>6
<1>6. ASSUME NEW y \in first..(first + skip - 1), NEW x \in Int PROVE ~Meant(x, y)
  <2>1. PICK k \in 0..(skip - 1) : k = y - first
    BY <1>5
  <2>2. k \in Nat /\ first + k = y
    BY <1>5, <2>1
  <2>3. /\ LeftAt(u, k) \in Int /\ RightAt(u, k) \in Int
        /\ LeftAt(u, k) <= x <=> Inward(p, q, Centre(x, y)) <= 0
        /\ RightAt(u, k) <= x <=> Inward(a, b, Centre(x, y)) <= 0
    <3>1. /\ LeftAt(u, k) \in Int /\ RightAt(u, k) \in Int
          /\ LeftAt(u, k) <= x <=> Inward(p, q, Centre(x, first + k)) <= 0
          /\ RightAt(u, k) <= x <=> Inward(a, b, Centre(x, first + k)) <= 0
      BY <1>1, <2>2, Zenon DEF Follows
    <3> QED BY <2>2, <3>1
  <2>4. ~(LeftAt(u, k) < RightAt(u, k))
    BY <1>5, <2>1
  <2>5. y \in Int
    BY <1>5
  <2>6. Inward(p, q, Centre(x, y)) \in Int /\ Inward(a, b, Centre(x, y)) \in Int
    BY <1>2, <2>5
  <2> QED BY <2>3, <2>4, <2>6 DEF Amid
<1>7. CASE skip >= rows
  <2>1. part = <<>>
    BY <1>3, <1>7
  <2>2. ASSUME NEW x \in Int, NEW y \in Int PROVE ~Meant(x, y)
    <3>1. y \in first..(first + rows - 1) => y \in first..(first + skip - 1)
      BY <1>5, <1>7
    <3> QED BY <1>6, <3>1 DEF Amid
  <2> QED BY <2>1, <2>2 DEF part, PaintsAmid
<1>8. CASE ~(skip >= rows)
  <2>1. PICK r \in Int : r = first + skip
    BY <1>5
  <2>2. PICK h \in Nat \ {0} : h = rows - skip
    BY <1>5, <1>8
  <2>3. PICK t : t = Walked(Edge(p, q), Edge(a, b), r, h, SubBits)
    OBVIOUS
  <2>9. Follows(t, p, q, a, b, r, h)
    <3>1. h \in Int
      OBVIOUS
    <3> QED BY <2>3, <3>1, WalkedFollows, Zenon
  <2>4. part = <<t>>
    BY <1>3, <1>5, <1>8, <2>1, <2>2, <2>3
  <2>5. /\ t.y = r /\ t.h = h
        /\ t.left = LeftAt(t, 0) /\ t.right = RightAt(t, 0)
        /\ LeftAt(t, 0) \in Int /\ RightAt(t, 0) \in Int
        /\ \A x \in Int : /\ LeftAt(t, 0) <= x <=> Inward(p, q, Centre(x, r)) <= 0
                          /\ RightAt(t, 0) <= x <=> Inward(a, b, Centre(x, r)) <= 0
    <3>1. 0 \in Nat /\ r + 0 = r
      OBVIOUS
    <3>2. /\ t.y = r /\ t.h = h /\ t.left = LeftAt(t, 0) /\ t.right = RightAt(t, 0)
          /\ LeftAt(t, 0) \in Int /\ RightAt(t, 0) \in Int
          /\ \A x \in Int : /\ LeftAt(t, 0) <= x <=> Inward(p, q, Centre(x, r + 0)) <= 0
                            /\ RightAt(t, 0) <= x <=> Inward(a, b, Centre(x, r + 0)) <= 0
      BY <2>9, <3>1, Zenon DEF Follows
    <3> QED BY <3>1, <3>2
  <2>6. Columned(t)
    <3>1. r \in first..(first + rows - 1)
      BY <1>5, <1>8, <2>1
    <3>2. PICK L \in Nat : L = CoordLimit
      OBVIOUS
    <3>3. Inward(p, q, Centre(L, r)) <= 0 /\ Inward(p, q, Centre(-L - 1, r)) > 0
      BY <3>1, <3>2, ColumnBounds
    <3>4. Inward(a, b, Centre(L, r)) <= 0 /\ Inward(a, b, Centre(-L - 1, r)) > 0
      BY <3>1, <3>2, ColumnBounds
    <3>5. -L - 1 \in Int
      OBVIOUS
    <3>6. Inward(p, q, Centre(-L - 1, r)) \in Int /\ Inward(a, b, Centre(-L - 1, r)) \in Int
      BY <1>2, <3>5
    <3>7. /\ t.left \in Int /\ t.right \in Int /\ t.left <= L /\ t.right <= L
          /\ ~(t.left <= -L - 1) /\ ~(t.right <= -L - 1)
      BY <2>5, <3>3, <3>4, <3>5, <3>6
    <3> QED BY <3>2, <3>7 DEF Columned
  <2>7. ASSUME NEW x \in Int, NEW y \in Int PROVE Paints(t, x, y) <=> Meant(x, y)
    <3>1. CASE y - r \in 0..(h - 1)
      <4>1. PICK k \in Nat : k = y - r /\ k \in 0..(h - 1)
        BY <3>1
      <4>2. r + k = y /\ y \in first..(first + rows - 1)
        BY <1>5, <2>1, <2>2, <4>1
      <4>3. /\ LeftAt(t, k) \in Int /\ RightAt(t, k) \in Int
            /\ LeftAt(t, k) <= x <=> Inward(p, q, Centre(x, y)) <= 0
            /\ RightAt(t, k) <= x <=> Inward(a, b, Centre(x, y)) <= 0
        <5>1. /\ LeftAt(t, k) \in Int /\ RightAt(t, k) \in Int
              /\ LeftAt(t, k) <= x <=> Inward(p, q, Centre(x, r + k)) <= 0
              /\ RightAt(t, k) <= x <=> Inward(a, b, Centre(x, r + k)) <= 0
          BY <2>9, <4>1, Zenon DEF Follows
        <5> QED BY <4>2, <5>1
      <4>4. Paints(t, x, y) <=> LeftAt(t, k) <= x /\ x < RightAt(t, k)
        BY <2>5, <4>1 DEF Paints, Rows
      <4>5. x < RightAt(t, k) <=> ~(RightAt(t, k) <= x)
        BY <4>3
      <4>6. Inward(p, q, Centre(x, y)) \in Int /\ Inward(a, b, Centre(x, y)) \in Int
        BY <1>2
      <4> QED BY <4>2, <4>3, <4>4, <4>5, <4>6 DEF Amid
    <3>2. CASE ~(y - r \in 0..(h - 1))
      <4>1. ~Paints(t, x, y)
        BY <2>5, <3>2 DEF Paints, Rows
      <4>2. y \in first..(first + rows - 1) => y \in first..(first + skip - 1)
        BY <1>5, <2>1, <2>2, <3>2
      <4> QED BY <1>6, <4>1, <4>2 DEF Amid
    <3> QED BY <3>1, <3>2
  <2>8. t.h > 0 /\ first <= t.y /\ t.y + t.h = first + rows
    BY <1>5, <2>1, <2>2, <2>5
  <2> QED BY <2>4, <2>6, <2>7, <2>8 DEF part, PaintsAmid
<1> QED BY <1>7, <1>8

\* Each half of the triangle is built into a trapezoid with its pixels, or has none.
LEMMA HalfPaints ==
  ASSUME NEW v, IsPoint(v[1]), IsPoint(v[2]), IsPoint(v[3]), v[1].y <= v[2].y, v[2].y <= v[3].y,
         Twice(v[1], v[2], v[3]) # 0, CoordLimit \in Nat,
         \A i \in 1..3 : Abs(v[i].x) <= CoordLimit * SubOne,
         NEW from \in {1, 2}, NEW to \in {2, 3}, to = from + 1
  PROVE  \/ Half(v, from, to, SubBits) = <<>> /\ \A x, y \in Int : ~OfHalf(v, from, to, x, y)
         \/ \E t : Half(v, from, to, SubBits) = <<t>> /\ PaintsHalf(t, v, from, to)
<1>1. /\ IsPoint(v[from]) /\ IsPoint(v[to]) /\ v[from].y <= v[to].y
      /\ v[1].y <= v[from].y /\ v[to].y <= v[3].y
      /\ \A c \in {v[1], v[3], v[from], v[to]} : Abs(c.x) <= CoordLimit * SubOne
  <2>1. (from = 1 /\ to = 2) \/ (from = 2 /\ to = 3)
    OBVIOUS
  <2>2. v[1].y \in Int /\ v[2].y \in Int /\ v[3].y \in Int
    BY DEF IsPoint
  <2>3. /\ Abs(v[1].x) <= CoordLimit * SubOne /\ Abs(v[2].x) <= CoordLimit * SubOne
        /\ Abs(v[3].x) <= CoordLimit * SubOne
    OBVIOUS
  <2>4. CASE from = 1 /\ to = 2
    BY <2>2, <2>3, <2>4
  <2>5. CASE from = 2 /\ to = 3
    BY <2>2, <2>3, <2>5
  <2> QED BY <2>1, <2>4, <2>5
<1>2. PICK first \in Int : /\ first = RowOf(v[from].y)
                     /\ \A x, k \in Int : first <= k <=> v[from].y <= Centre(x, k).y
  <2>1. v[from].y \in Int
    BY <1>1 DEF IsPoint
  <2>2. RowOf(v[from].y) \in Int
    BY <2>1, RowOfTyped
  <2>3. \A x, k \in Int : RowOf(v[from].y) <= k <=> v[from].y <= Centre(x, k).y
    BY <2>1, RowIs
  <2> QED BY <2>2, <2>3
<1>3. PICK end \in Int : /\ end = RowOf(v[to].y)
                   /\ \A x, k \in Int : end <= k <=> v[to].y <= Centre(x, k).y
  <2>1. v[to].y \in Int
    BY <1>1 DEF IsPoint
  <2>2. RowOf(v[to].y) \in Int
    BY <2>1, RowOfTyped
  <2>3. \A x, k \in Int : RowOf(v[to].y) <= k <=> v[to].y <= Centre(x, k).y
    BY <2>1, RowIs
  <2> QED BY <2>2, <2>3
<1>4. \A x, y \in Int : Centre(x, y).y \in Int /\ IsPoint(Centre(x, y))
  BY CentreIs DEF IsPoint
<1>5. ASSUME NEW x \in Int, NEW y \in Int
      PROVE  OfHalf(v, from, to, x, y) <=>
               y \in first..(end - 1) /\ Spans(v[1], v[2], v[3], v[from], v[to], Centre(x, y))
  <2>1. first <= y <=> v[from].y <= Centre(x, y).y
    BY <1>2
  <2>2. end <= y <=> v[to].y <= Centre(x, y).y
    BY <1>3
  <2>3. Centre(x, y).y < v[to].y <=> ~(v[to].y <= Centre(x, y).y)
    BY <1>1, <1>4 DEF IsPoint
  <2>4. y \in first..(end - 1) <=> first <= y /\ ~(end <= y)
    OBVIOUS
  <2> QED BY <2>1, <2>2, <2>3, <2>4 DEF OfHalf
<1>6. PICK rows \in Int : rows = HalfRows(v, from, to)
  BY <1>1, <1>2, <1>3 DEF HalfRows
<1>7. rows > 0 => rows = end - first /\ v[from].y < v[to].y
  BY <1>1, <1>2, <1>3, <1>6 DEF HalfRows, IsPoint
<1>8. rows <= 0 => end <= first
  <2>1. v[to].y > v[from].y \/ v[to].y = v[from].y
    BY <1>1 DEF IsPoint
  <2>2. v[to].y = v[from].y => end = first
    BY <1>2, <1>3
  <2> QED BY <1>2, <1>3, <1>6, <2>1, <2>2 DEF HalfRows
<1> DEFINE long == Edge(v[1], v[3])
           short == Edge(v[from], v[to])
           left == LongIsLeft(v)
           part == Half(v, from, to, SubBits)
<1>9. part = DrawnPart(IF left THEN long ELSE short, IF left THEN short ELSE long, first, rows, SubBits)
  BY <1>2, <1>6 DEF Half
<1>10. left <=> Twice(v[1], v[2], v[3]) > 0
  <2>1. PICK a \in Int, b \in Int : /\ a = (v[2].x - v[1].x) * (v[3].y - v[1].y)
                                    /\ b = (v[3].x - v[1].x) * (v[2].y - v[1].y)
    <3>1. /\ (v[2].x - v[1].x) * (v[3].y - v[1].y) \in Int
          /\ (v[3].x - v[1].x) * (v[2].y - v[1].y) \in Int
      BY DEF IsPoint
    <3> QED BY <3>1
  <2>2. (v[3].y - v[1].y) * (v[2].x - v[1].x) = a
    BY <2>1 DEF IsPoint
  <2>3. left <=> b < a
    BY <2>1, <2>2 DEF LongIsLeft
  <2>4. Twice(v[1], v[2], v[3]) = a - b
    BY <2>1 DEF Twice
  <2> QED BY <2>1, <2>3, <2>4
<1> HIDE DEF left, part
<1>11. CASE rows <= 0
  <2>1. part = <<>>
    BY <1>9, <1>11 DEF DrawnPart, Between
  <2>2. ASSUME NEW x \in Int, NEW y \in Int PROVE ~OfHalf(v, from, to, x, y)
    <3>1. ~(y \in first..(end - 1))
      BY <1>8, <1>11
    <3> QED BY <1>5, <3>1
  <2> QED BY <2>1, <2>2 DEF part
<1>12. CASE rows > 0
  <2>1. rows \in Nat \ {0} /\ first + rows = end /\ v[from].y < v[to].y /\ v[1].y < v[3].y
    BY <1>1, <1>7, <1>12 DEF IsPoint
  <2>2. \A y \in first..(first + rows - 1) :
          /\ v[1].y <= Centre(0, y).y /\ Centre(0, y).y < v[3].y
          /\ v[from].y <= Centre(0, y).y /\ Centre(0, y).y < v[to].y
    <3>1. TAKE y \in first..(first + rows - 1)
    <3>2. y \in Int /\ first <= y /\ ~(end <= y)
      BY <2>1
    <3>3. v[from].y <= Centre(0, y).y /\ ~(v[to].y <= Centre(0, y).y) /\ Centre(0, y).y \in Int
      <4>1. 0 \in Int
        OBVIOUS
      <4>2. first <= y <=> v[from].y <= Centre(0, y).y
        BY <1>2, <3>2, <4>1
      <4>3. end <= y <=> v[to].y <= Centre(0, y).y
        BY <1>3, <3>2, <4>1
      <4> QED BY <1>4, <3>2, <4>1, <4>2, <4>3
    <3> QED BY <1>1, <3>3 DEF IsPoint
  <2>3. ASSUME NEW x \in Int, NEW y \in Int
        PROVE  /\ Inward(v[1], v[3], Centre(x, y)) \in Int
               /\ Inward(v[from], v[to], Centre(x, y)) \in Int
    BY <1>1, <1>4, HasTurned
  <2> DEFINE Same(p, q, a, b) ==
               \A x, y \in Int : Amid(p, q, a, b, first, rows, x, y) <=> OfHalf(v, from, to, x, y)
  <2>4. ASSUME NEW p, NEW q, NEW a, NEW b, PaintsAmid(part, p, q, a, b, first, rows), Same(p, q, a, b)
        PROVE  \/ part = <<>> /\ \A x, y \in Int : ~OfHalf(v, from, to, x, y)
               \/ \E t : part = <<t>> /\ PaintsHalf(t, v, from, to)
    <3>1. CASE part = <<>> /\ \A x, y \in Int : ~Amid(p, q, a, b, first, rows, x, y)
      BY <2>4, <3>1
    <3>2. CASE \E t : /\ part = <<t>> /\ t.h > 0 /\ first <= t.y /\ t.y + t.h = first + rows
                      /\ Columned(t)
                      /\ \A x, y \in Int : Paints(t, x, y) <=> Amid(p, q, a, b, first, rows, x, y)
      <4>1. PICK t : /\ part = <<t>> /\ t.h > 0 /\ first <= t.y /\ t.y + t.h = first + rows
                     /\ Columned(t)
                     /\ \A x, y \in Int : Paints(t, x, y) <=> Amid(p, q, a, b, first, rows, x, y)
        BY <3>2
      <4>2. \A x, y \in Int : Paints(t, x, y) <=> OfHalf(v, from, to, x, y)
        BY <2>4, <4>1, Zenon
      <4>3. PaintsHalf(t, v, from, to)
        BY <1>2, <1>3, <2>1, <4>1, <4>2 DEF PaintsHalf
      <4> QED BY <4>1, <4>3
    <3> QED BY <2>4, <3>1, <3>2 DEF PaintsAmid
  <2>5. CASE left
    <3>1. part = DrawnPart(long, short, first, rows, SubBits)
      BY <1>9, <2>5
    <3>2. PaintsAmid(part, v[1], v[3], v[from], v[to], first, rows)
      <4>1. /\ v[3].y > v[1].y /\ v[to].y > v[from].y
            /\ \A c \in {v[1], v[3], v[from], v[to]} : Abs(c.x) <= CoordLimit * SubOne
        BY <1>1, <2>1 DEF IsPoint
      <4> QED BY <1>1, <2>1, <2>2, <3>1, <4>1, BetweenPaints
    <3>3. Same(v[1], v[3], v[from], v[to])
      <4>1. TAKE x \in Int, y \in Int
      <4>2. Spans(v[1], v[2], v[3], v[from], v[to], Centre(x, y)) <=>
              Inward(v[1], v[3], Centre(x, y)) <= 0 /\ Inward(v[from], v[to], Centre(x, y)) > 0
        BY <1>10, <2>5 DEF Spans
      <4> QED BY <1>5, <2>1, <4>2 DEF Amid
    <3> HIDE DEF Same
    <3> QED BY <2>4, <3>2, <3>3 DEF part
  <2>6. CASE ~left
    <3>1. part = DrawnPart(short, long, first, rows, SubBits)
      BY <1>9, <2>6
    <3>2. PaintsAmid(part, v[from], v[to], v[1], v[3], first, rows)
      BY <1>1, <2>1, <2>2, <3>1, BetweenPaints
    <3>3. Same(v[from], v[to], v[1], v[3])
      <4>1. TAKE x \in Int, y \in Int
      <4>2. Spans(v[1], v[2], v[3], v[from], v[to], Centre(x, y)) <=>
              Inward(v[from], v[to], Centre(x, y)) <= 0 /\ Inward(v[1], v[3], Centre(x, y)) > 0
        BY <1>10, <2>6 DEF Spans
      <4> QED BY <1>5, <2>1, <4>2 DEF Amid
    <3> HIDE DEF Same
    <3> QED BY <2>4, <3>2, <3>3 DEF part
  <2> QED BY <2>5, <2>6
<1> QED BY <1>11, <1>12

\* The corners in order are the corners.
LEMMA ByYKeeps ==
  ASSUME NEW tri, \A i \in 1..3 : CoordOK(tri[i])
  PROVE  \A i \in 1..3 : CoordOK(ByY(tri)[i])
<1> DEFINE one == IF tri[1].y > tri[2].y THEN <<tri[2], tri[1], tri[3]>> ELSE tri
           two == IF one[2].y > one[3].y THEN <<one[1], one[3], one[2]>> ELSE one
           three == IF two[1].y > two[2].y THEN <<two[2], two[1], two[3]>> ELSE two
           Good(t) == CoordOK(t[1]) /\ CoordOK(t[2]) /\ CoordOK(t[3])
<1>1. Good(tri)
  OBVIOUS
<1>2. ASSUME NEW t, Good(t) PROVE Good(<<t[2], t[1], t[3]>>) /\ Good(<<t[1], t[3], t[2]>>)
  BY <1>2
<1>3. ByY(tri) = three
  BY DEF ByY
<1> HIDE DEF Good
<1>4. Good(one)
  BY <1>1, <1>2
<1> HIDE DEF one
<1>5. Good(two)
  BY <1>2, <1>4
<1> HIDE DEF two
<1>6. Good(three)
  BY <1>2, <1>5
<1> HIDE DEF three
<1>7. CoordOK(three[1]) /\ CoordOK(three[2]) /\ CoordOK(three[3])
  BY <1>6 DEF Good
<1>8. \A i \in 1..3 : i = 1 \/ i = 2 \/ i = 3
  OBVIOUS
<1> QED BY <1>3, <1>7, <1>8

\* One or none, and one or none after it.
IsOne(s) == \E t : s = <<t>>
LEMMA JoinIs ==
  ASSUME NEW a, a = <<>> \/ IsOne(a), NEW b, b = <<>> \/ IsOne(b)
  PROVE  \E n \in Nat :
           /\ n = Len(a) + Len(b) /\ DOMAIN (a \o b) = 1..n
           /\ \A i \in 1..n : (a \o b)[i] = IF i <= Len(a) THEN a[i] ELSE b[i - Len(a)]
<1>1. PICK x : a = <<>> \/ a = <<x>>
  BY DEF IsOne
<1>2. PICK y : b = <<>> \/ b = <<y>>
  BY DEF IsOne
<1>3. <<x>> \in Seq({x, y}) /\ <<y>> \in Seq({x, y})
  OBVIOUS
<1>4. a \in Seq({x, y}) /\ b \in Seq({x, y})
  <2>1. <<>> \in Seq({x, y})
    BY EmptySeq
  <2> QED BY <1>1, <1>2, <1>3, <2>1
<1>5. /\ a \o b \in Seq({x, y}) /\ Len(a \o b) = Len(a) + Len(b)
      /\ \A i \in 1..(Len(a) + Len(b)) :
           (a \o b)[i] = IF i <= Len(a) THEN a[i] ELSE b[i - Len(a)]
  BY <1>4, ConcatProperties
<1>6. PICK n \in Nat : n = Len(a) + Len(b)
  BY <1>1, <1>2
<1>7. DOMAIN (a \o b) = 1..n
  BY <1>5, <1>6
<1> QED BY <1>5, <1>6, <1>7

\* The trapezoids of a triangle have its pixels between them, from the top down.
PaintsTriangle(halves, tri) ==
  /\ \A i \in DOMAIN halves : halves[i].h > 0 /\ Columned(halves[i])
  /\ \A i, j \in DOMAIN halves : i < j => halves[i].y + halves[i].h <= halves[j].y
  /\ \A x, y \in Int : Covers(tri, x, y) <=> \E i \in DOMAIN halves : Paints(halves[i], x, y)
LEMMA HalvesPaint ==
  ASSUME NEW tri, IsTriangle(tri), Doubled(tri) # 0, CoordLimit \in Nat,
         \A i \in 1..3 : CoordOK(tri[i])
  PROVE  PaintsTriangle(Half(ByY(tri), 1, 2, SubBits) \o Half(ByY(tri), 2, 3, SubBits), tri)
<1>1. PICK v : v = ByY(tri)
  OBVIOUS
<1>2. /\ IsPoint(v[1]) /\ IsPoint(v[2]) /\ IsPoint(v[3]) /\ v[1].y <= v[2].y /\ v[2].y <= v[3].y
      /\ \A i \in 1..3 : Abs(v[i].x) <= CoordLimit * SubOne
  <2>1. IsCorners(v) /\ v[1].y <= v[2].y /\ v[2].y <= v[3].y
    BY <1>1, ByYSorts
  <2>2. \A i \in 1..3 : CoordOK(v[i])
    BY <1>1, ByYKeeps
  <2>3. \A i \in 1..3 : Abs(v[i].x) <= CoordLimit * SubOne
    BY <2>2 DEF CoordOK
  <2>4. \A i \in 1..3 : IsPoint(v[i])
    BY <2>1 DEF IsCorners, IsPoint
  <2> QED BY <2>1, <2>3, <2>4
<1>3. \A x, y \in Int : Covers(tri, x, y) <=> Inside(v[1], v[2], v[3], Centre(x, y))
  BY <1>1, InsideSorted
<1>4. Twice(v[1], v[2], v[3]) # 0
  <2>1. 0 \in Int
    OBVIOUS
  <2> QED BY <1>1, <2>1, InsideSorted, CoversIs
<1>5. \A x, y \in Int : Covers(tri, x, y) <=> OfHalf(v, 1, 2, x, y) \/ OfHalf(v, 2, 3, x, y)
  <2>1. TAKE x \in Int, y \in Int
  <2>2. IsPoint(Centre(x, y))
    BY CentreIs DEF IsPoint
  <2> QED BY <1>2, <1>3, <1>4, <2>2, FillRule DEF OfHalf
<1>6. PICK a : a = Half(v, 1, 2, SubBits)
  OBVIOUS
<1>7. PICK b : b = Half(v, 2, 3, SubBits)
  OBVIOUS
<1>8. \/ a = <<>> /\ \A x, y \in Int : ~OfHalf(v, 1, 2, x, y)
      \/ \E t : a = <<t>> /\ PaintsHalf(t, v, 1, 2)
  <2>1. 1 \in {1, 2} /\ 2 \in {2, 3} /\ 2 = 1 + 1
    OBVIOUS
  <2> QED BY <1>2, <1>4, <1>6, <2>1, HalfPaints
<1>9. \/ b = <<>> /\ \A x, y \in Int : ~OfHalf(v, 2, 3, x, y)
      \/ \E t : b = <<t>> /\ PaintsHalf(t, v, 2, 3)
  <2>1. 2 \in {1, 2} /\ 3 \in {2, 3} /\ 3 = 2 + 1
    OBVIOUS
  <2> QED BY <1>2, <1>4, <1>7, <2>1, HalfPaints
<1>10. PICK s : s = a \o b
  OBVIOUS
<1>11. PICK n \in Nat : /\ n = Len(a) + Len(b) /\ DOMAIN s = 1..n
                        /\ \A i \in 1..n : s[i] = IF i <= Len(a) THEN a[i] ELSE b[i - Len(a)]
  <2>1. (a = <<>> \/ IsOne(a)) /\ (b = <<>> \/ IsOne(b))
    BY <1>8, <1>9 DEF IsOne
  <2> QED BY <1>10, <2>1, JoinIs
<1>12. CASE a = <<>> /\ b = <<>>
  <2>1. DOMAIN s = {}
    BY <1>11, <1>12
  <2>2. \A x, y \in Int : ~Covers(tri, x, y)
    BY <1>5, <1>8, <1>9, <1>12
  <2>3. PaintsTriangle(s, tri)
    BY <2>1, <2>2 DEF PaintsTriangle
  <2> QED BY <1>1, <1>6, <1>7, <1>10, <2>3
<1>13. CASE a # <<>> /\ b = <<>>
  <2>1. PICK t : a = <<t>> /\ PaintsHalf(t, v, 1, 2)
    BY <1>8, <1>13
  <2>2. DOMAIN s = {1} /\ s[1] = t
    BY <1>11, <1>13, <2>1
  <2>3. \A x, y \in Int : Covers(tri, x, y) <=> Paints(t, x, y)
    BY <1>5, <1>9, <1>13, <2>1 DEF PaintsHalf
  <2>4. PaintsTriangle(s, tri)
    BY <2>1, <2>2, <2>3 DEF PaintsTriangle, PaintsHalf
  <2> QED BY <1>1, <1>6, <1>7, <1>10, <2>4
<1>14. CASE a = <<>> /\ b # <<>>
  <2>1. PICK t : b = <<t>> /\ PaintsHalf(t, v, 2, 3)
    BY <1>9, <1>14
  <2>2. DOMAIN s = {1} /\ s[1] = t
    BY <1>11, <1>14, <2>1
  <2>3. \A x, y \in Int : Covers(tri, x, y) <=> Paints(t, x, y)
    BY <1>5, <1>8, <1>14, <2>1 DEF PaintsHalf
  <2>4. PaintsTriangle(s, tri)
    BY <2>1, <2>2, <2>3 DEF PaintsTriangle, PaintsHalf
  <2> QED BY <1>1, <1>6, <1>7, <1>10, <2>4
<1>15. CASE a # <<>> /\ b # <<>>
  <2>1. PICK t : a = <<t>> /\ PaintsHalf(t, v, 1, 2)
    BY <1>8, <1>15
  <2>2. PICK u : b = <<u>> /\ PaintsHalf(u, v, 2, 3)
    BY <1>9, <1>15
  <2>3. DOMAIN s = {1, 2} /\ s[1] = t /\ s[2] = u
    BY <1>11, <2>1, <2>2
  <2>4. \A x, y \in Int : Covers(tri, x, y) <=> Paints(t, x, y) \/ Paints(u, x, y)
    BY <1>5, <2>1, <2>2 DEF PaintsHalf
  <2>5. t.y + t.h <= u.y
    <3>1. RowOf(v[2].y) \in Int
      BY <1>2, RowOfTyped DEF IsPoint
    <3> QED BY <2>1, <2>2, <3>1 DEF PaintsHalf
  <2>6. \A i, j \in DOMAIN s : i < j => s[i].y + s[i].h <= s[j].y
    BY <2>3, <2>5
  <2>7. PaintsTriangle(s, tri)
    BY <2>1, <2>2, <2>3, <2>4, <2>6 DEF PaintsTriangle, PaintsHalf
  <2> QED BY <1>1, <1>6, <1>7, <1>10, <2>7
<1> QED BY <1>12, <1>13, <1>14, <1>15
-----------------------------------------------------------------------------
(* What is built, and what is taken of it.                                   *)

\* A flat triangle covers nothing.
LEMMA FlatCovers ==
  ASSUME NEW tri, IsTriangle(tri), Doubled(tri) = 0, NEW x \in Int, NEW y \in Int
  PROVE  ~Covers(tri, x, y)
<1> SUFFICES ASSUME Covers(tri, x, y) PROVE FALSE
  OBVIOUS
<1>1. PICK a, b, c : a = tri[1] /\ b = tri[2] /\ c = tri[3]
  OBVIOUS
<1>2. PICK v : v = Centre(x, y)
  OBVIOUS
<1>3. IsPoint(a) /\ IsPoint(b) /\ IsPoint(c) /\ IsPoint(v)
  <2>1. \A i \in 1..3 : IsPoint(tri[i])
    BY DEF IsTriangle, IsPoint
  <2> QED BY <1>1, <1>2, <2>1, CentreIs DEF IsPoint
<1>4. Twice(a, b, c) = 0 /\ Inside(a, b, c, v)
  BY <1>1, <1>2, CoversIs
<1>5. Sign(0) = 1
  BY DEF Sign
<1>6. Has(1, a, b, v) /\ Has(1, b, c, v) /\ Has(1, c, a, v)
  BY <1>4, <1>5 DEF Inside
<1>7. PICK p \in Int, q \in Int : p = Inward(a, b, v) /\ q = Inward(b, c, v)
  BY <1>3, HasTurned
<1>8. PICK r \in Int : r = Inward(c, a, v)
  BY <1>3, HasTurned
<1>9. p + q + r = 0
  BY <1>3, <1>4, <1>7, <1>8, Balance
<1>10. /\ 1 * p > 0 \/ (1 * p = 0 /\ (1 * (b.y - a.y) < 0 \/ (b.y = a.y /\ 1 * (b.x - a.x) > 0)))
       /\ 1 * q > 0 \/ (1 * q = 0 /\ (1 * (c.y - b.y) < 0 \/ (c.y = b.y /\ 1 * (c.x - b.x) > 0)))
       /\ 1 * r > 0 \/ (1 * r = 0 /\ (1 * (a.y - c.y) < 0 \/ (a.y = c.y /\ 1 * (a.x - c.x) > 0)))
  BY <1>6, <1>7, <1>8 DEF Has
<1> QED BY <1>3, <1>9, <1>10 DEF IsPoint

\* A point that a triangle has lies between the least and the greatest of its corners.
LEMMA InsideBetween ==
  ASSUME NEW a, IsPoint(a), NEW b, IsPoint(b), NEW c, IsPoint(c), NEW v, IsPoint(v),
         Twice(a, b, c) # 0, Inside(a, b, c, v)
  PROVE  /\ a.x <= v.x \/ b.x <= v.x \/ c.x <= v.x
         /\ a.x >= v.x \/ b.x >= v.x \/ c.x >= v.x
         /\ a.y <= v.y \/ b.y <= v.y \/ c.y <= v.y
         /\ a.y >= v.y \/ b.y >= v.y \/ c.y >= v.y
<1>1. PICK s \in {-1, 1} : s = Sign(Twice(a, b, c))
  BY DEF Sign
<1>2. PICK p \in Int, q \in Int : p = Inward(a, b, v) /\ q = Inward(b, c, v)
  BY HasTurned
<1>3. PICK r \in Int : r = Inward(c, a, v)
  BY HasTurned
<1>4. s * p >= 0 /\ s * q >= 0 /\ s * r >= 0
  <2>1. Has(s, a, b, v) /\ Has(s, b, c, v) /\ Has(s, c, a, v)
    BY <1>1 DEF Inside
  <2>2. /\ s * p > 0 \/ s * p = 0
        /\ s * q > 0 \/ s * q = 0
        /\ s * r > 0 \/ s * r = 0
    BY <1>2, <1>3, <2>1 DEF Has
  <2> QED BY <2>2
<1>5. p + q + r # 0
  BY <1>2, <1>3, Balance
<1>6. ASSUME NEW k \in Int, NEW l \in Int, NEW m \in Int, q * k + r * l + p * m = 0
      PROVE  ~(k > 0 /\ l > 0 /\ m > 0) /\ ~(k < 0 /\ l < 0 /\ m < 0)
  <2>1. PICK P \in Int, Q \in Int, R \in Int : P = s * p /\ Q = s * q /\ R = s * r
    OBVIOUS
  <2>2. P >= 0 /\ Q >= 0 /\ R >= 0 /\ (P > 0 \/ Q > 0 \/ R > 0)
    BY <1>4, <1>5, <2>1
  <2>3. Q * k + R * l + P * m = 0
    <3>1. s * (q * k + r * l + p * m) = (s * q) * k + (s * r) * l + (s * p) * m
      OBVIOUS
    <3> QED BY <1>6, <2>1, <3>1
  <2>4. PICK X \in Int, Y \in Int, Z \in Int : X = Q * k /\ Y = R * l /\ Z = P * m
    OBVIOUS
  <2>5. X + Y + Z = 0
    BY <2>3, <2>4
  <2>6. ASSUME k > 0, l > 0, m > 0 PROVE FALSE
    <3>1. X >= 0 /\ Y >= 0 /\ Z >= 0 /\ (X > 0 \/ Y > 0 \/ Z > 0)
      BY <2>2, <2>4, <2>6, Signs
    <3> QED BY <2>5, <3>1
  <2>7. ASSUME k < 0, l < 0, m < 0 PROVE FALSE
    <3>1. X <= 0 /\ Y <= 0 /\ Z <= 0 /\ (X < 0 \/ Y < 0 \/ Z < 0)
      BY <2>2, <2>4, <2>7, Signs
    <3> QED BY <2>5, <3>1
  <2> QED BY <2>6, <2>7
<1>7. PICK ax \in Int, bx \in Int, cx \in Int : ax = a.x - v.x /\ bx = b.x - v.x /\ cx = c.x - v.x
  BY DEF IsPoint
<1>8. PICK ay \in Int, by \in Int, cy \in Int : ay = a.y - v.y /\ by = b.y - v.y /\ cy = c.y - v.y
  BY DEF IsPoint
<1>9. q * ay + r * by + p * cy = 0 /\ q * ax + r * bx + p * cx = 0
  BY <1>2, <1>3, <1>7, <1>8, Balance
<1>10. ~(ax > 0 /\ bx > 0 /\ cx > 0) /\ ~(ax < 0 /\ bx < 0 /\ cx < 0)
  BY <1>6, <1>9
<1>11. ~(ay > 0 /\ by > 0 /\ cy > 0) /\ ~(ay < 0 /\ by < 0 /\ cy < 0)
  BY <1>6, <1>9
<1> QED BY <1>7, <1>8, <1>10, <1>11 DEF IsPoint

\* A cell whose centre lies between the least and the greatest is one of those looked at.
LEMMA InCells ==
  ASSUME NEW i \in Int, NEW j \in Int, NEW k \in Int, NEW n \in Int,
         NEW c, c = SubOne * n + SubOne \div 2,
         i <= c \/ j <= c \/ k <= c, i >= c \/ j >= c \/ k >= c
  PROVE  n \in (Min({i, j, k}) \div SubOne - 1)..(Max({i, j, k}) \div SubOne + 1)
<1>1. PICK H \in Nat \ {0} : SubOne = 2 * H /\ SubOne \div 2 = H
  BY HalfOne
<1>2. PICK M \in Nat \ {0} : M = SubOne
  BY <1>1
<1>3. PICK S : S = {i, j, k}
  OBVIOUS
<1>4. S \in SUBSET Int /\ S # {} /\ i \in S /\ j \in S /\ k \in S
  BY <1>3
<1>5. \E N \in Int : \A x \in S : N <= x
  <2>1. \/ \A x \in {i, j, k} : i <= x
        \/ \A x \in {i, j, k} : j <= x
        \/ \A x \in {i, j, k} : k <= x
    OBVIOUS
  <2> QED BY <1>3, <2>1
<1>6. \E N \in Int : \A x \in S : x <= N
  <2>1. \/ \A x \in {i, j, k} : x <= i
        \/ \A x \in {i, j, k} : x <= j
        \/ \A x \in {i, j, k} : x <= k
    OBVIOUS
  <2> QED BY <1>3, <2>1
<1>7. PICK lo \in Int : lo = Min(S) /\ \A x \in S : lo <= x
  BY <1>4, <1>5, LeastOf
<1>8. PICK hi \in Int : hi = Max(S) /\ \A x \in S : x <= hi
  BY <1>4, <1>6, GreatestOf
<1>9. PICK d \in Int : d = lo \div M /\ lo - d * M \in 0..(M - 1)
  BY DivisionIs
<1>10. PICK e \in Int : e = hi \div M /\ hi - e * M \in 0..(M - 1)
  BY DivisionIs
<1>11. c \in Int /\ c = M * n + H /\ M = 2 * H
  BY <1>1, <1>2
<1>12. lo <= c /\ c <= hi
  BY <1>4, <1>7, <1>8, <1>11
<1>13. d <= n
  <2>1. d * M < M * (n + 1)
    BY <1>9, <1>11, <1>12
  <2>2. ~(d <= n) => M * (n + 1) <= d * M
    OBVIOUS
  <2> QED BY <2>1, <2>2
<1>14. n <= e
  <2>1. M * n < M * (e + 1)
    BY <1>10, <1>11, <1>12
  <2>2. ~(n <= e) => M * (e + 1) <= M * n
    OBVIOUS
  <2> QED BY <2>1, <2>2
<1>15. n \in (d - 1)..(e + 1)
  BY <1>13, <1>14
<1> QED BY <1>2, <1>3, <1>7, <1>8, <1>9, <1>10, <1>15

\* The pixels a triangle covers are those of all there are.
LEMMA CoveredAre ==
  ASSUME NEW tri, IsTriangle(tri)
  PROVE  Covered(tri) = {p \in Int \X Int : Covers(tri, p[1], p[2])}
<1> DEFINE Cells(vs) == (Min(vs) \div SubOne - 1)..(Max(vs) \div SubOne + 1)
           X == Cells({tri[i].x : i \in 1..3})
           Y == Cells({tri[i].y : i \in 1..3})
<1>1. Covered(tri) = {p \in X \X Y : Covers(tri, p[1], p[2])}
  BY DEF Covered
<1>2. PICK a, b, c : a = tri[1] /\ b = tri[2] /\ c = tri[3]
  OBVIOUS
<1>3. IsPoint(a) /\ IsPoint(b) /\ IsPoint(c)
  <2>1. \A i \in 1..3 : IsPoint(tri[i])
    BY DEF IsTriangle, IsPoint
  <2> QED BY <1>2, <2>1
<1>4. {tri[i].x : i \in 1..3} = {a.x, b.x, c.x} /\ {tri[i].y : i \in 1..3} = {a.y, b.y, c.y}
  <2>1. 1..3 = {1, 2, 3}
    OBVIOUS
  <2> QED BY <1>2, <2>1
<1>5. X = Cells({a.x, b.x, c.x}) /\ Y = Cells({a.y, b.y, c.y})
  BY <1>4
<1>6. ASSUME NEW i \in Int, NEW j \in Int, NEW k \in Int, NEW n \in Int,
             NEW d, d = SubOne * n + SubOne \div 2,
             i <= d \/ j <= d \/ k <= d, i >= d \/ j >= d \/ k >= d
      PROVE  n \in Cells({i, j, k})
  BY <1>6, InCells
<1>7. ASSUME NEW i \in Int, NEW j \in Int, NEW k \in Int
      PROVE  Cells({i, j, k}) \subseteq Int
  <2>1. \E H \in Nat \ {0} : SubOne = 2 * H /\ SubOne \div 2 = H
    BY HalfOne
  <2>2. SubOne \in Nat \ {0}
    BY <2>1
  <2>3. PICK n \in Int : n = i \div SubOne
    BY <2>2
  <2> DEFINE lo == Min({i, j, k}) \div SubOne - 1
             hi == Max({i, j, k}) \div SubOne + 1
  <2>4. lo \in Int /\ hi \in Int
    <3> DEFINE S == {i, j, k}
    <3>1. S \in SUBSET Int /\ S # {}
      OBVIOUS
    <3>2. \E N \in Int : \A x \in S : N <= x
      <4>1. \/ \A x \in {i, j, k} : i <= x
            \/ \A x \in {i, j, k} : j <= x
            \/ \A x \in {i, j, k} : k <= x
        OBVIOUS
      <4> QED BY <4>1
    <3>3. \E N \in Int : \A x \in S : x <= N
      <4>1. \/ \A x \in {i, j, k} : x <= i
            \/ \A x \in {i, j, k} : x <= j
            \/ \A x \in {i, j, k} : x <= k
        OBVIOUS
      <4> QED BY <4>1
    <3> HIDE DEF S
    <3>4. Min(S) \in Int
      BY <3>1, <3>2, LeastOf
    <3>5. Max(S) \in Int
      BY <3>1, <3>3, GreatestOf
    <3>6. Min(S) \div SubOne \in Int /\ Max(S) \div SubOne \in Int
      BY <2>2, <3>4, <3>5, DivisionIs
    <3> QED BY <3>6 DEF S
  <2> HIDE DEF lo, hi
  <2>5. lo..hi \subseteq Int
    BY <2>4
  <2> QED BY <2>5 DEF lo, hi
<1> HIDE DEF Cells
<1>8. X \subseteq Int /\ Y \subseteq Int
  BY <1>3, <1>5, <1>7 DEF IsPoint
<1>9. ASSUME NEW x \in Int, NEW y \in Int, Covers(tri, x, y) PROVE x \in X /\ y \in Y
  <2>1. PICK v : v = Centre(x, y)
    OBVIOUS
  <2>2. IsPoint(v) /\ v.x = SubOne * x + SubOne \div 2 /\ v.y = SubOne * y + SubOne \div 2
    BY <2>1, CentreIs DEF Centre, IsPoint
  <2>3. Twice(a, b, c) # 0 /\ Inside(a, b, c, v)
    BY <1>2, <1>9, <2>1, CoversIs, FlatCovers
  <2>4. /\ a.x <= v.x \/ b.x <= v.x \/ c.x <= v.x
        /\ a.x >= v.x \/ b.x >= v.x \/ c.x >= v.x
        /\ a.y <= v.y \/ b.y <= v.y \/ c.y <= v.y
        /\ a.y >= v.y \/ b.y >= v.y \/ c.y >= v.y
    BY <1>3, <2>2, <2>3, InsideBetween
  <2>5. x \in Cells({a.x, b.x, c.x}) /\ y \in Cells({a.y, b.y, c.y})
    <3>1. {a.x, b.x, c.x, a.y, b.y, c.y} \subseteq Int
      BY <1>3 DEF IsPoint
    <3> QED BY <1>6, <2>2, <2>4, <3>1
  <2> QED BY <1>5, <2>5
<1> HIDE DEF X, Y
<1>10. \A p \in Int \X Int : Covers(tri, p[1], p[2]) => p \in X \X Y
  BY <1>9
<1>11. \A p \in X \X Y : p \in Int \X Int
  BY <1>8
<1> QED BY <1>1, <1>10, <1>11

\* A trapezoid as the batch holds it, and the one that was walked.
Wears(d, t) ==
  /\ d.y = t.y /\ d.h = t.h /\ d.sgn = t.sgn
  /\ d.ar0 = t.ar0 /\ d.ar1 = t.ar1 /\ d.ar2 = t.ar2
  /\ d.ar4 = t.ar4 /\ d.ar5 = t.ar5 /\ d.ar6 = t.ar6
  /\ d.left = t.left % 65536 /\ d.right = t.right % 65536
Wearing(tris, halves) ==
  DOMAIN tris = DOMAIN halves /\ \A i \in DOMAIN tris : Wears(tris[i], halves[i])

\* Dressed, a trapezoid keeps its rows and its edges, but for what its columns lose.
LEMMA DressedWears ==
  ASSUME NEW t, NEW tri, NEW u, NEW prim, NEW offset
  PROVE  Wears(Dressed(t, tri, u, prim, offset), t)
<1>1. PICK d : d = Dressed(t, tri, u, prim, offset)
  OBVIOUS
<1>2. PICK colour : colour = ColourOf(t, tri)
  OBVIOUS
<1>3. PICK depth, dr : depth = DepthOf(t, tri, offset) /\ dr = {colour[i] : i \in 1..3}
  OBVIOUS
<1>4. PICK anchor : anchor = IF prim.opcode = OpTex THEN AnchorOf(t, tri, u) ELSE 0
  OBVIOUS
<1>5. PICK left, right : left = t.left % 65536 /\ right = t.right % 65536
  OBVIOUS
<1>6. d = [y |-> t.y, h |-> t.h, left |-> left, right |-> right, sgn |-> t.sgn,
           ar0 |-> t.ar0, ar1 |-> t.ar1, ar2 |-> t.ar2, ar4 |-> t.ar4, ar5 |-> t.ar5, ar6 |-> t.ar6,
           prim |-> prim, colour |-> colour, dr |-> dr, depth |-> depth,
           tu0 |-> anchor, tv0 |-> 0, tq0 |-> QOne]
  BY <1>1, <1>2, <1>3, <1>4, <1>5 DEF Dressed
<1>7. /\ d.y = t.y /\ d.h = t.h /\ d.sgn = t.sgn
      /\ d.ar0 = t.ar0 /\ d.ar1 = t.ar1 /\ d.ar2 = t.ar2
      /\ d.ar4 = t.ar4 /\ d.ar5 = t.ar5 /\ d.ar6 = t.ar6
      /\ d.left = left /\ d.right = right
  BY <1>6
<1> QED BY <1>1, <1>5, <1>7 DEF Wears

\* The builder's answer is a truth, and a triangle it built it is content with.
Contented(built) == built.ok = TRUE \/ (built.ok = FALSE /\ built.tris = <<>>)
LEMMA BuiltOk ==
  ASSUME NEW tri, NEW prim, NEW repeats, NEW offset,
         NEW built, built = BuildTriangle(tri, prim, repeats, offset)
  PROVE  Contented(built)
<1> DEFINE v == ByY(tri)
           s == Precision(v)
           u == Rebased(<<tri[1].u, tri[2].u, tri[3].u>>, repeats)
           halves == Half(v, 1, 2, s) \o Half(v, 2, 3, s)
           dressed == [i \in DOMAIN halves |-> Dressed(halves[i], tri, u, prim, offset)]
           no == [ok |-> FALSE, tris |-> <<>>, tmr |-> <<0, 0, 0, 0, 0, 0>>]
           flat == [no EXCEPT !.ok = TRUE]
           done == [ok |-> TRUE, tmr |-> TmrOf(tri, u), tris |-> dressed]
<1>1. \/ built = no \/ built = flat \/ built = done
  <2> DEFINE far == \E i \in 1..3 : ~CoordOK(tri[i])
             offsets == ~OffsetOK(tri, offset)
             texture == prim.opcode = OpTex /\ ~TexInRange(u)
             vanishes == HalfVanishes(v, 1, 2, s) \/ HalfVanishes(v, 2, 3, s)
  <2>1. built = IF far THEN no
                ELSE IF Doubled(tri) = 0 THEN flat
                ELSE IF offsets THEN no
                ELSE IF texture THEN no
                ELSE IF vanishes THEN no
                ELSE done
    BY DEF BuildTriangle
  <2> HIDE DEF far, no, flat, done, offsets, texture, vanishes
  <2> QED BY <2>1
<1>2. no.ok = FALSE /\ no.tris = <<>> /\ flat.ok = TRUE /\ done.ok = TRUE
  OBVIOUS
<1> HIDE DEF no, flat, done
<1> QED BY <1>1, <1>2 DEF Contented

\* What the builder hands on at full precision is the trapezoids of the triangle; when it
\* hands on none and is content, the triangle covers nothing.
LEMMA BuiltPaints ==
  ASSUME NEW tri, IsTriangle(tri), Exact(tri), CoordLimit \in Nat, NEW prim, NEW repeats, NEW offset,
         NEW built, built = BuildTriangle(tri, prim, repeats, offset), built.ok = TRUE
  PROVE  /\ built.tris # <<>> =>
              \E halves : PaintsTriangle(halves, tri) /\ Wearing(built.tris, halves)
         /\ built.tris = <<>> => \A x, y \in Int : ~Covers(tri, x, y)
<1> DEFINE v == ByY(tri)
           s == Precision(v)
           u == Rebased(<<tri[1].u, tri[2].u, tri[3].u>>, repeats)
           halves == Half(v, 1, 2, s) \o Half(v, 2, 3, s)
           dressed == [i \in DOMAIN halves |-> Dressed(halves[i], tri, u, prim, offset)]
           no == [ok |-> FALSE, tris |-> <<>>, tmr |-> <<0, 0, 0, 0, 0, 0>>]
           flat == [no EXCEPT !.ok = TRUE]
           done == [ok |-> TRUE, tmr |-> TmrOf(tri, u), tris |-> dressed]
           far == \E i \in 1..3 : ~CoordOK(tri[i])
           offsets == ~OffsetOK(tri, offset)
           texture == prim.opcode = OpTex /\ ~TexInRange(u)
           vanishes == HalfVanishes(v, 1, 2, s) \/ HalfVanishes(v, 2, 3, s)
<1>1. built = IF far THEN no
              ELSE IF Doubled(tri) = 0 THEN flat
              ELSE IF offsets THEN no
              ELSE IF texture THEN no
              ELSE IF vanishes THEN no
              ELSE done
  BY DEF BuildTriangle
<1>2. no.ok = FALSE /\ flat.tris = <<>> /\ done.tris = dressed
  OBVIOUS
<1> HIDE DEF no, flat, done, offsets, texture, vanishes
<1>3. /\ ~far
      /\ \/ Doubled(tri) = 0 /\ built.tris = <<>>
         \/ Doubled(tri) # 0 /\ built.tris = dressed
  <2> HIDE DEF far, dressed
  <2> QED BY <1>1, <1>2
<1>4. CASE Doubled(tri) = 0 /\ built.tris = <<>>
  BY <1>4, FlatCovers
<1>5. CASE Doubled(tri) # 0 /\ built.tris = dressed
  <2>1. s = SubBits
    BY DEF Exact
  <2>2. PaintsTriangle(halves, tri)
    BY <1>3, <1>5, <2>1, HalvesPaint
  <2> HIDE DEF halves, u
  <2>3. DOMAIN dressed = DOMAIN halves /\ \A i \in DOMAIN dressed : Wears(dressed[i], halves[i])
    <3>1. ASSUME NEW i \in DOMAIN halves PROVE Wears(dressed[i], halves[i])
      <4>1. PICK t : t = halves[i]
        OBVIOUS
      <4>2. dressed[i] = Dressed(t, tri, u, prim, offset)
        BY <4>1
      <4>3. Wears(Dressed(t, tri, u, prim, offset), t)
        BY DressedWears
      <4> QED BY <4>1, <4>2, <4>3
    <3> QED BY <3>1
  <2> HIDE DEF dressed
  <2>4. Wearing(dressed, halves)
    BY <2>3 DEF Wearing
  <2>5. ASSUME built.tris = <<>> PROVE \A x, y \in Int : ~Covers(tri, x, y)
    <3>1. DOMAIN halves = {}
      BY <1>5, <2>3, <2>5
    <3> QED BY <2>2, <3>1 DEF PaintsTriangle
  <2> QED BY <1>5, <2>2, <2>4, <2>5
<1> QED BY <1>3, <1>4, <1>5

\* A column that fits the surface is the column it was before it was cut to sixteen bits.
LEMMA ColumnStands ==
  ASSUME NEW x \in (-CoordLimit)..CoordLimit, NEW n \in 0..Stride, x % 65536 <= n
  PROVE  x % 65536 = x
<1>1. CoordLimit \in Nat /\ Stride \in Nat /\ CoordLimit + Stride < 65536
  BY ColumnAssumption
<1>2. x \in Int /\ n \in Int /\ x >= -CoordLimit /\ x <= CoordLimit /\ n <= Stride
  BY <1>1
<1>3. CASE x >= 0
  BY <1>1, <1>2, <1>3
<1>4. CASE x < 0
  <2>1. PICK z \in Int : z = x + 65536
    BY <1>2
  <2>2. 0 <= z /\ z < 65536 /\ z > n
    BY <1>1, <1>2, <1>4, <2>1
  <2>3. x % 65536 = z
    BY <1>2, <2>1, <2>2
  <2> QED BY <1>2, <2>2, <2>3
<1> QED BY <1>2, <1>3, <1>4

\* Accepted on a surface no wider than the display's pitch, they paint the triangle.
LEMMA AcceptedPaints ==
  ASSUME NEW st, IsState(st), st.dstWidth <= Stride, NEW tris, BatchHolds(st, tris), IsTris(tris),
         NEW tri, NEW halves, PaintsTriangle(halves, tri), Wearing(tris, halves)
  PROVE  PaintsTriangle(tris, tri)
<1>1. ASSUME NEW i \in DOMAIN tris
      PROVE  /\ tris[i].y = halves[i].y /\ tris[i].h = halves[i].h /\ Columned(tris[i])
             /\ \A x, y \in Int : Paints(tris[i], x, y) <=> Paints(halves[i], x, y)
  <2>1. PICK d, t : d = tris[i] /\ t = halves[i]
    OBVIOUS
  <2>2. Wears(d, t) /\ Columned(t)
    BY <2>1 DEF Wearing, PaintsTriangle
  <2>3. GeometryHolds(d, Limits(st, Window)) /\ IsTri(d)
    BY <2>1 DEF BatchHolds, IsTris
  <2>4. PICK n \in 0..Stride : n = st.dstWidth
    BY WordAssumption, ColumnAssumption DEF IsState
  <2>5. d.left <= n /\ d.right <= n
    <3>1. Limits(st, Window).clipX1 + 1 = n
      BY <2>4 DEF Limits
    <3> QED BY <2>3, <3>1 DEF GeometryHolds
  <2>6. t.left % 65536 = t.left /\ t.right % 65536 = t.right
    <3>1. t.left \in (-CoordLimit)..CoordLimit /\ t.right \in (-CoordLimit)..CoordLimit
      BY <2>2 DEF Columned
    <3>2. t.left % 65536 <= n /\ t.right % 65536 <= n
      BY <2>2, <2>5 DEF Wears
    <3> QED BY <3>1, <3>2, ColumnStands
  <2>7. d.left = t.left /\ d.right = t.right
    BY <2>2, <2>6 DEF Wears
  <2>8. ASSUME NEW k PROVE LeftAt(d, k) = LeftAt(t, k) /\ RightAt(d, k) = RightAt(t, k)
    BY <2>2, <2>7 DEF Wears, LeftAt, RightAt
  <2>9. Rows(d) = Rows(t) /\ d.y = t.y /\ d.h = t.h
    BY <2>2 DEF Wears, Rows
  <2>10. \A x, y \in Int : Paints(d, x, y) <=> Paints(t, x, y)
    BY <2>8, <2>9, Zenon DEF Paints
  <2>11. Columned(d)
    BY <2>2, <2>7 DEF Columned
  <2> QED BY <2>1, <2>9, <2>10, <2>11
<1>2. \A i \in DOMAIN tris : tris[i].h > 0 /\ Columned(tris[i])
  BY <1>1 DEF Wearing, PaintsTriangle
<1>3. \A i, j \in DOMAIN tris : i < j => tris[i].y + tris[i].h <= tris[j].y
  BY <1>1 DEF Wearing, PaintsTriangle
<1>4. \A x, y \in Int : Covers(tri, x, y) <=> \E i \in DOMAIN tris : Paints(tris[i], x, y)
  <2>1. TAKE x \in Int, y \in Int
  <2>2. DOMAIN tris = DOMAIN halves
    BY DEF Wearing
  <2>3. Covers(tri, x, y) <=> \E i \in DOMAIN halves : Paints(halves[i], x, y)
    BY Zenon DEF PaintsTriangle
  <2> QED BY <1>1, <2>2, <2>3, Zenon
<1> QED BY <1>2, <1>3, <1>4 DEF PaintsTriangle

\* A destination the driver takes is no wider than the display's pitch.
LEMMA DestinationWide ==
  ASSUME NEW st, IsState(st), Destination(st, FALSE) = "OK"
  PROVE  st.dstWidth <= Stride /\ st.dstWidth # 0 /\ st.dstHeight # 0
<1>1. ~(st.dstPitch = 0 \/ st.dstPitch > Stride \/ st.dstWidth > st.dstPitch)
      /\ DestFits(st, Window) = "OK"
  BY DEF Destination
<1>2. st.dstWidth \in Nat /\ st.dstPitch \in Nat /\ Stride \in Nat
  BY WordAssumption, ColumnAssumption DEF IsState
<1> QED BY <1>1, <1>2, DestinationAccepted
-----------------------------------------------------------------------------
(* The induction over the rows that are drawn.                               *)

\* The pixels of a box, those of them a triangle covers, and those above a row.
Boxed(box, p) ==
  p[1] \in box.x[1]..(box.x[2] - 1) /\ p[2] \in box.y[1]..(box.y[2] - 1)
PixelsOf(tri, box) == {p \in Int \X Int : Covers(tri, p[1], p[2]) /\ Boxed(box, p)}
Above(tri, box, y) == {p \in PixelsOf(tri, box) : p[2] < y}

\* The rows of the trapezoids, from the first to the last, are those of the triangle; and
\* in each the columns are.
LEMMA RowCovers ==
  ASSUME NEW tri, NEW tris, IsTris(tris), PaintsTriangle(tris, tri), NEW i \in DOMAIN tris,
         NEW row \in Rows(tris[i]), NEW x \in Int, NEW y \in Int, y = tris[i].y + row
  PROVE  Covers(tri, x, y) <=> LeftAt(tris[i], row) <= x /\ x < RightAt(tris[i], row)
<1>1. \A j \in DOMAIN tris : tris[j].y \in Int /\ tris[j].h \in Int
  BY DEF IsTris, IsTri
<1>2. DOMAIN tris \subseteq Int
  BY DEF IsTris
<1>3. Covers(tri, x, y) <=> \E j \in DOMAIN tris : Paints(tris[j], x, y)
  BY Zenon DEF PaintsTriangle
<1>4. row \in Int /\ 0 <= row /\ row < tris[i].h /\ y - tris[i].y = row
  BY <1>1 DEF Rows
<1>5. ASSUME NEW j \in DOMAIN tris, Paints(tris[j], x, y) PROVE j = i
  <2>1. tris[j].y <= y /\ y < tris[j].y + tris[j].h
    BY <1>1, <1>5 DEF Paints, Rows
  <2>2. ASSUME j < i PROVE FALSE
    <3>1. tris[j].y + tris[j].h <= tris[i].y
      BY <2>2 DEF PaintsTriangle
    <3> QED BY <1>1, <1>4, <2>1, <3>1
  <2>3. ASSUME i < j PROVE FALSE
    <3>1. tris[i].y + tris[i].h <= tris[j].y
      BY <2>3 DEF PaintsTriangle
    <3> QED BY <1>1, <1>4, <2>1, <3>1
  <2> QED BY <1>2, <2>2, <2>3
<1>6. Paints(tris[i], x, y) <=> LeftAt(tris[i], row) <= x /\ x < RightAt(tris[i], row)
  BY <1>4 DEF Paints
<1> QED BY <1>3, <1>5, <1>6

LEMMA RowsBetween ==
  ASSUME NEW tri, NEW tris, IsTris(tris), PaintsTriangle(tris, tri), NEW x \in Int, NEW y \in Int,
         Covers(tri, x, y), NEW i \in DOMAIN tris
  PROVE  /\ i = 1 => y >= tris[i].y
         /\ y >= tris[i].y + tris[i].h => i + 1 \in DOMAIN tris /\ y >= tris[i + 1].y
<1>1. \A j \in DOMAIN tris : tris[j].y \in Int /\ tris[j].h \in Int /\ tris[j].h > 0
  BY DEF IsTris, IsTri, PaintsTriangle
<1>2. PICK n \in Nat : DOMAIN tris = 1..n
  BY DEF IsTris
<1>3. PICK j \in DOMAIN tris : Paints(tris[j], x, y)
  BY DEF PaintsTriangle
<1>4. tris[j].y <= y /\ y < tris[j].y + tris[j].h
  BY <1>1, <1>3 DEF Paints, Rows
<1>5. \A k, l \in DOMAIN tris : k < l => tris[k].y + tris[k].h <= tris[l].y
  BY DEF PaintsTriangle
<1>6. ASSUME i = 1 PROVE y >= tris[i].y
  <2>1. j = i \/ i < j
    BY <1>2, <1>6
  <2> QED BY <1>1, <1>4, <1>5, <2>1
<1>7. ASSUME y >= tris[i].y + tris[i].h PROVE i + 1 \in DOMAIN tris /\ y >= tris[i + 1].y
  <2>1. ~(j < i) /\ j # i
    BY <1>1, <1>4, <1>5, <1>7
  <2>2. i + 1 \in DOMAIN tris /\ (j = i + 1 \/ i + 1 < j)
    BY <1>2, <2>1
  <2> QED BY <1>1, <1>4, <1>5, <2>2
<1> QED BY <1>6, <1>7

\* The path keeps the triangle that was asked for, and what has been drawn of it.
Once == \A p \in DOMAIN hits : hits[p] = 1
Held(tri) == \E halves : PaintsTriangle(halves, tri) /\ Wearing(batch.tris, halves)
Drawing(tri, box) ==
  /\ PaintsTriangle(batch.tris, tri) /\ ~ClipEmpty(box)
  /\ Once /\ DOMAIN hits = Above(tri, box, Tri.y + at.row)
Painted(tri, box) == Once /\ DOMAIN hits = IF ClipEmpty(box) THEN {} ELSE PixelsOf(tri, box)
Filling(tri, box) ==
  /\ IsTriangle(tri)
  /\ phase \in {"built", "submitted", "drawing"} => batch.tris # <<>> /\ ClipBox(batch.state) = box
  /\ Exact(tri) => /\ phase \in {"built", "submitted"} => Held(tri)
                   /\ phase = "drawing" => Drawing(tri, box)
                   /\ (phase = "done" /\ verdict.is = "OK") => Painted(tri, box)
Blank == hits = <<>> \/ (phase \in {"drawing", "done"} /\ Trapezoids)
Fills == Blank /\ (source.kind = "triangle" => Filling(source.job.tri, ClipBox(source.job.state)))

\* A triangle that is asked for is built into its trapezoids, or covers nothing.
LEMMA FillsAsk ==
  ASSUME Fills, Ask
  PROVE  Fills'
<1>1. hits' = <<>>
  <2>1. hits = <<>>
    BY DEF Fills, Blank, Ask
  <2>2. UNCHANGED hits
    BY DEF Ask, AskForMesh, AskMesh, AskForWarp, AskWarp, AskForTriangle, AskTriangle, AskForBatch, AskBatch
  <2> QED BY <2>1, <2>2
<1>2. CASE AskForTriangle
  <2>1. PICK job : /\ AskTriangle(job) /\ source'.kind = "triangle"
                   /\ IsState(job.state) /\ IsTriangle(job.tri)
    BY <1>2, TriangleIs
  <2>2. source'.job = job
    <3>1. source' = [kind |-> "triangle", job |-> job]
      BY <2>1 DEF AskTriangle
    <3> QED BY <3>1
  <2>3. PICK built : built = BuildTriangle(job.tri, job.prim, job.repeats, job.offset)
    OBVIOUS
  <2>4. IF built.tris # <<>>
        THEN /\ phase' = "built" /\ UNCHANGED verdict
             /\ batch' = [state |-> [job.state EXCEPT !.tmr = built.tmr], tris |-> built.tris]
        ELSE /\ phase' = "done" /\ UNCHANGED batch
             /\ verdict' = [by |-> "builder", is |-> IF built.ok THEN "OK" ELSE "UNSUPPORTED"]
    BY <2>1, <2>3 DEF AskTriangle
  <2>5. PICK tri, box : tri = job.tri /\ box = ClipBox(job.state)
    OBVIOUS
  <2>6. CoordLimit \in Nat
    BY ColumnAssumption
  <2>7. Filling(tri, box)'
    <3>1. CASE built.tris # <<>>
      <4>1. batch'.tris = built.tris /\ batch'.state = [job.state EXCEPT !.tmr = built.tmr]
        BY <2>4, <3>1
      <4>2. ClipBox(batch'.state) = box
        <5>1. PICK st : st = [job.state EXCEPT !.tmr = built.tmr]
          OBVIOUS
        <5>2. DOMAIN job.state = StateFields
          BY <2>1 DEF IsState
        <5>3. /\ st.scissorOn = job.state.scissorOn /\ st.scissorX = job.state.scissorX
              /\ st.scissorY = job.state.scissorY /\ st.scissorW = job.state.scissorW
              /\ st.scissorH = job.state.scissorH /\ st.dstWidth = job.state.dstWidth
              /\ st.dstHeight = job.state.dstHeight
          BY <5>1, <5>2 DEF StateFields
        <5> QED BY <2>5, <4>1, <5>1, <5>3 DEF ClipBox
      <4>3. built.ok = TRUE
        <5>1. Contented(built)
          BY <2>3, BuiltOk
        <5> QED BY <3>1, <5>1 DEF Contented
      <4>4. Exact(tri) => \E halves : PaintsTriangle(halves, tri) /\ Wearing(built.tris, halves)
        BY <2>1, <2>3, <2>5, <2>6, <3>1, <4>3, BuiltPaints
      <4>5. phase' = "built"
        BY <2>4, <3>1
      <4> QED BY <2>1, <2>5, <3>1, <4>1, <4>2, <4>4, <4>5 DEF Filling, Held
    <3>2. CASE built.tris = <<>>
      <4>1. phase' = "done" /\ verdict' = [by |-> "builder", is |-> IF built.ok THEN "OK" ELSE "UNSUPPORTED"]
        BY <2>4, <3>2
      <4>2. verdict'.is = "OK" => built.ok
        BY <4>1
      <4>3. ASSUME Exact(tri), verdict'.is = "OK" PROVE Painted(tri, box)'
        <5>1. built.ok = TRUE
          <6>1. Contented(built)
            BY <2>3, BuiltOk
          <6> QED BY <4>2, <4>3, <6>1 DEF Contented
        <5>2. \A x, y \in Int : ~Covers(tri, x, y)
          BY <2>1, <2>3, <2>5, <2>6, <3>2, <4>3, <5>1, BuiltPaints
        <5>3. PixelsOf(tri, box) = {}
          BY <5>2 DEF PixelsOf
        <5>4. DOMAIN hits' = {}
          BY <1>1
        <5> QED BY <5>3, <5>4 DEF Painted, Once
      <4> QED BY <2>1, <2>5, <4>1, <4>3 DEF Filling
    <3> QED BY <3>1, <3>2
  <2> QED BY <1>1, <2>1, <2>2, <2>5, <2>7 DEF Fills, Blank
<1>3. CASE AskForBatch
  BY <1>1, <1>3, BatchAsked DEF Fills, Blank
<1>4. CASE AskForWarp
  <2>1. PICK b : AskWarp(b)
    BY <1>4 DEF AskForWarp
  <2>2. source'.kind = "warp"
    BY <2>1 DEF AskWarp
  <2> QED BY <1>1, <2>2 DEF Fills, Blank
<1>5. CASE AskForMesh
  <2>1. PICK st, caps, job : AskMesh(st, caps, job)
    BY <1>5 DEF AskForMesh
  <2>2. source'.kind = "mesh"
    BY <2>1 DEF AskMesh
  <2> QED BY <1>1, <2>2 DEF Fills, Blank
<1> QED BY <1>2, <1>3, <1>4, <1>5 DEF Ask

\* Submitted and accepted, it is at its first row with nothing drawn, or its box is empty.
LEMMA FillsSubmit ==
  ASSUME Inv, Fills, Submit
  PROVE  Fills'
<1>1. /\ UNCHANGED <<source, batch, hits>> /\ phase = "submitted" /\ phase' \in {"drawing", "done"}
      /\ Trapezoids
  BY DEF Submit, Trapezoids
<1>2. hits = <<>> /\ hits' = <<>> /\ Blank'
  BY <1>1 DEF Fills, Blank
<1>3. CASE source.kind # "triangle"
  BY <1>1, <1>2, <1>3 DEF Fills
<1>4. CASE source.kind = "triangle"
  <2>1. PICK tri, box : tri = source.job.tri /\ box = ClipBox(source.job.state)
    OBVIOUS
  <2>2. /\ IsTriangle(tri) /\ batch.tris # <<>> /\ ClipBox(batch.state) = box
        /\ Exact(tri) => Held(tri)
    BY <1>1, <1>4, <2>1 DEF Fills, Filling
  <2>3. IsState(batch.state) /\ IsTris(batch.tris)
    BY <1>1 DEF Inv, Sources
  <2>4. /\ verdict'.is = Answer
        /\ phase' = IF Answer = "OK" /\ ~ClipEmpty(box) /\ batch.tris # <<>> THEN "drawing" ELSE "done"
        /\ at' = IF Answer = "OK" /\ ~ClipEmpty(box) /\ batch.tris # <<>> THEN Start(1) ELSE at
    <3>1. verdict' = [by |-> "kernel", is |-> Answer]
      BY DEF Submit, Answer
    <3>2. verdict'.is = Answer
      BY <3>1
    <3> QED BY <2>2, <3>2 DEF Submit
  <2>5. ASSUME Exact(tri), phase' = "drawing" PROVE Drawing(tri, box)'
    <3>1. Answer = "OK" /\ ~ClipEmpty(box) /\ at' = Start(1)
      BY <2>4, <2>5
    <3>2. Destination(batch.state, FALSE) = "OK"
          /\ Validate(batch.state, batch.tris, Limits(batch.state, Window), TRUE) = "OK"
      BY <3>1 DEF Answer
    <3>3. BatchHolds(batch.state, batch.tris) /\ batch.state.dstWidth <= Stride
      BY <2>3, <3>2, BatchAccepted, DestinationWide
    <3>4. PICK halves : PaintsTriangle(halves, tri) /\ Wearing(batch.tris, halves)
      BY <2>2, <2>5 DEF Held
    <3>5. PaintsTriangle(batch.tris, tri)
      BY <2>3, <3>3, <3>4, AcceptedPaints
    <3>6. PICK t : t = batch.tris[1]
      OBVIOUS
    <3>7. 1 \in DOMAIN batch.tris /\ t.y \in Int
      BY <2>2, <2>3, <3>6 DEF IsTris, IsTri
    <3>8. at'.row = 0 /\ at'.tri = 1
      BY <3>1 DEF Start
    <3>9. Tri' = t
      BY <1>1, <3>6, <3>8 DEF Tri
    <3>10. Above(tri, box, t.y + 0) = {}
      <4>1. \A x, y \in Int : Covers(tri, x, y) => y >= t.y
        BY <2>3, <3>5, <3>6, <3>7, RowsBetween
      <4> QED BY <3>7, <4>1 DEF Above, PixelsOf
    <3>11. DOMAIN hits' = {} /\ Once'
      BY <1>2 DEF Once
    <3>12. Tri'.y + at'.row = t.y + 0
      BY <3>8, <3>9
    <3> QED BY <1>1, <3>1, <3>5, <3>10, <3>11, <3>12 DEF Drawing
  <2>6. ASSUME phase' = "done", verdict'.is = "OK" PROVE Painted(tri, box)'
    <3>1. ClipEmpty(box)
      BY <2>2, <2>4, <2>6
    <3>2. DOMAIN hits' = {} /\ Once'
      BY <1>2 DEF Once
    <3> QED BY <3>1, <3>2 DEF Painted
  <2>7. Filling(tri, box)'
    BY <1>1, <2>2, <2>5, <2>6 DEF Filling
  <2> QED BY <1>1, <1>2, <2>1, <2>7 DEF Fills
<1> QED BY <1>3, <1>4

\* A row draws the triangle's pixels of that row, and no other step draws any.
LEMMA RowDraws ==
  ASSUME Inv, Row, NEW tri, NEW box, ClipBox(batch.state) = box, Drawing(tri, box), IsTriangle(tri)
  PROVE  Once' /\ DOMAIN hits' = Above(tri, box, Tri.y + at.row + 1)
<1>1. /\ Trapezoids /\ IsState(batch.state) /\ IsTris(batch.tris) /\ WalkHolds
      /\ BatchHolds(batch.state, batch.tris)
  BY DEF Row, Inv, Sources, Accepted
<1>2. PICK t : t = Tri
  OBVIOUS
<1>3. at.tri \in DOMAIN batch.tris /\ t = batch.tris[at.tri] /\ IsTri(t) /\ t.y \in Int /\ t.h \in Int
  BY <1>1, <1>2 DEF WalkHolds, Tri, IsTris, IsTri
<1>4. PICK k \in Rows(t) : k = at.row
  BY <1>1, <1>2 DEF WalkHolds, Rows
<1>5. PICK y \in Int : y = t.y + k
  BY <1>3 DEF Rows
<1>6. PICK l \in Int, r \in Int : l = at.lx /\ r = at.rx /\ l = LeftAt(t, k) /\ r = RightAt(t, k)
  <2>1. at.lx = LeftAt(t, k) /\ at.rx = RightAt(t, k)
    BY <1>1, <1>2, <1>4 DEF WalkHolds
  <2>2. PICK n \in Nat : n = batch.state.dstWidth
    BY <1>1, WordAssumption DEF IsState
  <2>3. GeometryHolds(t, Limits(batch.state, Window)) /\ ~EdgesCross(t, Limits(batch.state, Window))
    BY <1>1, <1>3 DEF BatchHolds
  <2>4. Limits(batch.state, Window).clipX1 \in Int /\ n = Limits(batch.state, Window).clipX1 + 1
    BY <2>2 DEF Limits
  <2>5. OnRows(t, n)
    BY <1>3, <2>3, <2>4, ColumnsOnSurface
  <2>6. LeftAt(t, k) \in 0..n /\ RightAt(t, k) \in 0..n
    BY <2>5 DEF OnRows
  <2> QED BY <2>1, <2>6
<1>7. \A x \in Int : Covers(tri, x, y) <=> l <= x /\ x < r
  BY <1>1, <1>3, <1>4, <1>5, <1>6, RowCovers DEF Drawing
<1> DEFINE drawn == {p \in RowPixels : InBox(p)}
<1>8. \A p : InBox(p) <=> Boxed(box, p)
  BY DEF InBox, Boxed
<1>9. RowPixels = {<<x, y>> : x \in l..(r - 1)}
  BY <1>2, <1>4, <1>5, <1>6 DEF RowPixels
<1>10. drawn = {p \in PixelsOf(tri, box) : p[2] = y}
  <2>1. ASSUME NEW p \in drawn PROVE p \in PixelsOf(tri, box) /\ p[2] = y
    <3>1. PICK x \in l..(r - 1) : p = <<x, y>>
      BY <1>9
    <3>2. x \in Int /\ l <= x /\ x < r /\ p[1] = x /\ p[2] = y /\ Boxed(box, p)
      BY <1>8, <3>1
    <3> QED BY <1>7, <3>1, <3>2 DEF PixelsOf
  <2>2. ASSUME NEW p \in PixelsOf(tri, box), p[2] = y PROVE p \in drawn
    <3>1. PICK x \in Int : p = <<x, y>>
      BY <2>2 DEF PixelsOf
    <3>2. Covers(tri, x, y) /\ InBox(p)
      BY <1>8, <3>1 DEF PixelsOf
    <3>3. x \in l..(r - 1)
      BY <1>7, <3>2
    <3> QED BY <1>9, <3>1, <3>2, <3>3
  <2> QED BY <2>1, <2>2
<1>11. hits' = [p \in DOMAIN hits \cup drawn |->
                  (IF p \in DOMAIN hits THEN hits[p] ELSE 0) + (IF p \in drawn THEN 1 ELSE 0)]
  BY DEF Row
<1> HIDE DEF drawn
<1>12. DOMAIN hits = {p \in PixelsOf(tri, box) : p[2] < y} /\ Once
  BY <1>2, <1>4, <1>5 DEF Drawing, Above
<1>13. \A p \in PixelsOf(tri, box) : p[2] \in Int
  BY DEF PixelsOf
<1>14. DOMAIN hits' = {p \in PixelsOf(tri, box) : p[2] < y + 1}
  BY <1>10, <1>11, <1>12, <1>13
<1>15. \A p \in DOMAIN hits' : hits'[p] = 1
  <2>1. TAKE p \in DOMAIN hits'
  <2>2. p \in DOMAIN hits \cup drawn
    BY <1>11
  <2>3. p \in DOMAIN hits => p \notin drawn /\ hits[p] = 1
    BY <1>10, <1>12, <1>13 DEF Once
  <2>4. hits'[p] = (IF p \in DOMAIN hits THEN hits[p] ELSE 0) + (IF p \in drawn THEN 1 ELSE 0)
    BY <1>11, <2>2
  <2> QED BY <2>2, <2>3, <2>4
<1>16. Tri.y + at.row + 1 = y + 1
  BY <1>2, <1>4, <1>5
<1> QED BY <1>14, <1>15, <1>16 DEF Once, Above

\* Between the trapezoids, and below the last, no row is missed.
LEMMA FillsRow ==
  ASSUME Inv, Fills, Row
  PROVE  Fills'
<1>1. UNCHANGED <<source, batch, verdict>> /\ phase = "drawing" /\ phase' \in {"drawing", "done"}
  BY DEF Row
<1>2. /\ Trapezoids /\ IsState(batch.state) /\ IsTris(batch.tris) /\ WalkHolds
  BY <1>1 DEF Inv, Sources, Accepted
<1>3. Blank'
  BY <1>1, <1>2 DEF Blank, Trapezoids
<1>4. CASE source.kind # "triangle"
  BY <1>1, <1>3, <1>4 DEF Fills
<1>5. CASE source.kind = "triangle"
  <2>1. PICK tri, box : tri = source.job.tri /\ box = ClipBox(source.job.state)
    OBVIOUS
  <2>2. /\ IsTriangle(tri) /\ batch.tris # <<>> /\ ClipBox(batch.state) = box
        /\ Exact(tri) => Drawing(tri, box)
    BY <1>1, <1>5, <2>1 DEF Fills, Filling
  <2>3. ASSUME Exact(tri)
        PROVE  /\ phase' = "drawing" => Drawing(tri, box)'
               /\ phase' = "done" => Painted(tri, box)'
    <3>1. Once' /\ DOMAIN hits' = Above(tri, box, Tri.y + at.row + 1)
      BY <2>2, <2>3, RowDraws
    <3>2. PaintsTriangle(batch.tris, tri) /\ ~ClipEmpty(box)
      BY <2>2, <2>3 DEF Drawing
    <3>3. PICK t, i : t = Tri /\ i = at.tri /\ t = batch.tris[i]
      BY DEF Tri
    <3>4. i \in DOMAIN batch.tris /\ t.y \in Int /\ t.h \in Int /\ at.row \in Int
      BY <1>2, <3>3 DEF WalkHolds, IsTris, IsTri
    <3>5. DOMAIN batch.tris = 1..Len(batch.tris) /\ Len(batch.tris) \in Nat
      BY <1>2 DEF IsTris
    <3>6. \A p \in PixelsOf(tri, box) : p[2] \in Int
      BY DEF PixelsOf
    <3>7. CASE at.row + 1 # t.h
      <4>1. at' = Stepped /\ phase' = "drawing"
        BY <1>1, <3>3, <3>7 DEF Row
      <4>2. at'.tri = at.tri /\ at'.row = at.row + 1
        BY <4>1 DEF Stepped
      <4>3. Tri'.y + at'.row = t.y + at.row + 1
        BY <1>1, <3>3, <3>4, <4>2 DEF Tri
      <4> QED BY <1>1, <3>1, <3>2, <3>3, <4>1, <4>3 DEF Drawing
    <3>8. CASE at.row + 1 = t.h
      <4>1. DOMAIN hits' = Above(tri, box, t.y + t.h)
        BY <3>1, <3>3, <3>4, <3>8
      <4>2. CASE i = Len(batch.tris)
        <5>1. phase' = "done"
          BY <3>3, <3>8, <4>2 DEF Row
        <5>2. Above(tri, box, t.y + t.h) = PixelsOf(tri, box)
          <6>1. ASSUME NEW p \in PixelsOf(tri, box) PROVE p[2] < t.y + t.h
            <7>1. PICK x \in Int, y \in Int : x = p[1] /\ y = p[2] /\ Covers(tri, x, y)
              BY DEF PixelsOf
            <7>2. y >= t.y + t.h => i + 1 \in DOMAIN batch.tris
              BY <1>2, <3>2, <3>3, <3>4, <7>1, RowsBetween
            <7> QED BY <3>4, <3>5, <4>2, <7>1, <7>2
          <6> QED BY <6>1 DEF Above
        <5> QED BY <3>1, <3>2, <4>1, <5>1, <5>2 DEF Painted
      <4>3. CASE i # Len(batch.tris)
        <5>1. phase' = "drawing" /\ at' = Start(i + 1)
          BY <1>1, <3>3, <3>8, <4>3 DEF Row
        <5>2. i + 1 \in DOMAIN batch.tris
          BY <3>4, <3>5, <4>3
        <5>3. PICK u : u = batch.tris[i + 1] /\ u.y \in Int
          BY <1>2, <5>2 DEF IsTris, IsTri
        <5>4. at'.row = 0 /\ at'.tri = i + 1
          BY <5>1 DEF Start
        <5>5. Tri'.y + at'.row = u.y
          <6>1. Tri' = u
            BY <1>1, <5>3, <5>4 DEF Tri
          <6> QED BY <5>3, <5>4, <6>1
        <5>6. Above(tri, box, t.y + t.h) = Above(tri, box, u.y)
          <6>1. t.y + t.h <= u.y
            <7>1. i < i + 1
              BY <3>4, <3>5
            <7> QED BY <3>2, <3>3, <3>4, <5>2, <5>3, <7>1 DEF PaintsTriangle
          <6>2. ASSUME NEW p \in PixelsOf(tri, box), p[2] >= t.y + t.h PROVE p[2] >= u.y
            <7>1. PICK x \in Int, y \in Int : x = p[1] /\ y = p[2] /\ Covers(tri, x, y)
              BY DEF PixelsOf
            <7> QED BY <1>2, <3>2, <3>3, <3>4, <5>3, <6>2, <7>1, RowsBetween
          <6> QED BY <3>4, <3>6, <5>3, <6>1, <6>2 DEF Above
        <5> QED BY <1>1, <3>1, <3>2, <4>1, <5>1, <5>5, <5>6 DEF Drawing
      <4> QED BY <4>2, <4>3
    <3> QED BY <3>7, <3>8
  <2>4. Filling(tri, box)'
    BY <1>1, <2>2, <2>3 DEF Filling
  <2> QED BY <1>1, <1>3, <2>1, <2>4 DEF Fills
<1> QED BY <1>4, <1>5

\* The remaining steps keep what is drawn, and what is to be.
LEMMA FillsOther ==
  ASSUME Inv, Fills, AddTriangle \/ EndMesh \/ Continue \/ Prevalidate \/ SubmitWarp \/ Return
  PROVE  Fills'
<1>1. CASE AddTriangle \/ EndMesh \/ Continue
  <2>1. source'.kind = "mesh"
    BY <1>1, MeshStays
  <2>2. source.kind = "mesh" /\ UNCHANGED hits
    BY <1>1 DEF AddTriangle, EndMesh, Continue, Inv, Sources, MeshSource
  <2>3. hits' = <<>>
    BY <2>2 DEF Fills, Blank, Trapezoids
  <2> QED BY <2>1, <2>3 DEF Fills, Blank
<1>2. CASE Prevalidate
  <2> DEFINE local == DryRun(batch.state, batch.tris)
  <2>1. /\ UNCHANGED <<source, batch, at, hits>> /\ phase = "built"
        /\ IF NamesTriangle(local)
           THEN phase' = "done" /\ verdict' = [by |-> "client", is |-> local]
           ELSE phase' = "submitted" /\ UNCHANGED verdict
    BY <1>2 DEF Prevalidate, DryRun
  <2> HIDE DEF local
  <2>2. hits' = <<>>
    BY <2>1 DEF Fills, Blank
  <2>3. (phase' = "done" /\ verdict'.is # "OK") \/ phase' = "submitted"
    <3>1. ~NamesTriangle("OK")
      BY DEF NamesTriangle
    <3>2. CASE NamesTriangle(local)
      <4>1. verdict' = [by |-> "client", is |-> local] /\ phase' = "done"
        BY <2>1, <3>2
      <4>2. verdict'.is = local
        BY <4>1
      <4> QED BY <3>1, <3>2, <4>1, <4>2
    <3> QED BY <2>1, <3>2
  <2>4. ASSUME NEW tri, NEW box, Filling(tri, box) PROVE Filling(tri, box)'
    BY <2>1, <2>3, <2>4 DEF Filling, Held
  <2> QED BY <2>1, <2>2, <2>4 DEF Fills, Blank
<1>3. CASE SubmitWarp
  <2>1. source'.kind \in {"warp", "mesh"} /\ UNCHANGED <<source, hits>> /\ ~Trapezoids
    BY <1>3 DEF SubmitWarp, Trapezoids
  <2> QED BY <2>1 DEF Fills, Blank
<1>4. CASE Return
  <2>1. source'.kind = "none" /\ hits' = <<>>
    BY <1>4 DEF Return, NoSource
  <2> QED BY <2>1 DEF Fills, Blank
<1> QED BY <1>1, <1>2, <1>3, <1>4

LEMMA FillsAlways == Spec => []Fills
<1>1. Init => Fills
  BY DEF Init, Fills, Blank, NoSource
<1>2. Inv /\ Fills /\ [Next]_vars => Fills'
  <2> SUFFICES ASSUME Inv, Fills, [Next]_vars PROVE Fills'
    OBVIOUS
  <2>1. CASE UNCHANGED vars
    <3>1. UNCHANGED <<phase, source, batch, verdict, at, hits>>
      BY <2>1 DEF vars
    <3> QED BY <3>1 DEF Fills, Blank, Trapezoids, Filling, Held, Drawing, Painted, Once, Tri
  <2> QED BY <2>1, FillsAsk, FillsSubmit, FillsRow, FillsOther DEF Next
<1> QED BY <1>1, <1>2, Invariance, PTL DEF Spec

\* A triangle that is built at full precision, accepted, clipped and walked covers exactly
\* the pixels whose centres it has, those on a left or a top edge among them, within the
\* scissor, and each once: no row is missed where the halves meet or where the empty rows at
\* the top are skipped, and no pixel is drawn by both halves (OSMGAMesaBuildTriangleTex,
\* osmgaEdgeRegs, osmgaFirstDrawn).
THEOREM PaintsTheTriangleAlways == Spec => []PaintsTheTriangle
<1>1. Fills => PaintsTheTriangle
  <2> SUFFICES ASSUME Fills, phase = "done", source.kind = "triangle", Exact(source.job.tri),
                      verdict.is = "OK"
               PROVE  /\ DOMAIN hits = IF ClipEmpty(ClipBox(source.job.state)) THEN {} ELSE
                           {c \in Covered(source.job.tri) :
                              /\ c[1] \in ClipBox(source.job.state).x[1]
                                            ..(ClipBox(source.job.state).x[2] - 1)
                              /\ c[2] \in ClipBox(source.job.state).y[1]
                                            ..(ClipBox(source.job.state).y[2] - 1)}
                      /\ \A c \in DOMAIN hits : hits[c] = 1
    BY Zenon DEF PaintsTheTriangle
  <2>1. PICK tri, box : tri = source.job.tri /\ box = ClipBox(source.job.state)
    OBVIOUS
  <2>2. IsTriangle(tri) /\ Painted(tri, box)
    BY <2>1 DEF Fills, Filling
  <2>3. PixelsOf(tri, box) = {c \in Covered(tri) : /\ c[1] \in box.x[1]..(box.x[2] - 1)
                                                 /\ c[2] \in box.y[1]..(box.y[2] - 1)}
    BY <2>2, CoveredAre DEF PixelsOf, Boxed
  <2> QED BY <2>1, <2>2, <2>3 DEF Painted, Once
<1> QED BY <1>1, FillsAlways, PTL
-----------------------------------------------------------------------------
(* Rounding: the errors of a start and of a sum of steps.                    *)

\* A value held to a range it is in is itself.
LEMMA HeldIs ==
  ASSUME NEW v \in Int, NEW lo \in Int, NEW hi \in Int, lo <= v, v <= hi
  PROVE  Clamped(v, lo, hi) = v
<1> DEFINE S == {v, hi}
           T == {lo, v}
<1>1. S \in SUBSET Int /\ S # {} /\ (\A x \in S : v <= x) /\ v \in S
  OBVIOUS
<1>2. Min(S) = v
  <2> HIDE DEF S
  <2>1. Min(S) \in S /\ \A x \in S : Min(S) <= x
    BY <1>1, LeastOf
  <2>2. v <= Min(S) /\ Min(S) <= v /\ Min(S) \in Int
    BY <1>1, <2>1
  <2> QED BY <2>2
<1>3. T \in SUBSET Int /\ T # {} /\ (\A x \in T : x <= v) /\ v \in T
  OBVIOUS
<1>4. Max(T) = v
  <2> HIDE DEF T
  <2>1. Max(T) \in T /\ \A x \in T : x <= Max(T)
    BY <1>3, GreatestOf
  <2>2. v <= Max(T) /\ Max(T) <= v /\ Max(T) \in Int
    BY <1>3, <2>1
  <2> QED BY <2>2
<1>5. Clamped(v, lo, hi) = Max({lo, Min(S)})
  BY DEF Clamped
<1> HIDE DEF S
<1> QED BY <1>2, <1>4, <1>5

\* A rounded quotient is within a half of the exact one.
LEMMA RoundHalves ==
  ASSUME NEW n \in Int, NEW d \in Nat \ {0}
  PROVE  /\ RoundHalfUp(n, d) \in Int /\ Abs(2 * d * RoundHalfUp(n, d) - 2 * n) <= d
         /\ RoundHalfAway(n, d) \in Int /\ Abs(2 * d * RoundHalfAway(n, d) - 2 * n) <= d
<1>1. ASSUME NEW m \in Int
      PROVE  LET r == (2 * m + d) \div (2 * d)
             IN  /\ r \in Int /\ d * r \in Int
                 /\ 2 * (d * r) - 2 * m <= d /\ 2 * m - 2 * (d * r) <= d
  <2>1. PICK e \in Nat \ {0} : e = 2 * d
    OBVIOUS
  <2>2. PICK k \in Int : k = 2 * m + d
    OBVIOUS
  <2>3. PICK r \in Int : r = k \div e /\ k - r * e \in 0..(e - 1)
    BY DivisionIs
  <2>4. r * e = 2 * (d * r) /\ d * r \in Int
    BY <2>1
  <2>5. PICK p \in Int : p = d * r
    BY <2>4
  <2>6. 0 <= k - 2 * p /\ k - 2 * p <= e - 1
    BY <2>1, <2>3, <2>4, <2>5
  <2> QED BY <2>1, <2>2, <2>3, <2>4, <2>5, <2>6
<1>2. RoundHalfUp(n, d) \in Int /\ Abs(2 * d * RoundHalfUp(n, d) - 2 * n) <= d
  <2>1. PICK r \in Int : r = RoundHalfUp(n, d) /\ d * r \in Int
                         /\ 2 * (d * r) - 2 * n <= d /\ 2 * n - 2 * (d * r) <= d
    BY <1>1 DEF RoundHalfUp
  <2>2. 2 * d * r = 2 * (d * r)
    OBVIOUS
  <2> QED BY <2>1, <2>2 DEF Abs
<1>3. RoundHalfAway(n, d) \in Int /\ Abs(2 * d * RoundHalfAway(n, d) - 2 * n) <= d
  <2>1. PICK m \in Nat : m = Abs(n)
    BY DEF Abs
  <2>2. PICK r \in Int : r = (2 * m + d) \div (2 * d) /\ d * r \in Int
                         /\ 2 * (d * r) - 2 * m <= d /\ 2 * m - 2 * (d * r) <= d
    BY <1>1
  <2>3. PICK p \in Int : p = d * r
    BY <2>2
  <2>4. CASE n < 0
    <3>1. Sign(n) = -1 /\ m = -n
      BY <2>1, <2>4 DEF Sign, Abs
    <3>2. RoundHalfAway(n, d) = -r
      BY <2>1, <2>2, <3>1 DEF RoundHalfAway
    <3>3. 2 * d * (-r) = -2 * p
      BY <2>3
    <3> QED BY <2>2, <2>3, <3>1, <3>2, <3>3 DEF Abs
  <2>5. CASE n >= 0
    <3>1. Sign(n) = 1 /\ m = n
      BY <2>1, <2>5 DEF Sign, Abs
    <3>2. RoundHalfAway(n, d) = r
      BY <2>1, <2>2, <3>1 DEF RoundHalfAway
    <3>3. 2 * d * r = 2 * p
      BY <2>3
    <3> QED BY <2>2, <2>3, <3>1, <3>2, <3>3 DEF Abs
  <2> QED BY <2>4, <2>5
<1> QED BY <1>2, <1>3

\* Rounding errors add up to no more than one for the start and one for every step.
LEMMA ErrorsAdd ==
  ASSUME NEW den \in Nat, NEW e \in Int, NEW f \in Int, NEW g \in Int, NEW x \in Int, NEW y \in Nat,
         Abs(e) <= den, Abs(f) <= den, Abs(g) <= den
  PROVE  Abs(e + f * x + g * y) <= den * (1 + Abs(x) + y)
<1>1. PICK a \in Nat : a = Abs(x)
  BY DEF Abs
<1>2. PICK p \in Int, q \in Int : p = f * x /\ q = g * y
  OBVIOUS
<1>3. PICK m \in Nat, n \in Nat : m = den * a /\ n = den * y
  OBVIOUS
<1>4. -den <= e /\ e <= den /\ -den <= f /\ f <= den /\ -den <= g /\ g <= den
  BY DEF Abs
<1>5. (x >= 0 /\ a = x) \/ (x < 0 /\ a = -x)
  BY <1>1 DEF Abs
<1>6. p <= m /\ -m <= p
  <2>1. CASE x >= 0 /\ a = x
    BY <1>2, <1>3, <1>4, <2>1, SMTT(30)
  <2>2. CASE x < 0 /\ a = -x
    BY <1>2, <1>3, <1>4, <2>2, SMTT(30)
  <2> QED BY <1>5, <2>1, <2>2
<1>7. q <= n /\ -n <= q
  BY <1>2, <1>3, <1>4, SMTT(30)
<1>8. den * (1 + a + y) = den + m + n
  BY <1>3
<1>9. e + f * x + g * y = e + p + q
  BY <1>2
<1> QED BY <1>1, <1>4, <1>6, <1>7, <1>8, <1>9 DEF Abs

\* The weights of three corners, and the plane through values at them.
LEMMA Weighted ==
  ASSUME NEW s \in {-1, 1}, NEW va \in Int, NEW vb \in Int, NEW vc \in Int,
         NEW x2 \in Int, NEW y2 \in Int, NEW x3 \in Int, NEW y3 \in Int, NEW px \in Int, NEW py \in Int
  PROVE  LET wb == y3 * px - x3 * py
             wc == x2 * py - y2 * px
             wa == (x2 * y3 - x3 * y2) - wb - wc
         IN  /\ wa \in Int /\ wb \in Int /\ wc \in Int
             /\ va * (s * (x2 * y3 - x3 * y2)) + (s * ((vb - va) * y3 - (vc - va) * y2)) * px
                  + (s * ((vc - va) * x2 - (vb - va) * x3)) * py
                = va * (s * wa) + vb * (s * wb) + vc * (s * wc)
<1> DEFINE D == x2 * y3 - x3 * y2
           wb == y3 * px - x3 * py
           wc == x2 * py - y2 * px
           wa == D - wb - wc
           dx == (vb - va) * y3 - (vc - va) * y2
           dy == (vc - va) * x2 - (vb - va) * x3
<1>1. D \in Int /\ wb \in Int /\ wc \in Int /\ wa \in Int /\ dx \in Int /\ dy \in Int
  OBVIOUS
<1>2. va * D + dx * px + dy * py = va * wa + vb * wb + vc * wc
  OBVIOUS
<1> HIDE DEF D, wb, wc, wa, dx, dy
<1>3. /\ va * (s * D) + (s * dx) * px + (s * dy) * py = s * (va * D + dx * px + dy * py)
      /\ va * (s * wa) + vb * (s * wb) + vc * (s * wc) = s * (va * wa + vb * wb + vc * wc)
  BY <1>1
<1>4. va * (s * D) + (s * dx) * px + (s * dy) * py = va * (s * wa) + vb * (s * wb) + vc * (s * wc)
  BY <1>2, <1>3
<1> QED BY <1>1, <1>4 DEF D, wb, wc, wa, dx, dy

\* Three weights that are not negative give a value between those they weigh.
LEMMA MeanBetween ==
  ASSUME NEW m \in Nat, NEW va \in 0..m, NEW vb \in 0..m, NEW vc \in 0..m,
         NEW wa \in Nat, NEW wb \in Nat, NEW wc \in Nat
  PROVE  va * wa + vb * wb + vc * wc \in 0..((wa + wb + wc) * m)
<1>1. ASSUME NEW v \in 0..m, NEW w \in Nat PROVE v * w \in Nat /\ v * w <= w * m /\ w * m \in Nat
  OBVIOUS
<1>2. PICK pa \in Nat, qa \in Nat : pa = va * wa /\ qa = wa * m /\ pa <= qa
  BY <1>1
<1>3. PICK pb \in Nat, qb \in Nat : pb = vb * wb /\ qb = wb * m /\ pb <= qb
  BY <1>1
<1>4. PICK pc \in Nat, qc \in Nat : pc = vc * wc /\ qc = wc * m /\ pc <= qc
  BY <1>1
<1>5. (wa + wb + wc) * m = qa + qb + qc
  BY <1>2, <1>3, <1>4
<1> QED BY <1>2, <1>3, <1>4, <1>5

\* At the centre of a pixel the triangle covers, a plane is between its corners' values.
LEMMA PlaneAtCovered ==
  ASSUME NEW tri, IsTriangle(tri), Doubled(tri) # 0, NEW x \in Int, NEW y \in Int, Covers(tri, x, y),
         NEW m \in Nat, NEW va \in 0..m, NEW vb \in 0..m, NEW vc \in 0..m,
         NEW p, p = Plane(tri, va, vb, vc)
  PROVE  AtCentre(p, tri[1], x, y) \in 0..(2 * p.den * m)
<1>1. PICK a, b, c : a = tri[1] /\ b = tri[2] /\ c = tri[3]
  OBVIOUS
<1>2. PICK v : v = Centre(x, y)
  OBVIOUS
<1>3. IsPoint(a) /\ IsPoint(b) /\ IsPoint(c) /\ IsPoint(v)
  <2>1. \A i \in 1..3 : IsPoint(tri[i])
    BY DEF IsTriangle, IsPoint
  <2> QED BY <1>1, <1>2, <2>1, CentreIs DEF IsPoint
<1>4. PICK s \in {-1, 1} : s = Sign(Doubled(tri))
  BY DEF Sign
<1>5. Doubled(tri) = Twice(a, b, c) /\ Inside(a, b, c, v)
  BY <1>1, <1>2, CoversIs
<1>6. Has(s, a, b, v) /\ Has(s, b, c, v) /\ Has(s, c, a, v)
  BY <1>4, <1>5 DEF Inside
<1>7. PICK ia \in Int, ib \in Int, ic \in Int :
        ia = Inward(b, c, v) /\ ib = Inward(c, a, v) /\ ic = Inward(a, b, v)
  BY <1>3, HasTurned
<1>8. s * ia >= 0 /\ s * ib >= 0 /\ s * ic >= 0
  BY <1>6, <1>7 DEF Has
<1>9. PICK D \in Int : D = Doubled(tri) /\ ia + ib + ic = D
  BY <1>3, <1>5, <1>7, Balance
<1>10. PICK x2 \in Int, y2 \in Int, x3 \in Int, y3 \in Int :
         x2 = b.x - a.x /\ y2 = b.y - a.y /\ x3 = c.x - a.x /\ y3 = c.y - a.y
  <2>1. b.x - a.x \in Int /\ b.y - a.y \in Int /\ c.x - a.x \in Int /\ c.y - a.y \in Int
    BY <1>3 DEF IsPoint
  <2> QED BY <2>1
<1>11. PICK px \in Int, py \in Int : px = v.x - a.x /\ py = v.y - a.y
  BY <1>3 DEF IsPoint
<1>12. D = x2 * y3 - x3 * y2
  BY <1>1, <1>9, <1>10 DEF Doubled
<1>13. ic = x2 * py - y2 * px
  BY <1>7, <1>10, <1>11 DEF Inward
<1>14. ib = y3 * px - x3 * py
  <2>1. a.x - c.x = -x3 /\ a.y - c.y = -y3 /\ v.x - c.x = px - x3 /\ v.y - c.y = py - y3
    BY <1>3, <1>10, <1>11 DEF IsPoint
  <2>2. ib = (-x3) * (py - y3) - (-y3) * (px - x3)
    BY <1>7, <2>1 DEF Inward
  <2>3. (-x3) * (py - y3) - (-y3) * (px - x3) = y3 * px - x3 * py
    OBVIOUS
  <2> QED BY <2>2, <2>3
<1>15. ia = D - ib - ic
  BY <1>9
<1>16. s * D = Abs(D) /\ p.den = s * D
  <2>1. s * D = Abs(D)
    BY <1>4, <1>9 DEF Sign, Abs
  <2> QED BY <1>9, <2>1 DEF Plane
<1>17. /\ p.at = va /\ p.dx = s * ((vb - va) * y3 - (vc - va) * y2)
       /\ p.dy = s * ((vc - va) * x2 - (vb - va) * x3)
  BY <1>1, <1>4, <1>10 DEF Plane
<1>18. PICK wa \in Nat, wb \in Nat, wc \in Nat : wa = s * ia /\ wb = s * ib /\ wc = s * ic
  BY <1>8
<1>19. va * (s * D) + p.dx * px + p.dy * py = va * wa + vb * wb + vc * wc
  <2>1. va \in Int /\ vb \in Int /\ vc \in Int
    OBVIOUS
  <2> QED BY <1>12, <1>13, <1>14, <1>15, <1>17, <1>18, <2>1, Weighted
<1>20. wa + wb + wc = s * D
  <2>1. s * ia + s * ib + s * ic = s * (ia + ib + ic)
    OBVIOUS
  <2> QED BY <1>9, <1>18, <2>1
<1>21. PICK w \in Nat : w = va * wa + vb * wb + vc * wc /\ w <= (wa + wb + wc) * m
  BY MeanBetween
<1>22. AtCentre(p, a, x, y) = 2 * w
  <2>1. PICK H \in Nat \ {0} : SubOne = 2 * H /\ SubOne \div 2 = H
    BY HalfOne
  <2>2. v.x = SubOne * x + H /\ v.y = SubOne * y + H
    BY <1>2, <2>1 DEF Centre
  <2>3. /\ 2 * SubOne * x + SubOne - 2 * a.x = 2 * px
        /\ 2 * SubOne * y + SubOne - 2 * a.y = 2 * py
    BY <1>3, <1>11, <2>1, <2>2 DEF IsPoint
  <2>4. PICK dx \in Int, dy \in Int, den \in Int : dx = p.dx /\ dy = p.dy /\ den = p.den
    BY PlaneTyped
  <2>5. AtCentre(p, a, x, y) = 2 * va * den + dx * (2 * px) + dy * (2 * py)
    BY <1>17, <2>3, <2>4 DEF AtCentre
  <2>6. 2 * va * den + dx * (2 * px) + dy * (2 * py) = 2 * (va * den + dx * px + dy * py)
    OBVIOUS
  <2> QED BY <1>16, <1>19, <1>21, <2>4, <2>5, <2>6
<1>23. 2 * p.den * m = 2 * ((wa + wb + wc) * m) /\ (wa + wb + wc) * m \in Nat
  <2>1. PICK n \in Nat : n = wa + wb + wc /\ n = p.den
    BY <1>16, <1>20
  <2>2. 2 * n * m = 2 * (n * m) /\ n * m \in Nat
    OBVIOUS
  <2> QED BY <2>1, <2>2
<1> QED BY <1>1, <1>21, <1>22, <1>23

\* From one pixel to another a plane's value goes by its slopes.
LEMMA PlaneMoves ==
  ASSUME NEW p, p.at \in Int, p.den \in Int, p.dx \in Int, p.dy \in Int, NEW a, IsPoint(a),
         NEW x \in Int, NEW y \in Int, NEW i \in Int, NEW j \in Int
  PROVE  /\ AtCentre(p, a, x, y) \in Int /\ p.dx * SubOne \in Int /\ p.dy * SubOne \in Int
         /\ AtCentre(p, a, x + i, y + j)
              = AtCentre(p, a, x, y) + 2 * (p.dx * SubOne) * i + 2 * (p.dy * SubOne) * j
<1>1. PICK S \in Int : S = SubOne
  BY HalfOne
<1>2. PICK ax \in Int, ay \in Int : ax = a.x /\ ay = a.y
  BY DEF IsPoint
<1>3. PICK v \in Int, d \in Int, dx \in Int, dy \in Int : v = p.at /\ d = p.den /\ dx = p.dx /\ dy = p.dy
  OBVIOUS
<1> DEFINE At(k, n) == 2 * v * d + dx * (2 * S * k + S - 2 * ax) + dy * (2 * S * n + S - 2 * ay)
<1>4. \A k, n \in Int : AtCentre(p, a, k, n) = At(k, n) /\ At(k, n) \in Int
  BY <1>1, <1>2, <1>3 DEF AtCentre
<1>5. At(x + i, y + j) = At(x, y) + 2 * (dx * S) * i + 2 * (dy * S) * j
  OBVIOUS
<1>6. x + i \in Int /\ y + j \in Int
  OBVIOUS
<1> HIDE DEF At
<1>7. /\ AtCentre(p, a, x, y) = At(x, y) /\ At(x, y) \in Int
      /\ AtCentre(p, a, x + i, y + j) = At(x + i, y + j)
  BY <1>4, <1>6
<1>8. p.dx * SubOne = dx * S /\ p.dy * SubOne = dy * S /\ dx * S \in Int /\ dy * S \in Int
  BY <1>1, <1>3
<1> QED BY <1>5, <1>7, <1>8

-----------------------------------------------------------------------------
(* A walked value beside the plane it was rounded from.                      *)

\* The error of a sum is the sum of the errors.
LEMMA ErrorsOf ==
  ASSUME NEW d \in Int, NEW at0 \in Int, NEW u \in Int, NEW v \in Int, NEW one \in Int,
         NEW start \in Int, NEW sx \in Int, NEW sy \in Int, NEW i \in Int, NEW j \in Int
  PROVE  2 * d * (start + sx * i + sy * j) - (at0 + 2 * u * i + 2 * v * j) * one
           = (2 * d * start - at0 * one) + (2 * d * sx - 2 * (u * one)) * i
               + (2 * d * sy - 2 * (v * one)) * j
OBVIOUS

\* A start and two slopes, each rounded, stay near the plane they were taken from.
LEMMA NearWalk ==
  ASSUME NEW p, p.at \in Int, p.den \in Nat, p.dx \in Int, p.dy \in Int, NEW a, IsPoint(a),
         NEW x \in Int, NEW y \in Int, NEW i \in Int, NEW j \in Nat, NEW one \in Nat,
         NEW start \in Int, NEW sx \in Int, NEW sy \in Int,
         Abs(2 * p.den * start - AtCentre(p, a, x, y) * one) <= p.den,
         Abs(2 * p.den * sx - 2 * (p.dx * SubOne * one)) <= p.den,
         Abs(2 * p.den * sy - 2 * (p.dy * SubOne * one)) <= p.den
  PROVE  Abs(2 * p.den * (start + sx * i + sy * j) - AtCentre(p, a, x + i, y + j) * one)
           <= p.den * (1 + Abs(i) + j)
<1>1. PICK d \in Nat : d = p.den
  OBVIOUS
<1>2. /\ AtCentre(p, a, x, y) \in Int /\ p.dx * SubOne \in Int /\ p.dy * SubOne \in Int
      /\ AtCentre(p, a, x + i, y + j)
           = AtCentre(p, a, x, y) + 2 * (p.dx * SubOne) * i + 2 * (p.dy * SubOne) * j
  <2>1. p.den \in Int /\ j \in Int
    OBVIOUS
  <2> QED BY ONLY <2>1, p.at \in Int, p.dx \in Int, p.dy \in Int, IsPoint(a),
                 x \in Int, y \in Int, i \in Int, PlaneMoves
<1>3. PICK u \in Int, v \in Int, at0 \in Int :
        u = p.dx * SubOne /\ v = p.dy * SubOne /\ at0 = AtCentre(p, a, x, y)
  BY <1>2
<1>4. AtCentre(p, a, x + i, y + j) = at0 + 2 * u * i + 2 * v * j
  BY <1>2, <1>3
<1>5. PICK e \in Int, f \in Int, g \in Int :
        e = 2 * d * start - at0 * one /\ f = 2 * d * sx - 2 * (u * one) /\ g = 2 * d * sy - 2 * (v * one)
  <2>1. d \in Int /\ one \in Int
    OBVIOUS
  <2>2. 2 * d * start - at0 * one \in Int
    BY ONLY <2>1, start \in Int, at0 \in Int
  <2>3. 2 * d * sx - 2 * (u * one) \in Int
    BY ONLY <2>1, sx \in Int, u \in Int
  <2>4. 2 * d * sy - 2 * (v * one) \in Int
    BY ONLY <2>1, sy \in Int, v \in Int
  <2> QED BY ONLY <2>2, <2>3, <2>4
<1>8. 2 * d * (start + sx * i + sy * j) - (at0 + 2 * u * i + 2 * v * j) * one = e + f * i + g * j
  BY <1>5, ErrorsOf
<1>9. Abs(e) <= d /\ Abs(f) <= d /\ Abs(g) <= d
  BY <1>1, <1>3, <1>5
<1>10. Abs(e + f * i + g * j) <= d * (1 + Abs(i) + j)
  BY <1>9, ErrorsAdd
<1>11. 2 * d * (start + sx * i + sy * j) - AtCentre(p, a, x + i, y + j) * one = e + f * i + g * j
  BY <1>4, <1>8
<1>12. PICK k \in Int : k = e + f * i + g * j
  OBVIOUS
<1>13. Abs(k) <= d * (1 + Abs(i) + j)
  BY ONLY <1>10, <1>12
<1>14. 2 * p.den * (start + sx * i + sy * j) - AtCentre(p, a, x + i, y + j) * one = k
  BY ONLY <1>1, <1>11, <1>12
<1> QED BY ONLY <1>1, <1>13, <1>14

\* Rounded on a scale, a quotient is near the exact one.
LEMMA RoundsNear ==
  ASSUME NEW n \in Int, NEW d \in Nat \ {0}, NEW one \in Nat
  PROVE  /\ RoundHalfAway(n * one, d) \in Int
         /\ Abs(2 * d * RoundHalfAway(n * one, d) - 2 * (n * one)) <= d
<1>1. n * one \in Int
  OBVIOUS
<1> QED BY <1>1, RoundHalves

\* The same for a quotient over twice its divisor, half away and half up.
LEMMA RoundsTwice ==
  ASSUME NEW n \in Int, NEW d \in Nat \ {0}
  PROVE  /\ RoundHalfAway(n, 2 * d) \in Int /\ Abs(2 * d * RoundHalfAway(n, 2 * d) - n) <= d
         /\ RoundHalfUp(n, 2 * d) \in Int /\ Abs(2 * d * RoundHalfUp(n, 2 * d) - n) <= d
<1>1. PICK e \in Nat \ {0} : e = 2 * d
  OBVIOUS
<1>2. ASSUME NEW r \in Int, Abs(2 * e * r - 2 * n) <= e
      PROVE  Abs(2 * d * r - n) <= d
  <2>1. PICK q \in Int : q = d * r
    OBVIOUS
  <2>2. 2 * e * r = 4 * q /\ 2 * d * r = 2 * q
    BY <1>1, <2>1
  <2> QED BY <1>1, <1>2, <2>1, <2>2 DEF Abs
<1> QED BY <1>1, <1>2, RoundHalves

-----------------------------------------------------------------------------
(* The walk of a half: where it begins, and how far it is from its start.    *)

\* A half as it is walked: the long edge beside the short one, over its rows from the
\* first with a pixel.
Begins(t) == t.left = LeftAt(t, 0) /\ t.right = RightAt(t, 0) /\ 0 \in DrawnRows(t)
Beside(p, q, a, b, y, h) == Walked(Edge(p, q), Edge(a, b), y, h, SubBits)
WalksHalf(t, v, from, to) ==
  /\ v[from].y < v[to].y /\ Begins(t)
  /\ t.y \in Int /\ t.h \in Nat \ {0} /\ RowOf(v[from].y) <= t.y /\ t.y + t.h = RowOf(v[to].y)
  /\ t = IF LongIsLeft(v) THEN Beside(v[1], v[3], v[from], v[to], t.y, t.h)
                          ELSE Beside(v[from], v[to], v[1], v[3], t.y, t.h)

\* Between two edges, the rows from the first with a pixel begin with one.
PartBegins(part, p, q, a, b, first, rows) ==
  part # <<>> =>
    \E r \in Int, h \in Nat \ {0} :
      /\ first <= r /\ r + h = first + rows /\ Begins(Beside(p, q, a, b, r, h))
      /\ part = <<Beside(p, q, a, b, r, h)>>
      /\ Beside(p, q, a, b, r, h).y = r /\ Beside(p, q, a, b, r, h).h = h
LEMMA DrawnBegins ==
  ASSUME NEW p, IsPoint(p), NEW q, IsPoint(q), q.y > p.y,
         NEW a, IsPoint(a), NEW b, IsPoint(b), b.y > a.y, NEW first \in Int, NEW rows \in Int
  PROVE  PartBegins(DrawnPart(Edge(p, q), Edge(a, b), first, rows, SubBits), p, q, a, b, first, rows)
<1> DEFINE part == DrawnPart(Edge(p, q), Edge(a, b), first, rows, SubBits)
           skip == FirstDrawn(Edge(p, q), Edge(a, b), first, rows, SubBits)
<1>1. part = IF rows <= 0 \/ skip >= rows THEN <<>> ELSE <<Beside(p, q, a, b, first + skip, rows - skip)>>
  BY DEF DrawnPart, Between, Beside
<1>2. CASE rows <= 0
  BY <1>1, <1>2 DEF PartBegins
<1>3. CASE rows > 0 /\ skip >= rows
  BY <1>1, <1>3 DEF PartBegins
<1>4. CASE rows > 0 /\ ~(skip >= rows)
  <2>1. PICK u : u = Walked(Edge(p, q), Edge(a, b), first, rows, SubBits)
    OBVIOUS
  <2>2. Follows(u, p, q, a, b, first, rows)
    BY <2>1, WalkedFollows
  <2>3. skip = Min({rows} \cup DrawnRows(u))
    BY <2>1 DEF FirstDrawn
  <2> HIDE DEF part, skip
  <2>4. skip \in DrawnRows(u) /\ skip \in Nat /\ skip < rows
    <3> DEFINE S == {rows} \cup DrawnRows(u)
    <3>1. u.h = rows
      BY <2>2 DEF Follows
    <3>2. S \in SUBSET Nat /\ S # {}
      BY <1>4, <3>1 DEF DrawnRows, Rows
    <3>3. skip = Min(S)
      BY <2>3
    <3> HIDE DEF S
    <3>4. skip \in S /\ skip \in Nat
      BY <3>2, <3>3, LeastNatural
    <3> QED BY <1>4, <3>4 DEF S
  <2>5. PICK k \in Nat, r \in Int, h \in Nat \ {0} : k = skip /\ r = first + k /\ h = rows - k
    <3>1. first + skip \in Int /\ rows - skip \in Nat \ {0}
      BY <2>4
    <3> QED BY <2>4, <3>1
  <2>6. PICK t : t = Beside(p, q, a, b, r, h)
    OBVIOUS
  <2>7. Follows(t, p, q, a, b, r, h)
    <3>1. h \in Int
      OBVIOUS
    <3> QED BY <2>6, <3>1, WalkedFollows, Zenon DEF Beside
  <2>8. 0 \in Nat /\ first + k = r + 0
    BY <2>5
  <2>9. PICK lu \in Int, ru \in Int, lt \in Int, rt \in Int :
          /\ lu = LeftAt(u, k) /\ ru = RightAt(u, k) /\ lt = LeftAt(t, 0) /\ rt = RightAt(t, 0)
    BY <2>2, <2>7, <2>8 DEF Follows
  <2>10. \A x \in Int : (lu <= x <=> lt <= x) /\ (ru <= x <=> rt <= x)
    <3>1. TAKE x \in Int
    <3>2. /\ lu <= x <=> Inward(p, q, Centre(x, first + k)) <= 0
          /\ ru <= x <=> Inward(a, b, Centre(x, first + k)) <= 0
      BY <2>2, <2>9, Zenon DEF Follows
    <3>3. /\ lt <= x <=> Inward(p, q, Centre(x, r + 0)) <= 0
          /\ rt <= x <=> Inward(a, b, Centre(x, r + 0)) <= 0
      BY <2>7, <2>8, <2>9, Zenon DEF Follows
    <3> QED BY <2>8, <3>2, <3>3
  <2>11. lu = lt /\ ru = rt
    <3>1. (lu <= lt <=> lt <= lt) /\ (lu <= lu <=> lt <= lu)
      BY <2>10
    <3>2. (ru <= rt <=> rt <= rt) /\ (ru <= ru <=> rt <= ru)
      BY <2>10
    <3> QED BY <3>1, <3>2
  <2>12. lu < ru
    BY <2>4, <2>5, <2>9 DEF DrawnRows
  <2>13. t.y = r /\ t.h = h /\ t.left = LeftAt(t, 0) /\ t.right = RightAt(t, 0)
    BY <2>7 DEF Follows
  <2>14. 0 \in DrawnRows(t)
    BY <2>9, <2>11, <2>12, <2>13 DEF DrawnRows, Rows
  <2>15. Begins(t)
    BY <2>13, <2>14 DEF Begins
  <2>16. part = <<t>> /\ first <= r /\ r + h = first + rows
    <3>1. part = <<Beside(p, q, a, b, first + skip, rows - skip)>>
      BY <1>1, <1>4
    <3> QED BY <2>5, <2>6, <3>1
  <2> QED BY <2>6, <2>13, <2>15, <2>16 DEF part, PartBegins
<1> QED BY <1>2, <1>3, <1>4

\* A half is one trapezoid walked so, or none.
LEMMA HalfWalks ==
  ASSUME NEW v, IsPoint(v[1]), IsPoint(v[2]), IsPoint(v[3]), v[1].y <= v[2].y, v[2].y <= v[3].y,
         NEW from \in {1, 2}, NEW to \in {2, 3}, to = from + 1
  PROVE  \/ Half(v, from, to, SubBits) = <<>>
         \/ \E t : Half(v, from, to, SubBits) = <<t>> /\ WalksHalf(t, v, from, to)
<1>1. IsPoint(v[from]) /\ IsPoint(v[to]) /\ v[1].y <= v[from].y /\ v[to].y <= v[3].y
  <2>1. (from = 1 /\ to = 2) \/ (from = 2 /\ to = 3)
    OBVIOUS
  <2>2. v[1].y \in Int /\ v[2].y \in Int /\ v[3].y \in Int
    BY DEF IsPoint
  <2>4. CASE from = 1 /\ to = 2
    BY <2>2, <2>4
  <2>5. CASE from = 2 /\ to = 3
    BY <2>2, <2>5
  <2> QED BY <2>1, <2>4, <2>5
<1>2. PICK first \in Int, end \in Int : first = RowOf(v[from].y) /\ end = RowOf(v[to].y)
  BY <1>1, RowOfTyped DEF IsPoint
<1>3. PICK rows \in Int : /\ rows = HalfRows(v, from, to)
                          /\ v[to].y > v[from].y => rows = end - first
                          /\ ~(v[to].y > v[from].y) => rows = 0
  BY <1>2 DEF HalfRows
<1> DEFINE long == Edge(v[1], v[3])
           short == Edge(v[from], v[to])
           left == LongIsLeft(v)
           part == Half(v, from, to, SubBits)
<1>4. part = DrawnPart(IF left THEN long ELSE short, IF left THEN short ELSE long, first, rows, SubBits)
  BY <1>2, <1>3 DEF Half
<1>5. CASE ~(v[to].y > v[from].y)
  <2>1. rows = 0
    BY <1>3, <1>5
  <2> HIDE DEF left, part
  <2>2. part = <<>>
    BY <1>4, <2>1 DEF DrawnPart, Between
  <2> QED BY <2>2 DEF part
<1>6. CASE v[to].y > v[from].y
  <2>1. rows = end - first /\ v[3].y > v[1].y /\ v[from].y < v[to].y
    <3>1. v[1].y \in Int /\ v[3].y \in Int /\ v[from].y \in Int /\ v[to].y \in Int
      BY <1>1 DEF IsPoint
    <3> QED BY <1>1, <1>3, <1>6, <3>1
  <2>2. CASE left
    <3>1. part = DrawnPart(long, short, first, rows, SubBits)
      BY <1>4, <2>2
    <3> HIDE DEF part
    <3>2. CASE part # <<>>
      <4>1. PICK r \in Int, h \in Nat \ {0} :
              /\ first <= r /\ r + h = first + rows /\ Begins(Beside(v[1], v[3], v[from], v[to], r, h))
              /\ part = <<Beside(v[1], v[3], v[from], v[to], r, h)>>
              /\ Beside(v[1], v[3], v[from], v[to], r, h).y = r
              /\ Beside(v[1], v[3], v[from], v[to], r, h).h = h
        <5> USE <1>1, <2>1
        <5>1. v[to].y > v[from].y
          BY <1>6
        <5>2. PartBegins(DrawnPart(long, short, first, rows, SubBits), v[1], v[3], v[from], v[to], first, rows)
          BY <5>1, DrawnBegins
        <5> HIDE DEF long, short
        <5> QED BY <3>1, <3>2, <5>2 DEF PartBegins
      <4>2. PICK t : t = Beside(v[1], v[3], v[from], v[to], r, h)
        OBVIOUS
      <4>3. WalksHalf(t, v, from, to)
        <5>1. r + h = end
          BY <2>1, <4>1
        <5> QED BY <1>2, <2>1, <2>2, <4>1, <4>2, <5>1 DEF WalksHalf
      <4> QED BY <4>1, <4>2, <4>3 DEF part
    <3> QED BY <3>2 DEF part
  <2>3. CASE ~left
    <3>1. part = DrawnPart(short, long, first, rows, SubBits)
      BY <1>4, <2>3
    <3> HIDE DEF part
    <3>2. CASE part # <<>>
      <4>1. PICK r \in Int, h \in Nat \ {0} :
              /\ first <= r /\ r + h = first + rows /\ Begins(Beside(v[from], v[to], v[1], v[3], r, h))
              /\ part = <<Beside(v[from], v[to], v[1], v[3], r, h)>>
              /\ Beside(v[from], v[to], v[1], v[3], r, h).y = r
              /\ Beside(v[from], v[to], v[1], v[3], r, h).h = h
        <5> USE <1>1, <2>1
        <5>1. v[to].y > v[from].y
          BY <1>6
        <5>2. PartBegins(DrawnPart(short, long, first, rows, SubBits), v[from], v[to], v[1], v[3], first, rows)
          BY <5>1, DrawnBegins
        <5> HIDE DEF long, short
        <5> QED BY <3>1, <3>2, <5>2 DEF PartBegins
      <4>2. PICK t : t = Beside(v[from], v[to], v[1], v[3], r, h)
        OBVIOUS
      <4>3. WalksHalf(t, v, from, to)
        <5>1. r + h = end
          BY <2>1, <4>1
        <5> QED BY <1>2, <2>1, <2>3, <4>1, <4>2, <5>1 DEF WalksHalf
      <4> QED BY <4>1, <4>2, <4>3 DEF part
    <3> QED BY <3>2 DEF part
  <2> QED BY <2>2, <2>3
<1> QED BY <1>5, <1>6

\* Every trapezoid of a triangle is a half walked so.
LEMMA HalvesWalk ==
  ASSUME NEW v, IsPoint(v[1]), IsPoint(v[2]), IsPoint(v[3]), v[1].y <= v[2].y, v[2].y <= v[3].y,
         NEW halves, halves = Half(v, 1, 2, SubBits) \o Half(v, 2, 3, SubBits), NEW i \in DOMAIN halves
  PROVE  WalksHalf(halves[i], v, 1, 2) \/ WalksHalf(halves[i], v, 2, 3)
<1>1. PICK a, b : a = Half(v, 1, 2, SubBits) /\ b = Half(v, 2, 3, SubBits)
  OBVIOUS
<1>2. a = <<>> \/ \E t : a = <<t>> /\ WalksHalf(t, v, 1, 2)
  <2>1. 1 \in {1, 2} /\ 2 \in {2, 3} /\ 2 = 1 + 1
    OBVIOUS
  <2> QED BY <1>1, <2>1, HalfWalks
<1>3. b = <<>> \/ \E t : b = <<t>> /\ WalksHalf(t, v, 2, 3)
  <2>1. 2 \in {1, 2} /\ 3 \in {2, 3} /\ 3 = 2 + 1
    OBVIOUS
  <2> QED BY <1>1, <2>1, HalfWalks
<1>4. PICK n \in Nat : /\ n = Len(a) + Len(b) /\ DOMAIN (a \o b) = 1..n
                       /\ \A j \in 1..n : (a \o b)[j] = IF j <= Len(a) THEN a[j] ELSE b[j - Len(a)]
  <2>1. (a = <<>> \/ IsOne(a)) /\ (b = <<>> \/ IsOne(b))
    BY <1>2, <1>3 DEF IsOne
  <2> QED BY <2>1, JoinIs
<1>5. halves[i] = (IF i <= Len(a) THEN a[i] ELSE b[i - Len(a)]) /\ i \in 1..n
  BY <1>1, <1>4
<1>6. /\ Len(a) = 0 \/ (Len(a) = 1 /\ WalksHalf(a[1], v, 1, 2))
      /\ Len(b) = 0 \/ (Len(b) = 1 /\ WalksHalf(b[1], v, 2, 3))
  <2>2. ASSUME NEW t, a = <<t>>, WalksHalf(t, v, 1, 2) PROVE Len(a) = 1 /\ WalksHalf(a[1], v, 1, 2)
    BY <2>2
  <2>3. ASSUME NEW t, b = <<t>>, WalksHalf(t, v, 2, 3) PROVE Len(b) = 1 /\ WalksHalf(b[1], v, 2, 3)
    BY <2>3
  <2>4. a = <<>> => Len(a) = 0
    OBVIOUS
  <2>5. b = <<>> => Len(b) = 0
    OBVIOUS
  <2> QED BY <1>2, <1>3, <2>2, <2>3, <2>4, <2>5
<1>7. CASE i <= Len(a)
  <2>1. i = 1 /\ Len(a) = 1
    BY <1>5, <1>6, <1>7
  <2> QED BY <1>5, <1>6, <1>7, <2>1
<1>8. CASE ~(i <= Len(a))
  <2>1. i - Len(a) = 1 /\ Len(b) = 1
    BY <1>4, <1>5, <1>6, <1>8
  <2> QED BY <1>5, <1>6, <1>8, <2>1
<1> QED BY <1>7, <1>8

-----------------------------------------------------------------------------
(* The channels and coordinates of the plane.                                *)

\* The unit of a colour is a number.
LEMMA ChannelOneIs ==
  /\ ChannelOne \in Nat \ {0} /\ ChannelMax \in Nat
  /\ ChannelOne \div 2 \in Nat /\ 2 * (ChannelOne \div 2) <= ChannelOne
<1>1. PICK n \in 0..15 : n = FracBits
  BY FieldAssumption
<1>2. n \in 0..30
  OBVIOUS
<1>3. Power(n) \in Nat /\ (n = 0 \/ Power(n - 1) < Power(n))
  BY <1>2, PowersGrow
<1>4. Power(0) = 1
  BY DEF Power
<1>5. Power(n) # 0
  <2>1. CASE n = 0
    BY <1>4, <2>1
  <2>2. CASE n # 0
    <3>1. n - 1 \in 0..30
      BY <2>2
    <3>2. Power(n - 1) \in Nat
      BY <3>1, PowersGrow
    <3> QED BY <1>3, <2>2, <3>2
  <2> QED BY <2>1, <2>2
<1>6. PICK k \in Nat \ {0} : k = ChannelOne
  BY <1>1, <1>3, <1>5 DEF Power, ChannelOne
<1>7. k \div 2 \in Nat /\ 2 * (k \div 2) <= k
  OBVIOUS
<1> QED BY <1>6, <1>7, FieldAssumption

\* Where the triangle covers a pixel, the start of a value there is not held to its range:
\* it is the plane's, rounded, half a unit up.
LEMMA StartNear ==
  ASSUME NEW n \in Int, NEW d \in Nat \ {0}, NEW m \in Nat, n \in 0..(2 * d * m)
  PROVE  \E r \in Int : /\ StartFixed(n, 2 * d, m) = r + ChannelOne \div 2
                         /\ Abs(2 * d * r - n * ChannelOne) <= d
<1>1. PICK k \in Int : k = n * ChannelOne
  BY ChannelOneIs
<1>2. PICK hi \in Nat : hi = m * (2 * d) /\ hi = 2 * d * m
  OBVIOUS
<1>3. Clamped(n, 0, hi) = n
  BY <1>2, HeldIs
<1>4. PICK r \in Int : r = RoundHalfAway(k, 2 * d) /\ Abs(2 * d * r - k) <= d
  BY RoundsTwice
<1>5. StartFixed(n, 2 * d, m) = r + ChannelOne \div 2
  BY <1>1, <1>2, <1>3, <1>4 DEF StartFixed
<1> QED BY <1>1, <1>4, <1>5

\* A slope that is within its range is the plane's, rounded.
LEMMA SlopeNear ==
  ASSUME NEW n \in Int, NEW d \in Nat \ {0}, NEW m \in Nat, Abs(n) <= m * d
  PROVE  /\ SlopeFixed(n, d, m) \in Int
         /\ Abs(2 * d * SlopeFixed(n, d, m) - 2 * (n * ChannelOne)) <= d
<1>1. PICK one \in Nat : one = ChannelOne
  BY ChannelOneIs
<1>2. PICK hi \in Nat : hi = m * d
  OBVIOUS
<1>3. -m * d = -hi /\ -hi <= n /\ n <= hi
  <2>1. -m * d = -(m * d)
    OBVIOUS
  <2> QED BY <1>2, <2>1 DEF Abs
<1>4. Clamped(n, -hi, hi) = n
  BY <1>3, HeldIs
<1>5. SlopeFixed(n, d, m) = RoundHalfAway(n * one, d)
  BY <1>1, <1>2, <1>3, <1>4 DEF SlopeFixed
<1> QED BY <1>1, <1>5, RoundsNear

\* A value that was walked to a pixel is the plane's there within half a unit of every step.
NearPlane(got, p, a, x, y, i, j, one) ==
  Abs(2 * p.den * got - AtCentre(p, a, x, y) * one) <= p.den * (1 + Abs(i) + j)
ColourPlane(tri) == Plane(tri, tri[1].c, tri[2].c, tri[3].c)
CoordPlane(tri) == Plane(tri, tri[1].u, tri[2].u, tri[3].u)
Gently(tri) ==
  \A d \in {ColourPlane(tri).dx, ColourPlane(tri).dy} : Abs(d) * SubOne <= ChannelMax * ColourPlane(tri).den

\* A channel that starts at a pixel the triangle covers is near the triangle's wherever it
\* is walked.
LEMMA ColourNear ==
  ASSUME NEW tri, IsTriangle(tri), Doubled(tri) # 0, NEW t, t.left \in Int, t.y \in Int,
         Covers(tri, t.left, t.y), Gently(tri), NEW i \in Int, NEW j \in Nat
  PROVE  LET c == ColourOf(t, tri)
         IN  NearPlane(c[1] - ChannelOne \div 2 + c[2] * i + c[3] * j, ColourPlane(tri), tri[1],
                    t.left + i, t.y + j, i, j, ChannelOne)
<1>1. PICK p : p = ColourPlane(tri)
  OBVIOUS
<1>2. PICK one \in Nat, half \in Nat, m \in Nat : one = ChannelOne /\ half = ChannelOne \div 2 /\ m = ChannelMax
  BY ChannelOneIs
<1>3. PICK va \in 0..m, vb \in 0..m, vc \in 0..m : va = tri[1].c /\ vb = tri[2].c /\ vc = tri[3].c
  <2>1. \A n \in 1..3 : tri[n].c \in 0..m
    BY <1>2 DEF IsTriangle
  <2>2. tri[1].c \in 0..m /\ tri[2].c \in 0..m /\ tri[3].c \in 0..m
    BY <2>1
  <2> QED BY <2>2
<1>4. p = Plane(tri, va, vb, vc)
  BY <1>1, <1>3 DEF ColourPlane
<1>5. p.at \in Int /\ p.den \in Nat \ {0} /\ p.dx \in Int /\ p.dy \in Int
  BY <1>4, PlaneTyped
<1>6. PICK a : a = tri[1] /\ IsPoint(a)
  <2>1. \A n \in 1..3 : {tri[n].x, tri[n].y} \subseteq Int
    BY DEF IsTriangle
  <2> QED BY <2>1 DEF IsPoint
<1>7. PICK x \in Int, y \in Int : x = t.left /\ y = t.y
  OBVIOUS
<1>8. PICK d \in Nat \ {0} : d = p.den
  BY <1>5
<1>9. PICK n \in Int : n = AtCentre(p, a, x, y) /\ n \in 0..(2 * d * m)
  <2>1. AtCentre(p, tri[1], x, y) \in 0..(2 * p.den * m)
    BY <1>4, <1>7, PlaneAtCovered
  <2>2. 0..(2 * d * m) \subseteq Int
    OBVIOUS
  <2> QED BY <1>6, <1>8, <2>1, <2>2
<1>10. PICK r \in Int : /\ StartFixed(n, 2 * d, m) = r + half /\ Abs(2 * d * r - n * one) <= d
  BY <1>2, <1>9, StartNear
<1>11. PICK u \in Int, v \in Int : u = p.dx * SubOne /\ v = p.dy * SubOne
  <2>1. p.den \in Int
    BY <1>5
  <2> QED BY <1>5, <1>6, <2>1, PlaneMoves
<1>12. Abs(u) <= m * d /\ Abs(v) <= m * d
  <2>1. PICK S \in Nat : S = SubOne
    BY HalfOne
  <2>2. ASSUME NEW k \in Int PROVE Abs(k * S) = Abs(k) * S
    <3>1. k * S \in Int /\ (k >= 0 => k * S >= 0) /\ (k <= 0 => k * S <= 0)
      BY <2>1, SMTT(30)
    <3>2. (-k) * S = -(k * S)
      OBVIOUS
    <3> QED BY <3>1, <3>2 DEF Abs
  <2>3. Abs(p.dx) * S <= m * d /\ Abs(p.dy) * S <= m * d
    BY <1>1, <1>2, <1>8, <2>1 DEF Gently
  <2> QED BY <1>5, <1>11, <2>1, <2>2, <2>3
<1>13. PICK sx \in Int, sy \in Int : /\ sx = SlopeFixed(u, d, m) /\ Abs(2 * d * sx - 2 * (u * one)) <= d
                                      /\ sy = SlopeFixed(v, d, m) /\ Abs(2 * d * sy - 2 * (v * one)) <= d
  BY <1>2, <1>12, SlopeNear
<1>14. Abs(2 * d * (r + sx * i + sy * j) - AtCentre(p, a, x + i, y + j) * one) <= d * (1 + Abs(i) + j)
  <2>1. /\ Abs(2 * p.den * r - AtCentre(p, a, x, y) * one) <= p.den
        /\ Abs(2 * p.den * sx - 2 * (p.dx * SubOne * one)) <= p.den
        /\ Abs(2 * p.den * sy - 2 * (p.dy * SubOne * one)) <= p.den
    BY <1>8, <1>9, <1>10, <1>11, <1>13
  <2>2. p.den \in Nat
    BY <1>5
  <2>3. Abs(2 * p.den * (r + sx * i + sy * j) - AtCentre(p, a, x + i, y + j) * one) <= p.den * (1 + Abs(i) + j)
    BY ONLY <1>5, <1>6, <2>1, <2>2, NearWalk, i \in Int, j \in Nat, x \in Int, y \in Int, one \in Nat,
            r \in Int, sx \in Int, sy \in Int
  <2> QED BY <1>8, <2>3
<1>15. ColourOf(t, tri) = <<r + half, sx, sy>>
  <2>1. ColourOf(t, tri) = Interpolated(p, a, x, y, m)
    BY <1>1, <1>2, <1>6, <1>7 DEF ColourOf, ColourPlane
  <2>2. Interpolated(p, a, x, y, m) = <<StartFixed(n, 2 * d, m), SlopeFixed(u, d, m), SlopeFixed(v, d, m)>>
    BY <1>8, <1>9, <1>11 DEF Interpolated
  <2> QED BY <1>10, <1>13, <2>1, <2>2
<1>16. PICK got \in Int : got = r + sx * i + sy * j
  OBVIOUS
<1>17. PICK c : c = ColourOf(t, tri)
  OBVIOUS
<1>19. c[1] = r + half /\ c[2] = sx /\ c[3] = sy
  BY <1>15, <1>17
<1>20. (r + half) - half = r
  OBVIOUS
<1>21. c[1] - half + c[2] * i + c[3] * j = got
  BY ONLY <1>16, <1>19, <1>20
<1>18. NearPlane(got, p, a, x + i, y + j, i, j, one)
  BY <1>8, <1>14, <1>16 DEF NearPlane
<1> QED BY ONLY <1>1, <1>2, <1>6, <1>7, <1>17, <1>18, <1>21

\* A coordinate is near the plane it was taken from, at every pixel it is walked to.
LEMMA CoordNear ==
  ASSUME NEW tri, IsTriangle(tri), Doubled(tri) # 0, NEW t, t.left \in Int, t.y \in Int,
         NEW u, {u[1], u[2], u[3]} \subseteq Int, NEW i \in Int, NEW j \in Nat
  PROVE  /\ AnchorOf(t, tri, u) \in Int /\ TmrOf(tri, u)[1] \in Int /\ TmrOf(tri, u)[2] \in Int
         /\ NearPlane(AnchorOf(t, tri, u) + TmrOf(tri, u)[1] * i + TmrOf(tri, u)[2] * j,
                   Plane(tri, u[1], u[2], u[3]), tri[1], t.left + i, t.y + j, i, j, 1)
<1>1. PICK p : p = Plane(tri, u[1], u[2], u[3])
  OBVIOUS
<1>2. p.at \in Int /\ p.den \in Nat \ {0} /\ p.dx \in Int /\ p.dy \in Int
  BY <1>1, PlaneTyped
<1>3. PICK a : a = tri[1] /\ IsPoint(a)
  <2>1. \A n \in 1..3 : {tri[n].x, tri[n].y} \subseteq Int
    BY DEF IsTriangle
  <2> QED BY <2>1 DEF IsPoint
<1>4. PICK x \in Int, y \in Int : x = t.left /\ y = t.y
  OBVIOUS
<1>5. PICK d \in Nat \ {0} : d = p.den
  BY <1>2
<1>6. PICK n \in Int, w \in Int, z \in Int : n = AtCentre(p, a, x, y) /\ w = p.dx * SubOne /\ z = p.dy * SubOne
  <2>1. p.den \in Int
    BY <1>2
  <2> QED BY <1>2, <1>3, <2>1, PlaneMoves
<1>7. PICK r \in Int : r = RoundHalfUp(n, 2 * d) /\ Abs(2 * d * r - n) <= d
  BY RoundsTwice
<1>8. PICK sx \in Int : sx = RoundHalfUp(w, d) /\ Abs(2 * d * sx - 2 * w) <= d
  BY RoundHalves
<1>9. PICK sy \in Int : sy = RoundHalfUp(z, d) /\ Abs(2 * d * sy - 2 * z) <= d
  BY RoundHalves
<1>10. Abs(2 * d * (r + sx * i + sy * j) - AtCentre(p, a, x + i, y + j) * 1) <= d * (1 + Abs(i) + j)
  <2>1. n * 1 = n /\ w * 1 = w /\ z * 1 = z
    OBVIOUS
  <2>2. /\ Abs(2 * p.den * r - AtCentre(p, a, x, y) * 1) <= p.den
        /\ Abs(2 * p.den * sx - 2 * (p.dx * SubOne * 1)) <= p.den
        /\ Abs(2 * p.den * sy - 2 * (p.dy * SubOne * 1)) <= p.den
    BY ONLY <1>5, <1>6, <1>7, <1>8, <1>9, <2>1
  <2>3. p.den \in Nat /\ 1 \in Nat
    BY <1>2
  <2>4. Abs(2 * p.den * (r + sx * i + sy * j) - AtCentre(p, a, x + i, y + j) * 1) <= p.den * (1 + Abs(i) + j)
    BY ONLY <1>2, <1>3, <2>2, <2>3, NearWalk, i \in Int, j \in Nat, x \in Int, y \in Int,
            r \in Int, sx \in Int, sy \in Int
  <2> QED BY ONLY <1>5, <2>4
<1>11. AnchorOf(t, tri, u) = r
  BY <1>1, <1>3, <1>4, <1>5, <1>6, <1>7 DEF AnchorOf
<1>12. TmrOf(tri, u)[1] = sx /\ TmrOf(tri, u)[2] = sy
  <2>1. TmrOf(tri, u) = <<sx, sy, 0, 0, 0, 0>>
    BY <1>1, <1>5, <1>6, <1>8, <1>9 DEF TmrOf
  <2> QED BY <2>1
<1>13. NearPlane(r + sx * i + sy * j, p, a, x + i, y + j, i, j, 1)
  BY ONLY <1>5, <1>10 DEF NearPlane
<1> QED BY ONLY <1>1, <1>3, <1>4, <1>11, <1>12, <1>13, r \in Int, sx \in Int, sy \in Int

\* The least and the greatest of a few.
LEMMA AmongThree ==
  ASSUME NEW a \in Int, NEW b \in Int, NEW c \in Int
  PROVE  /\ Min({a, b, c}) \in Int /\ Max({a, b, c}) \in Int
         /\ Min({a, b, c}) <= a /\ a <= Max({a, b, c})
<1>1. PICK n \in Int, g \in Int : n <= a /\ n <= b /\ n <= c /\ a <= g /\ b <= g /\ c <= g
  <2>1. \A x, y \in Int : (\E z \in Int : z <= x /\ z <= y) /\ \E z \in Int : x <= z /\ y <= z
    <3>1. TAKE x \in Int, y \in Int
    <3>2. CASE x <= y
      BY <3>2
    <3>3. CASE y <= x
      BY <3>3
    <3> QED BY <3>2, <3>3
  <2>2. PICK k \in Int, l \in Int : k <= a /\ k <= b /\ a <= l /\ b <= l
    BY <2>1
  <2>3. PICK m \in Int, h \in Int : m <= k /\ m <= c /\ l <= h /\ c <= h
    BY <2>1
  <2> QED BY <2>2, <2>3
<1> DEFINE S == {a, b, c}
<1>2. S \in SUBSET Int /\ S # {} /\ (\A x \in S : n <= x) /\ (\A x \in S : x <= g) /\ a \in S
  BY <1>1
<1> HIDE DEF S
<1>3. Min(S) \in S /\ (\A x \in S : Min(S) <= x) /\ Max(S) \in S /\ \A x \in S : x <= Max(S)
  BY <1>2, LeastOf, GreatestOf
<1>4. Min(S) \in Int /\ Max(S) \in Int /\ Min(S) <= a /\ a <= Max(S)
  BY <1>2, <1>3
<1> QED BY <1>4 DEF S

\* A value held to a range is in it.
LEMMA HeldIn ==
  ASSUME NEW v \in Int, NEW lo \in Int, NEW hi \in Int, lo <= hi
  PROVE  Clamped(v, lo, hi) \in lo..hi
<1> DEFINE S == {v, hi}
           T(m) == {lo, m}
<1>1. PICK m \in Int : m = Min(S) /\ m <= hi
  <2>1. PICK n \in Int : n <= v /\ n <= hi
    <3>1. CASE v <= hi
      BY <3>1
    <3>2. CASE hi <= v
      BY <3>2
    <3> QED BY <3>1, <3>2
  <2>2. S \in SUBSET Int /\ S # {} /\ (\A x \in S : n <= x) /\ hi \in S
    BY <2>1
  <2> HIDE DEF S
  <2>3. Min(S) \in S /\ \A x \in S : Min(S) <= x
    BY <2>2, LeastOf
  <2> QED BY <2>2, <2>3
<1>2. T(m) \in SUBSET Int /\ T(m) # {} /\ (\A x \in T(m) : x <= hi) /\ lo \in T(m)
  BY <1>1
<1>3. Clamped(v, lo, hi) = Max(T(m))
  BY <1>1 DEF Clamped
<1> HIDE DEF T
<1>4. Max(T(m)) \in T(m) /\ \A x \in T(m) : x <= Max(T(m))
  BY <1>2, GreatestOf
<1>5. Max(T(m)) \in Int /\ lo <= Max(T(m)) /\ Max(T(m)) <= hi
  BY <1>2, <1>4
<1> HIDE DEF S
<1> QED BY <1>3, <1>5

-----------------------------------------------------------------------------
(* The repeats the builder takes off a coordinate.                           *)

\* The whole repeats that may be taken off a range may be taken off a coordinate within it.
LEMMA RepeatsWithin ==
  ASSUME NEW lo \in Int, NEW hi \in Int, NEW a \in Int, lo <= a, a <= hi,
         NEW k \in RebaseKs(lo, hi)
  PROVE  k \in Int /\ k \in RebaseKs(a, a)
<1>1. PICK m \in Nat \ {0} : m = Span
  BY CoordAssumption
<1>2. PICK f \in Int : f = CeilDiv(hi - 8 * m, m) /\ m * (f - 1) < hi - 8 * m /\ hi - 8 * m <= m * f
  <2>1. hi - 8 * m \in Int
    OBVIOUS
  <2> QED BY <2>1, CeilIs
<1>3. PICK g \in Int : g = CeilDiv(a - 8 * m, m) /\ m * (g - 1) < a - 8 * m /\ a - 8 * m <= m * g
  <2>1. a - 8 * m \in Int
    OBVIOUS
  <2> QED BY <2>1, CeilIs
<1>4. PICK e \in Int : e = FloorDiv(lo + m, m) /\ lo + m - e * m \in 0..(m - 1)
  <2>1. PICK n \in Int : n = lo + m
    OBVIOUS
  <2>2. PICK q \in Int : q = n \div m /\ n - q * m \in 0..(m - 1)
    BY DivisionIs
  <2> QED BY <2>1, <2>2 DEF FloorDiv
<1>5. PICK h \in Int : h = FloorDiv(a + m, m) /\ a + m - h * m \in 0..(m - 1)
  <2>1. PICK n \in Int : n = a + m
    OBVIOUS
  <2>2. PICK q \in Int : q = n \div m /\ n - q * m \in 0..(m - 1)
    BY DivisionIs
  <2> QED BY <2>1, <2>2 DEF FloorDiv
<1>6. RebaseKs(lo, hi) = f..e /\ RebaseKs(a, a) = g..h
  BY <1>1, <1>2, <1>3, <1>4, <1>5 DEF RebaseKs
<1>7. k \in Int /\ f <= k /\ k <= e
  BY <1>6
<1>8. g <= f
  <2>1. PICK p \in Int, q \in Int : p = m * (g - 1) /\ q = m * f
    OBVIOUS
  <2>2. p < q
    BY <1>2, <1>3, <2>1
  <2>3. ~(f <= g - 1)
    <3>1. ASSUME f <= g - 1 PROVE m * f <= m * (g - 1)
      BY <3>1, SMTT(30)
    <3> QED BY <2>1, <2>2, <3>1
  <2> QED BY <2>3
<1>9. e <= h
  <2>1. PICK p \in Int, q \in Int : p = e * m /\ q = (h + 1) * m
    OBVIOUS
  <2>2. q = h * m + m
    BY <2>1
  <2>3. p < q
    BY <1>4, <1>5, <2>1, <2>2
  <2>4. ~(h + 1 <= e)
    <3>1. ASSUME h + 1 <= e PROVE (h + 1) * m <= e * m
      BY <3>1, SMTT(30)
    <3> QED BY <2>1, <2>3, <3>1
  <2> QED BY <2>4
<1> QED BY <1>6, <1>7, <1>8, <1>9

\* Where a coordinate that was asked for is, for what was taken off it.
Repeats(tri, repeats) == IF repeats THEN RebaseKs(tri[1].u, tri[1].u) ELSE {0}
Given(tri) == <<tri[1].u, tri[2].u, tri[3].u>>
LEMMA RebasedIs ==
  ASSUME NEW tri, IsTriangle(tri), NEW repeats, NEW u, u = Rebased(Given(tri), repeats), TexInRange(u)
  PROVE  \E k \in Repeats(tri, repeats) :
           k \in Int /\ \A n \in 1..3 : u[n] \in Int /\ u[n] = tri[n].u - k * Span
<1>1. PICK a \in Int, b \in Int, c \in Int : a = tri[1].u /\ b = tri[2].u /\ c = tri[3].u
  <2>1. \A n \in 1..3 : tri[n].u \in Int
    BY DEF IsTriangle
  <2> QED BY <2>1
<1>2. PICK m \in Nat \ {0} : m = Span
  BY CoordAssumption
<1>3. PICK lo \in Int, hi \in Int : lo = Min({a, b, c}) /\ hi = Max({a, b, c}) /\ lo <= a /\ a <= hi
  BY AmongThree
<1> DEFINE taken == repeats /\ (lo < 0 \/ hi > 8 * m) /\ RebaseKs(lo, hi) # {}
<1>4. u = IF taken THEN [i \in 1..3 |-> Given(tri)[i] - RebaseK(lo, hi) * m] ELSE Given(tri)
  BY <1>1, <1>2, <1>3 DEF Rebased, Given
<1>5. Given(tri)[1] = a /\ Given(tri)[2] = b /\ Given(tri)[3] = c
  BY <1>1 DEF Given
<1>6. CASE taken
  <2>1. RebaseK(lo, hi) \in RebaseKs(lo, hi)
    <3>1. PICK f \in Int : f = CeilDiv(hi - 8 * m, m)
      <4>1. hi - 8 * m \in Int
        OBVIOUS
      <4> QED BY <4>1, CeilDivTyped
    <3>2. PICK e \in Int : e = FloorDiv(lo + m, m)
      <4>1. lo + m \in Int
        OBVIOUS
      <4> QED BY <4>1, CeilDivTyped
    <3> DEFINE K == f..e
    <3>3. RebaseKs(lo, hi) = K
      BY <1>2, <3>1, <3>2 DEF RebaseKs
    <3>4. K \in SUBSET Int /\ K # {} /\ (\A x \in K : f <= x) /\ (\A x \in K : x <= e)
      BY <1>6, <3>3
    <3>5. PICK x \in Int : x = FloorDiv(lo + hi - 6 * m, 2 * m)
      <4>1. lo + hi - 6 * m \in Int /\ 2 * m \in Nat \ {0}
        OBVIOUS
      <4> QED BY <4>1, CeilDivTyped
    <3>6. RebaseK(lo, hi) = Clamped(x, Min(K), Max(K))
      BY <1>2, <3>3, <3>5 DEF RebaseK
    <3>7. \A y \in Int : f <= y /\ y <= e => y \in K
      OBVIOUS
    <3> HIDE DEF K
    <3>8. Min(K) \in K /\ Max(K) \in K /\ \A y \in K : Min(K) <= y
      BY <3>4, LeastOf, GreatestOf
    <3>9. PICK l \in Int, h \in Int : l = Min(K) /\ h = Max(K) /\ f <= l /\ l <= h /\ h <= e
      BY <3>4, <3>8
    <3>10. Clamped(x, l, h) \in l..h
      BY <3>9, HeldIn
    <3> QED BY <3>3, <3>6, <3>7, <3>9, <3>10
  <2>2. PICK k \in Int : k = RebaseK(lo, hi) /\ k \in RebaseKs(a, a)
    BY <1>3, <2>1, RepeatsWithin
  <2>3. PICK s \in Int : s = k * m
    OBVIOUS
  <2>4. u[1] = a - s /\ u[2] = b - s /\ u[3] = c - s
    BY <1>4, <1>5, <1>6, <2>2, <2>3
  <2>5. \A n \in 1..3 : u[n] \in Int /\ u[n] = tri[n].u - k * Span
    BY <1>1, <1>2, <2>3, <2>4
  <2>6. k \in Repeats(tri, repeats)
    BY <1>1, <1>6, <2>2 DEF Repeats
  <2> QED BY <2>5, <2>6
<1>7. CASE ~taken
  <2>1. u[1] = a /\ u[2] = b /\ u[3] = c
    BY <1>4, <1>5, <1>7
  <2>2. \A n \in 1..3 : u[n] \in Int /\ u[n] = tri[n].u - 0 * Span
    <3>1. 0 * Span = 0
      BY <1>2
    <3> QED BY <1>1, <2>1, <3>1
  <2>3. 0 \in RebaseKs(a, a)
    <3>1. a \in Int /\ -m <= a /\ a <= 8 * m
      BY <1>2, <2>1 DEF TexInRange, CoordMax
    <3>2. PICK f \in Int : f = CeilDiv(a - 8 * m, m) /\ m * (f - 1) < a - 8 * m
      <4>1. a - 8 * m \in Int
        OBVIOUS
      <4> QED BY <4>1, CeilIs
    <3>3. PICK e \in Int : e = FloorDiv(a + m, m) /\ a + m - e * m \in 0..(m - 1)
      <4>1. a + m \in Int
        OBVIOUS
      <4> QED BY <4>1, DivisionIs DEF FloorDiv
    <3>4. f <= 0
      <4>1. ASSUME f > 0 PROVE m * (f - 1) >= 0
        <5>1. f - 1 \in Nat
          BY <4>1
        <5> QED BY <5>1
      <4> QED BY <3>1, <3>2, <4>1
    <3>5. e >= 0
      <4>1. ASSUME e < 0 PROVE e * m <= -m
        <5>1. -1 - e \in Nat
          BY <4>1
        <5>2. (-1 - e) * m >= 0 /\ (-1 - e) * m = -m - e * m
          BY <5>1
        <5> QED BY <5>2
      <4> QED BY <3>1, <3>3, <4>1
    <3> QED BY <1>2, <3>2, <3>3, <3>4, <3>5 DEF RebaseKs
  <2>4. 0 \in Repeats(tri, repeats)
    BY <1>1, <2>3 DEF Repeats
  <2> QED BY <2>2, <2>4
<1> QED BY <1>6, <1>7

\* Whole repeats taken off a coordinate are whole repeats off its plane.
LEMMA ShiftedWithin ==
  ASSUME NEW tri, IsTriangle(tri), Doubled(tri) # 0, NEW u, NEW k \in Int,
         \A n \in 1..3 : u[n] \in Int /\ u[n] = tri[n].u - k * Span,
         NEW got \in Int, NEW x \in Int, NEW y \in Int, NEW i \in Int, NEW j \in Nat,
         NearPlane(got, Plane(tri, u[1], u[2], u[3]), tri[1], x, y, i, j, 1)
  PROVE  NearPlane(got + k * Span, CoordPlane(tri), tri[1], x, y, i, j, 1)
<1>1. PICK a \in Int, b \in Int, c \in Int : a = tri[1].u /\ b = tri[2].u /\ c = tri[3].u
  <2>1. \A n \in 1..3 : tri[n].u \in Int
    BY DEF IsTriangle
  <2> QED BY <2>1
<1>2. PICK s \in Int : s = k * Span
  <2>1. Span \in Int
    BY CoordAssumption
  <2> QED BY <2>1
<1>3. u[1] = a - s /\ u[2] = b - s /\ u[3] = c - s
  BY <1>1, <1>2
<1>4. PICK p, q : p = Plane(tri, a - s, b - s, c - s) /\ q = Plane(tri, a, b, c)
  OBVIOUS
<1>5. /\ p.at = a - s /\ q.at = a /\ p.den = q.den /\ p.dx = q.dx /\ p.dy = q.dy
  <2>1. (b - s) - (a - s) = b - a /\ (c - s) - (a - s) = c - a
    OBVIOUS
  <2> QED BY <1>4, <2>1 DEF Plane
<1>6. q.at \in Int /\ q.den \in Nat \ {0} /\ q.dx \in Int /\ q.dy \in Int
  BY <1>4, PlaneTyped
<1>7. PICK d \in Nat, dx \in Int, dy \in Int : d = q.den /\ dx = q.dx /\ dy = q.dy
  BY <1>6
<1>8. PICK f : f = tri[1] /\ IsPoint(f)
  <2>1. \A n \in 1..3 : {tri[n].x, tri[n].y} \subseteq Int
    BY DEF IsTriangle
  <2> QED BY <2>1 DEF IsPoint
<1>9. PICK m \in Int, n \in Int : m = 2 * SubOne * x + SubOne - 2 * f.x /\ n = 2 * SubOne * y + SubOne - 2 * f.y
  <2>1. PICK S \in Int : S = SubOne
    BY HalfOne
  <2> QED BY <1>8, <2>1 DEF IsPoint
<1>10. PICK g \in Int, h \in Int : g = dx * m /\ h = dy * n
  OBVIOUS
<1>11. AtCentre(p, f, x, y) = 2 * (a - s) * d + g + h /\ AtCentre(q, f, x, y) = 2 * a * d + g + h
  BY <1>5, <1>7, <1>9, <1>10 DEF AtCentre
<1>12. 2 * d * (got + s) - (2 * a * d + g + h) * 1 = 2 * d * got - (2 * (a - s) * d + g + h) * 1
  <2>1. 2 * d * (got + s) = 2 * d * got + 2 * d * s
    OBVIOUS
  <2>2. 2 * (a - s) * d = 2 * a * d - 2 * d * s
    OBVIOUS
  <2>3. PICK e \in Int, o \in Int, z \in Int : e = 2 * d * got /\ o = 2 * d * s /\ z = 2 * a * d
    OBVIOUS
  <2> QED BY <2>1, <2>2, <2>3
<1>13. Abs(2 * d * got - (2 * (a - s) * d + g + h) * 1) <= d * (1 + Abs(i) + j)
  <2>1. NearPlane(got, p, f, x, y, i, j, 1)
    BY <1>3, <1>4, <1>8
  <2> QED BY ONLY <1>5, <1>7, <1>11, <2>1 DEF NearPlane
<1>14. Abs(2 * d * (got + s) - AtCentre(q, f, x, y) * 1) <= d * (1 + Abs(i) + j)
  BY ONLY <1>11, <1>12, <1>13
<1>15. CoordPlane(tri) = q
  BY <1>1, <1>4 DEF CoordPlane
<1> QED BY ONLY <1>2, <1>7, <1>8, <1>14, <1>15 DEF NearPlane

\* A trapezoid whose channel and coordinate are near the triangle's at every pixel, its
\* columns counted from where it begins.
Shades(d, tmr, tri, repeats, left) ==
  \A i \in Int, j \in Nat :
    /\ Gently(tri) => NearPlane(d.colour[1] - ChannelOne \div 2 + d.colour[2] * i + d.colour[3] * j,
                             ColourPlane(tri), tri[1], left + i, d.y + j, i, j, ChannelOne)
    /\ Textured(d) => \E k \in Repeats(tri, repeats) :
                        NearPlane(d.tu0 + tmr[1] * i + tmr[2] * j + k * Span,
                               CoordPlane(tri), tri[1], left + i, d.y + j, i, j, 1)

\* Dressed at a pixel the triangle covers, a trapezoid is one.
LEMMA DressedShades ==
  ASSUME NEW tri, IsTriangle(tri), Doubled(tri) # 0, NEW t, t.left \in Int, t.y \in Int,
         Covers(tri, t.left, t.y), NEW repeats, NEW prim, NEW offset,
         NEW u, u = Rebased(Given(tri), repeats), prim.opcode = OpTex => TexInRange(u)
  PROVE  Shades(Dressed(t, tri, u, prim, offset), TmrOf(tri, u), tri, repeats, t.left)
<1>1. PICK d, c, tmr : d = Dressed(t, tri, u, prim, offset) /\ c = ColourOf(t, tri) /\ tmr = TmrOf(tri, u)
  OBVIOUS
<1>2. d.y = t.y /\ d.colour = c /\ d.prim = prim /\ (prim.opcode = OpTex => d.tu0 = AnchorOf(t, tri, u))
  BY <1>1 DEF Dressed
<1>3. ASSUME NEW i \in Int, NEW j \in Nat, Gently(tri)
      PROVE  NearPlane(d.colour[1] - ChannelOne \div 2 + d.colour[2] * i + d.colour[3] * j,
                    ColourPlane(tri), tri[1], t.left + i, d.y + j, i, j, ChannelOne)
  <2>1. NearPlane(c[1] - ChannelOne \div 2 + c[2] * i + c[3] * j,
               ColourPlane(tri), tri[1], t.left + i, t.y + j, i, j, ChannelOne)
    BY <1>1, <1>3, ColourNear
  <2> QED BY ONLY <1>2, <2>1
<1>4. ASSUME NEW i \in Int, NEW j \in Nat, Textured(d)
      PROVE  \E k \in Repeats(tri, repeats) :
               NearPlane(d.tu0 + tmr[1] * i + tmr[2] * j + k * Span,
                      CoordPlane(tri), tri[1], t.left + i, d.y + j, i, j, 1)
  <2>1. TexInRange(u) /\ d.tu0 = AnchorOf(t, tri, u)
    BY <1>2, <1>4 DEF Textured
  <2>2. PICK k \in Repeats(tri, repeats) :
          k \in Int /\ \A n \in 1..3 : u[n] \in Int /\ u[n] = tri[n].u - k * Span
    BY <2>1, RebasedIs
  <2>3. {u[1], u[2], u[3]} \subseteq Int
    BY <2>2
  <2>4. /\ d.tu0 \in Int /\ tmr[1] \in Int /\ tmr[2] \in Int
        /\ NearPlane(d.tu0 + tmr[1] * i + tmr[2] * j, Plane(tri, u[1], u[2], u[3]), tri[1],
                  t.left + i, t.y + j, i, j, 1)
    BY <1>1, <2>1, <2>3, CoordNear
  <2>5. PICK got \in Int : got = d.tu0 + tmr[1] * i + tmr[2] * j
    BY <2>4
  <2>6. PICK x \in Int, y \in Int : x = t.left + i /\ y = t.y + j
    OBVIOUS
  <2>7. NearPlane(got, Plane(tri, u[1], u[2], u[3]), tri[1], x, y, i, j, 1)
    BY ONLY <2>4, <2>5, <2>6
  <2>8. NearPlane(got + k * Span, CoordPlane(tri), tri[1], x, y, i, j, 1)
    BY <2>2, <2>7, ShiftedWithin
  <2>9. NearPlane(d.tu0 + tmr[1] * i + tmr[2] * j + k * Span,
               CoordPlane(tri), tri[1], t.left + i, d.y + j, i, j, 1)
    BY ONLY <1>2, <2>5, <2>6, <2>8
  <2> QED BY <2>9
<1>5. Shades(d, tmr, tri, repeats, t.left)
  BY <1>3, <1>4, Zenon DEF Shades
<1> QED BY <1>1, <1>5

-----------------------------------------------------------------------------
(* The halves as the builder hands them on.                                  *)

\* What the builder hands on at full precision, in its parts.
HalvesOf(tri) == Half(ByY(tri), 1, 2, SubBits) \o Half(ByY(tri), 2, 3, SubBits)
BuiltOf(built, tri, prim, repeats, offset) ==
  LET u == Rebased(Given(tri), repeats)
  IN  /\ Doubled(tri) # 0 /\ (\A i \in 1..3 : CoordOK(tri[i]))
      /\ prim.opcode = OpTex => TexInRange(u)
      /\ built.tmr = TmrOf(tri, u)
      /\ DOMAIN built.tris = DOMAIN HalvesOf(tri)
      /\ \A i \in DOMAIN HalvesOf(tri) : built.tris[i] = Dressed(HalvesOf(tri)[i], tri, u, prim, offset)
LEMMA BuiltInParts ==
  ASSUME NEW tri, Exact(tri), NEW prim, NEW repeats, NEW offset,
         NEW built, built = BuildTriangle(tri, prim, repeats, offset), built.tris # <<>>
  PROVE  BuiltOf(built, tri, prim, repeats, offset)
<1> DEFINE v == ByY(tri)
           s == Precision(v)
           given == <<tri[1].u, tri[2].u, tri[3].u>>
           u == Rebased(given, repeats)
           halves == Half(v, 1, 2, s) \o Half(v, 2, 3, s)
           dressed == [i \in DOMAIN halves |-> Dressed(halves[i], tri, u, prim, offset)]
           no == [ok |-> FALSE, tris |-> <<>>, tmr |-> <<0, 0, 0, 0, 0, 0>>]
           flat == [no EXCEPT !.ok = TRUE]
           done == [ok |-> TRUE, tmr |-> TmrOf(tri, u), tris |-> dressed]
           far == \E i \in 1..3 : ~CoordOK(tri[i])
           offsets == ~OffsetOK(tri, offset)
           texture == prim.opcode = OpTex /\ ~TexInRange(u)
           vanishes == HalfVanishes(v, 1, 2, s) \/ HalfVanishes(v, 2, 3, s)
<1>1. built = IF far THEN no
              ELSE IF Doubled(tri) = 0 THEN flat
              ELSE IF offsets THEN no
              ELSE IF texture THEN no
              ELSE IF vanishes THEN no
              ELSE done
  BY DEF BuildTriangle
<1>2. no.tris = <<>> /\ flat.tris = <<>> /\ done.tris = dressed /\ done.tmr = TmrOf(tri, u)
  OBVIOUS
<1> HIDE DEF no, flat, done, offsets, vanishes
<1>3. ~far /\ Doubled(tri) # 0 /\ ~texture /\ built.tris = dressed /\ built.tmr = TmrOf(tri, u)
  <2> HIDE DEF far, dressed, texture
  <2> QED BY <1>1, <1>2
<1>4. halves = HalvesOf(tri)
  BY DEF Exact, HalvesOf
<1>5. given = Given(tri)
  BY DEF Given
<1> HIDE DEF halves, given
<1>6. DOMAIN dressed = DOMAIN halves /\ \A i \in DOMAIN halves : dressed[i] = Dressed(halves[i], tri, u, prim, offset)
  OBVIOUS
<1> HIDE DEF dressed
<1>7. (\A i \in 1..3 : CoordOK(tri[i])) /\ (prim.opcode = OpTex => TexInRange(u))
  BY <1>3
<1> HIDE DEF far, texture
<1> QED BY <1>3, <1>4, <1>5, <1>6, <1>7 DEF BuiltOf

\* The corners of a triangle, in order down the screen.
Sorted(v) ==
  IsPoint(v[1]) /\ IsPoint(v[2]) /\ IsPoint(v[3]) /\ v[1].y <= v[2].y /\ v[2].y <= v[3].y
LEMMA SortedIs ==
  ASSUME NEW tri, IsTriangle(tri)
  PROVE  Sorted(ByY(tri))
<1>1. IsCorners(ByY(tri)) /\ ByY(tri)[1].y <= ByY(tri)[2].y /\ ByY(tri)[2].y <= ByY(tri)[3].y
  BY ByYSorts
<1>2. \A i \in 1..3 : IsPoint(ByY(tri)[i])
  BY <1>1 DEF IsCorners, IsPoint
<1> QED BY <1>1, <1>2 DEF Sorted

\* Each of the halves begins at a pixel the triangle covers.
LEMMA BeginsCovered ==
  ASSUME NEW tri, IsTriangle(tri), Doubled(tri) # 0, \A i \in 1..3 : CoordOK(tri[i]),
         NEW i \in DOMAIN HalvesOf(tri)
  PROVE  LET t == HalvesOf(tri)[i]
         IN  Columned(t) /\ t.left \in Int /\ t.y \in Int /\ Covers(tri, t.left, t.y)
<1>1. PICK halves : halves = HalvesOf(tri)
  OBVIOUS
<1>2. CoordLimit \in Nat
  BY ColumnAssumption
<1>3. PaintsTriangle(halves, tri)
  BY <1>1, <1>2, HalvesPaint DEF HalvesOf
<1>4. PICK t : t = halves[i]
  OBVIOUS
<1>5. WalksHalf(t, ByY(tri), 1, 2) \/ WalksHalf(t, ByY(tri), 2, 3)
  BY <1>1, <1>4, SortedIs, HalvesWalk DEF HalvesOf, Sorted
<1>6. Begins(t) /\ t.y \in Int
  BY <1>5 DEF WalksHalf
<1>7. Columned(t)
  BY <1>1, <1>3, <1>4 DEF PaintsTriangle
<1>8. PICK x \in Int : x = t.left
  BY <1>2, <1>7 DEF Columned
<1>9. PICK y \in Int : y = t.y
  BY <1>6
<1>10. y - t.y = 0 /\ 0 \in Rows(t) /\ LeftAt(t, 0) = x /\ x < RightAt(t, 0)
  BY <1>6, <1>8, <1>9 DEF Begins, DrawnRows
<1>11. Paints(t, x, y)
  BY <1>8, <1>10 DEF Paints
<1>12. Covers(tri, x, y)
  BY <1>1, <1>3, <1>4, <1>11, Zenon DEF PaintsTriangle
<1> QED BY <1>1, <1>4, <1>7, <1>8, <1>9, <1>12

\* What is built at full precision is near the triangle.
Shaded(tris, tmr, tri, repeats) ==
  \A i \in DOMAIN tris :
    \E left \in (-CoordLimit)..CoordLimit :
      tris[i].left = left % 65536 /\ Shades(tris[i], tmr, tri, repeats, left)
LEMMA BuiltShades ==
  ASSUME NEW tri, IsTriangle(tri), Exact(tri), NEW prim, NEW repeats, NEW offset,
         NEW built, built = BuildTriangle(tri, prim, repeats, offset), built.tris # <<>>
  PROVE  Shaded(built.tris, built.tmr, tri, repeats)
<1>1. BuiltOf(built, tri, prim, repeats, offset)
  BY BuiltInParts
<1>2. PICK u : u = Rebased(Given(tri), repeats)
  OBVIOUS
<1>3. PICK halves : halves = HalvesOf(tri)
  OBVIOUS
<1>4. /\ Doubled(tri) # 0 /\ (\A i \in 1..3 : CoordOK(tri[i]))
      /\ prim.opcode = OpTex => TexInRange(u)
      /\ built.tmr = TmrOf(tri, u) /\ DOMAIN built.tris = DOMAIN halves
      /\ \A i \in DOMAIN halves : built.tris[i] = Dressed(halves[i], tri, u, prim, offset)
  BY <1>1, <1>2, <1>3 DEF BuiltOf
<1>5. ASSUME NEW i \in DOMAIN built.tris
      PROVE  \E left \in (-CoordLimit)..CoordLimit :
               built.tris[i].left = left % 65536 /\ Shades(built.tris[i], built.tmr, tri, repeats, left)
  <2>1. PICK t : t = halves[i] /\ built.tris[i] = Dressed(t, tri, u, prim, offset)
    BY <1>4
  <2>2. Columned(t) /\ t.left \in Int /\ t.y \in Int /\ Covers(tri, t.left, t.y)
    BY <1>3, <1>4, <2>1, BeginsCovered
  <2>3. Shades(built.tris[i], built.tmr, tri, repeats, t.left)
    BY <1>2, <1>4, <2>1, <2>2, DressedShades
  <2>4. built.tris[i].left = t.left % 65536
    BY <2>1, DressedWears DEF Wears
  <2> QED BY <2>2, <2>3, <2>4 DEF Columned
<1> QED BY <1>5 DEF Shaded

-----------------------------------------------------------------------------
(* The induction over the path.                                              *)

\* The path keeps what the builder made of the triangle that was asked for.
Shading ==
  (source.kind = "triangle" /\ phase \in {"built", "submitted", "drawing"}) =>
    /\ Exact(source.job.tri) =>
         Shaded(batch.tris, batch.state.tmr, source.job.tri, source.job.repeats)
    /\ phase = "drawing" => batch.state.dstWidth <= Stride

\* It is built so.
LEMMA ShadingAsk ==
  ASSUME Ask
  PROVE  Shading'
<1>1. CASE AskForTriangle
  <2>1. PICK job : /\ AskTriangle(job) /\ source'.kind = "triangle"
                   /\ IsState(job.state) /\ IsTriangle(job.tri)
    BY <1>1, TriangleIs
  <2>2. source'.job = job
    <3>1. source' = [kind |-> "triangle", job |-> job]
      BY <2>1 DEF AskTriangle
    <3> QED BY <3>1
  <2>3. PICK built : built = BuildTriangle(job.tri, job.prim, job.repeats, job.offset)
    OBVIOUS
  <2>4. IF built.tris # <<>>
        THEN /\ phase' = "built" /\ UNCHANGED verdict
             /\ batch' = [state |-> [job.state EXCEPT !.tmr = built.tmr], tris |-> built.tris]
        ELSE /\ phase' = "done" /\ UNCHANGED batch
             /\ verdict' = [by |-> "builder", is |-> IF built.ok THEN "OK" ELSE "UNSUPPORTED"]
    BY <2>1, <2>3 DEF AskTriangle
  <2>5. CASE built.tris # <<>>
    <3>1. phase' = "built" /\ batch'.tris = built.tris /\ batch'.state.tmr = built.tmr
      <4>1. batch' = [state |-> [job.state EXCEPT !.tmr = built.tmr], tris |-> built.tris]
            /\ phase' = "built"
        BY <2>4, <2>5
      <4>2. "tmr" \in DOMAIN job.state
        BY <2>1 DEF IsState, StateFields
      <4> QED BY <4>1, <4>2
    <3>2. ASSUME Exact(job.tri)
          PROVE  Shaded(batch'.tris, batch'.state.tmr, job.tri, job.repeats)
      <4>1. Shaded(built.tris, built.tmr, job.tri, job.repeats)
        BY <2>1, <2>3, <2>5, <3>2, BuiltShades
      <4> QED BY <3>1, <4>1
    <3> QED BY <2>2, <3>1, <3>2 DEF Shading
  <2>6. CASE ~(built.tris # <<>>)
    <3>1. phase' = "done"
      BY <2>4, <2>6
    <3> QED BY <3>1 DEF Shading
  <2> QED BY <2>5, <2>6
<1>2. CASE AskForBatch
  BY <1>2, BatchAsked DEF Shading
<1>3. CASE AskForWarp
  <2>1. PICK b : AskWarp(b)
    BY <1>3 DEF AskForWarp
  <2>2. source'.kind = "warp"
    BY <2>1 DEF AskWarp
  <2> QED BY <2>2 DEF Shading
<1>4. CASE AskForMesh
  <2>1. PICK st, caps, job : AskMesh(st, caps, job)
    BY <1>4 DEF AskForMesh
  <2>2. source'.kind = "mesh"
    BY <2>1 DEF AskMesh
  <2> QED BY <2>2 DEF Shading
<1> QED BY <1>1, <1>2, <1>3, <1>4 DEF Ask

\* No step to the engine changes it.
LEMMA ShadingNext ==
  ASSUME Inv, Shading, [Next]_vars
  PROVE  Shading'
<1>1. CASE UNCHANGED vars
  <2>1. UNCHANGED <<phase, source, batch>>
    BY <1>1 DEF vars
  <2> QED BY <2>1 DEF Shading
<1>2. CASE Ask
  BY <1>2, ShadingAsk
<1>3. CASE AddTriangle \/ EndMesh \/ Continue
  <2>1. source'.kind = "mesh"
    BY <1>3, MeshStays
  <2> QED BY <2>1 DEF Shading
<1>4. CASE Prevalidate
  <2>1. UNCHANGED <<source, batch>> /\ phase = "built" /\ phase' \in {"done", "submitted"}
    BY <1>4 DEF Prevalidate
  <2> QED BY <2>1 DEF Shading
<1>5. CASE Submit
  <2>1. UNCHANGED <<source, batch>> /\ phase = "submitted" /\ Trapezoids
        /\ verdict' = [by |-> "kernel", is |-> Answer]
        /\ phase' \in {"drawing", "done"} /\ (phase' = "drawing" => verdict'.is = "OK")
    BY <1>5 DEF Submit, Answer, Trapezoids
  <2>2. ASSUME phase' = "drawing" PROVE batch.state.dstWidth <= Stride
    <3>1. Answer = "OK"
      <4>1. verdict'.is = Answer
        BY <2>1
      <4> QED BY <2>1, <2>2, <4>1
    <3>2. Destination(batch.state, FALSE) = "OK"
      BY <3>1 DEF Answer
    <3>3. IsState(batch.state)
      BY <2>1 DEF Inv, Sources
    <3> QED BY <3>2, <3>3, DestinationWide
  <2> QED BY <2>1, <2>2 DEF Shading
<1>6. CASE SubmitWarp
  <2>1. phase' = "done"
    BY <1>6 DEF SubmitWarp
  <2> QED BY <2>1 DEF Shading
<1>7. CASE Row
  <2>1. UNCHANGED <<source, batch>> /\ phase = "drawing" /\ phase' \in {"drawing", "done"}
    BY <1>7 DEF Row
  <2> QED BY <2>1 DEF Shading
<1>8. CASE Return
  <2>1. phase' = "idle"
    BY <1>8 DEF Return
  <2> QED BY <2>1 DEF Shading
<1> QED BY <1>1, <1>2, <1>3, <1>4, <1>5, <1>6, <1>7, <1>8 DEF Next

LEMMA ShadingAlways == Spec => [](Inv /\ Shading)
<1>1. Init => Shading
  BY DEF Init, Shading, NoSource
<1>2. Inv /\ Shading /\ [Next]_vars => Shading'
  BY ShadingNext
<1> QED BY <1>1, <1>2, Invariance, PTL DEF Spec

\* At every pixel of a row the engine walks, what was built is near the triangle there.
LEMMA RowShades ==
  ASSUME Inv, Shading, phase = "drawing", source.kind = "triangle", Exact(source.job.tri),
         NEW x \in at.lx..(at.rx - 1)
  PROVE  /\ x - Tri.left \in Int /\ at.row \in Nat /\ Tri.left + (x - Tri.left) = x
         /\ Shades(Tri, batch.state.tmr, source.job.tri, source.job.repeats, Tri.left)
<1>1. /\ Trapezoids /\ IsState(batch.state) /\ IsTris(batch.tris) /\ WalkHolds
      /\ BatchHolds(batch.state, batch.tris)
  BY DEF Inv, Sources, Accepted, Trapezoids
<1>2. PICK t : t = Tri
  OBVIOUS
<1>3. at.tri \in DOMAIN batch.tris /\ t = batch.tris[at.tri] /\ IsTri(t)
  BY <1>1, <1>2 DEF WalkHolds, Tri, IsTris
<1>4. at.row \in Rows(t)
  BY <1>1, <1>2 DEF WalkHolds, Rows
<1>5. PICK n \in 0..Stride : n = batch.state.dstWidth
  <2>1. batch.state.dstWidth \in Nat /\ batch.state.dstWidth <= Stride
    BY <1>1, WordAssumption DEF IsState, Shading
  <2> QED BY <2>1, ColumnAssumption
<1>6. GeometryHolds(t, Limits(batch.state, Window)) /\ ~EdgesCross(t, Limits(batch.state, Window))
  BY <1>1, <1>3 DEF BatchHolds
<1>7. Limits(batch.state, Window).clipX1 \in Int /\ n = Limits(batch.state, Window).clipX1 + 1
  BY <1>5 DEF Limits
<1>8. x \in Int
  <2>1. at.lx = LeftAt(t, at.row) /\ at.rx = RightAt(t, at.row)
    BY <1>1, <1>2 DEF WalkHolds
  <2>2. n \in Nat
    BY ColumnAssumption
  <2>3. OnRows(t, n)
    BY <1>3, <1>6, <1>7, <2>2, ColumnsOnSurface
  <2>4. LeftAt(t, at.row) \in 0..n /\ RightAt(t, at.row) \in 0..n
    BY <1>4, <2>3 DEF OnRows
  <2> QED BY <2>1, <2>2, <2>4
<1>9. PICK left \in (-CoordLimit)..CoordLimit :
        t.left = left % 65536 /\ Shades(t, batch.state.tmr, source.job.tri, source.job.repeats, left)
  BY <1>3 DEF Shading, Shaded
<1>10. t.left <= n
  BY <1>6, <1>7 DEF GeometryHolds
<1>11. t.left = left
  BY <1>9, <1>10, ColumnStands
<1>12. t.left \in Int /\ at.row \in Nat
  BY <1>3, <1>4 DEF IsTri, Rows
<1> QED BY <1>2, <1>8, <1>9, <1>11, <1>12

\* Wherever the engine draws a triangle built at full precision, its channel is the
\* triangle's there within half a unit for the start and for each of the steps it was walked,
\* and so is its coordinate, up to whole repeats that the builder may take off it: rounding,
\* clamping and the rebase of the texture lose no more than that, however large the triangle
\* (osmgaFixed, osmgaStartFixed, osmgaMesaRebaseK).
THEOREM InterpolatesAlways == Spec => []InterpolatesAsAsked
<1>1. Inv /\ Shading => InterpolatesAsAsked
  <2> SUFFICES ASSUME Inv, Shading, phase = "drawing", source.kind = "triangle",
                      Exact(source.job.tri)
               PROVE  InterpolatesAsAsked
    BY DEF InterpolatesAsAsked
  <2>1. PICK tri, rep : tri = source.job.tri /\ rep = source.job.repeats
    OBVIOUS
  <2>2. ASSUME NEW x \in at.lx..(at.rx - 1)
        PROVE  /\ Gently(tri) =>
                    NearPlane(Tri.colour[1] - ChannelOne \div 2 + Tri.colour[2] * (x - Tri.left)
                             + Tri.colour[3] * at.row,
                           ColourPlane(tri), tri[1], x, Tri.y + at.row, x - Tri.left, at.row, ChannelOne)
               /\ Textured(Tri) => \E k \in Repeats(tri, rep) :
                    NearPlane(UAt(batch.state, Tri, x - Tri.left, at.row) + k * Span,
                           CoordPlane(tri), tri[1], x, Tri.y + at.row, x - Tri.left, at.row, 1)
    <3>0. PICK t : t = Tri
      OBVIOUS
    <3>1. PICK i \in Int, j \in Nat : /\ i = x - Tri.left /\ j = at.row /\ t = Tri /\ t.left + i = x
                                      /\ Shades(t, batch.state.tmr, tri, rep, t.left)
      BY <2>1, <3>0, RowShades
    <3>2. UAt(batch.state, t, i, j) = t.tu0 + batch.state.tmr[1] * i + batch.state.tmr[2] * j
      BY DEF UAt
    <3>3. /\ Gently(tri) =>
               NearPlane(t.colour[1] - ChannelOne \div 2 + t.colour[2] * i + t.colour[3] * j,
                      ColourPlane(tri), tri[1], x, t.y + j, i, j, ChannelOne)
          /\ Textured(t) => \E k \in Repeats(tri, rep) :
               NearPlane(t.tu0 + batch.state.tmr[1] * i + batch.state.tmr[2] * j + k * Span,
                      CoordPlane(tri), tri[1], x, t.y + j, i, j, 1)
      <4>1. /\ Gently(tri) =>
                 NearPlane(t.colour[1] - ChannelOne \div 2 + t.colour[2] * i + t.colour[3] * j,
                        ColourPlane(tri), tri[1], t.left + i, t.y + j, i, j, ChannelOne)
            /\ Textured(t) => \E k \in Repeats(tri, rep) :
                 NearPlane(t.tu0 + batch.state.tmr[1] * i + batch.state.tmr[2] * j + k * Span,
                        CoordPlane(tri), tri[1], t.left + i, t.y + j, i, j, 1)
        BY <3>1, Zenon DEF Shades
      <4> QED BY ONLY <3>1, <4>1
    <3> QED BY ONLY <3>1, <3>2, <3>3
  <2> QED BY <2>1, <2>2, Zenon
          DEF InterpolatesAsAsked, Gently, ColourPlane, CoordPlane, NearPlane, Repeats
<1> QED BY <1>1, ShadingAlways, PTL

-----------------------------------------------------------------------------
(* The edges of a half at full precision.                                    *)

\* The error an edge starts with is above minus its divisor, and not above nought.
LEMMA ErrorIs ==
  ASSUME NEW M \in Nat \ {0}, NEW D \in Nat \ {0}, NEW G \in Int,
         NEW P \in Int, NEW x0 \in Int, M * D * (x0 - 1) < P, P <= M * D * x0,
         NEW e2 \in Int, e2 = IF G >= 0 THEN P - x0 * (M * D) ELSE -(P - x0 * (M * D)) - M * D + 1
  PROVE  CeilDiv(e2, M) \in Int /\ -D < CeilDiv(e2, M) /\ CeilDiv(e2, M) <= 0
<1>1. PICK Q \in Nat \ {0} : Q = M * D
  <2>1. M * D \in Nat \ {0}
    OBVIOUS
  <2> QED BY <2>1
<1>3. PICK q \in Int : q = x0 * Q
  OBVIOUS
<1>4. Q * (x0 - 1) = q - Q /\ Q * x0 = q
  BY <1>3
<1>5. q - Q < P /\ P <= q
  BY <1>1, <1>4
<1>6. e2 = IF G >= 0 THEN P - q ELSE q - P - Q + 1
  BY <1>1, <1>3
<1>7. -Q < e2 /\ e2 <= 0
  BY <1>5, <1>6
<1>8. PICK err \in Int : err = CeilDiv(e2, M) /\ M * (err - 1) < e2 /\ e2 <= M * err
  BY CeilIs
<1>11. err <= 0
  <2>1. M * (err - 1) < 0
    BY <1>7, <1>8
  <2>2. err >= 1 => M * (err - 1) >= 0
    OBVIOUS
  <2> QED BY <2>1, <2>2
<1>12. -D < err
  <2>1. err <= -D => M * err <= -(M * D)
    OBVIOUS
  <2> QED BY <1>1, <1>7, <1>8, <2>1
<1> QED BY <1>8, <1>11, <1>12

\* What the walk of an edge starts with.
EdgeHolds(g, p, q) ==
  /\ g.mag = 2 * Abs(q.x - p.x) /\ g.dy = 2 * (q.y - p.y)
  /\ g.err \in Int /\ -g.dy < g.err /\ g.err <= 0
LEMMA EdgeStarts ==
  ASSUME NEW p, IsPoint(p), NEW q, IsPoint(q), q.y > p.y, NEW r0 \in Int
  PROVE  EdgeHolds(EdgeRegs(Edge(p, q), r0, SubBits), p, q)
<1> DEFINE e == Edge(p, q)
           step == 2^(SubBits - SubBits)
           XA == FloorDiv(e.xa, step)
           YA == FloorDiv(e.ya, step)
           DD == FloorDiv(e.dee, step)
           HH == FloorDiv(e.height, step)
           Q2 == 2 * SubOne * HH
           P0 == 2 * XA * HH - SubOne * HH + ((2 * r0 + 1) * SubOne - 2 * YA) * DD
           x0 == CeilDiv(P0, Q2)
           r == P0 - x0 * Q2
           e2 == IF DD >= 0 THEN r ELSE -r - Q2 + 1
           g == EdgeRegs(e, r0, SubBits)
<1>1. g = [x0 |-> x0, mag |-> 2 * Abs(DD), dy |-> 2 * HH, sgn |-> Sign(DD), err |-> CeilDiv(e2, SubOne)]
  BY DEF EdgeRegs, SubOne
<1>2. PICK M \in Nat \ {0} : M = SubOne
  <2>1. SubOne \in Nat \ {0}
    BY HalfOne
  <2> QED BY <2>1
<1>4. PICK h \in Nat \ {0} : h = q.y - p.y
  BY DEF IsPoint
<1>5. PICK d \in Int : d = q.x - p.x
  BY DEF IsPoint
<1>6. PICK px \in Int, py \in Int : px = p.x /\ py = p.y
  BY DEF IsPoint
<1>7. XA = px /\ YA = py /\ DD = d /\ HH = h
  <2>1. step = 1
    <3>1. SubBits - SubBits = 0
      BY SubBitsAssumption
    <3>2. Power(0) = 1
      BY DEF Power
    <3>3. step = Power(SubBits - SubBits)
      BY DEF Power
    <3> HIDE DEF step
    <3> QED BY <3>1, <3>2, <3>3
  <2>2. e.xa = px /\ e.ya = py /\ e.dee = d /\ e.height = h
    BY <1>4, <1>5, <1>6 DEF Edge
  <2> HIDE DEF step, e
  <2> QED BY <2>1, <2>2 DEF FloorDiv
<1> HIDE DEF XA, YA, DD, HH, e, step
<1>8. PICK Q \in Nat \ {0} : Q = 2 * M * h
  <2>1. 2 * M * h \in Nat \ {0}
    OBVIOUS
  <2> QED BY <2>1
<1>9. PICK P \in Int : P = 2 * px * h - M * h + ((2 * r0 + 1) * M - 2 * py) * d
  OBVIOUS
<1>10. Q2 = Q /\ P0 = P
  BY <1>2, <1>7, <1>8, <1>9
<1> HIDE DEF Q2, P0
<1>11. x0 \in Int /\ Q * (x0 - 1) < P /\ P <= Q * x0
  BY <1>10, CeilIs
<1>12. PICK X0 \in Int : X0 = x0
  BY <1>11
<1>13. PICK f \in Int : f = IF d >= 0 THEN P - X0 * Q ELSE -(P - X0 * Q) - Q + 1
  <2> DEFINE F == IF d >= 0 THEN P - X0 * Q ELSE -(P - X0 * Q) - Q + 1
  <2>1. F \in Int
    OBVIOUS
  <2> HIDE DEF F
  <2>2. \E f \in Int : f = F
    BY <2>1
  <2> QED BY <2>2 DEF F
<1>14. e2 = f
  BY <1>7, <1>10, <1>12, <1>13
<1> HIDE DEF x0, r, e2
<1>17. PICK D \in Nat \ {0} : D = 2 * h
  OBVIOUS
<1>18. M * D = Q
  BY <1>8, <1>17
<1>19. CeilDiv(f, M) \in Int /\ -D < CeilDiv(f, M) /\ CeilDiv(f, M) <= 0
  <2>1. M * D * (X0 - 1) < P /\ P <= M * D * X0
    BY <1>11, <1>12, <1>18
  <2>2. f = IF d >= 0 THEN P - X0 * (M * D) ELSE -(P - X0 * (M * D)) - M * D + 1
    BY <1>13, <1>18
  <2> QED BY <2>1, <2>2, ErrorIs
<1>20. g.mag = 2 * Abs(d) /\ g.dy = D /\ g.err = CeilDiv(f, M)
  BY <1>1, <1>2, <1>7, <1>14, <1>17
<1> HIDE DEF g
<1>21. EdgeHolds(g, p, q)
  BY <1>4, <1>5, <1>17, <1>19, <1>20 DEF EdgeHolds
<1> QED BY <1>21 DEF g, e

\* How far an edge is walked, at most.
EdgeLength(p, q) == 2 * (Abs(q.x - p.x) + Abs(q.y - p.y))

\* At full precision no edge is walked farther than the engine may.
LEMMA QuotientIs ==
  ASSUME NEW a \in Int, NEW d, d = 1
  PROVE  Quotient(a, d) = a
BY DEF Quotient, Sign, Abs
LEMMA ExactShort ==
  ASSUME NEW v, Sorted(v), Precision(v) = SubBits, NEW i \in 1..3, NEW j \in 1..3
  PROVE  EdgeLength(v[i], v[j]) <= EdgeWalk
<1> DEFINE S == {0} \cup {s \in 1..SubBits : Worst(v, s) <= EdgeWalk}
           step == 2^(SubBits - SubBits)
           Long(m, n) == 2 * (Abs(Quotient(v[n].x - v[m].x, step)) + Abs(Quotient(v[n].y - v[m].y, step)))
           T == {Long(m, n) : m \in 1..3, n \in 1..3}
<1>1. Worst(v, SubBits) <= EdgeWalk
  <2>1. S \in SUBSET Int /\ S # {} /\ (\A x \in S : x <= SubBits) /\ SubBits \in Int /\ SubBits >= 1
    BY SubBitsAssumption
  <2>2. Max(S) = SubBits
    BY DEF Precision
  <2> HIDE DEF S
  <2>3. SubBits \in S
    BY <2>1, <2>2, GreatestOf
  <2> QED BY <2>1, <2>3 DEF S
<1>2. Worst(v, SubBits) = Max(T)
  BY DEF Worst
<1>3. step = 1
  <2>1. SubBits - SubBits = 0
    BY SubBitsAssumption
  <2>2. Power(0) = 1
    BY DEF Power
  <2>3. step = Power(SubBits - SubBits)
    BY DEF Power
  <2> HIDE DEF step
  <2> QED BY <2>1, <2>2, <2>3
<1> HIDE DEF step
<1>4. \A n \in 1..3 : v[n].x \in Int /\ v[n].y \in Int
  BY DEF Sorted, IsPoint
<1>5. ASSUME NEW m \in 1..3, NEW n \in 1..3
      PROVE  Long(m, n) = EdgeLength(v[m], v[n])
  BY <1>3, <1>4, QuotientIs DEF EdgeLength
<1>6. PICK L \in Nat : \A n \in 1..3 : Abs(v[n].x) <= L /\ Abs(v[n].y) <= L
  <2> DEFINE N == Abs(v[1].x) + Abs(v[2].x) + Abs(v[3].x) + Abs(v[1].y) + Abs(v[2].y) + Abs(v[3].y)
  <2>1. /\ N \in Nat /\ Abs(v[1].x) <= N /\ Abs(v[2].x) <= N /\ Abs(v[3].x) <= N
        /\ Abs(v[1].y) <= N /\ Abs(v[2].y) <= N /\ Abs(v[3].y) <= N
    <3>1. /\ Abs(v[1].x) \in Nat /\ Abs(v[2].x) \in Nat /\ Abs(v[3].x) \in Nat
          /\ Abs(v[1].y) \in Nat /\ Abs(v[2].y) \in Nat /\ Abs(v[3].y) \in Nat
      BY <1>4 DEF Abs
    <3> QED BY <3>1
  <2> HIDE DEF N
  <2> QED BY <2>1
<1>7. ASSUME NEW m \in 1..3, NEW n \in 1..3
      PROVE  EdgeLength(v[m], v[n]) \in Int /\ EdgeLength(v[m], v[n]) <= 8 * L
  <2>1. PICK a \in Int, b \in Int, c \in Int, d \in Int :
          a = v[m].x /\ b = v[n].x /\ c = v[m].y /\ d = v[n].y
    BY <1>4
  <2>2. Abs(a) <= L /\ Abs(b) <= L /\ Abs(c) <= L /\ Abs(d) <= L
    BY <1>6, <2>1
  <2> QED BY <2>1, <2>2 DEF EdgeLength, Abs
<1> HIDE DEF Long
<1>8. T \in SUBSET Int /\ T # {} /\ \A x \in T : x <= 8 * L
  BY <1>5, <1>7
<1>9. Long(i, j) \in T
  OBVIOUS
<1> HIDE DEF T
<1>10. Max(T) \in Int /\ Long(i, j) <= Max(T)
  <2>1. 8 * L \in Int
    OBVIOUS
  <2> QED BY <1>8, <1>9, <2>1, GreatestOf
<1>11. EdgeWalk \in Int
  BY FieldAssumption
<1> QED BY <1>1, <1>2, <1>5, <1>7, <1>10, <1>11

\* In a row that the edge crosses, the first column whose centre is not left of it lies
\* between the columns its ends lie between.
LEMMA ColumnBetween ==
  ASSUME NEW p, IsPoint(p), NEW q, IsPoint(q), NEW lo \in Int, NEW hi \in Int,
         SubOne * lo <= p.x, p.x <= SubOne * hi, SubOne * lo <= q.x, q.x <= SubOne * hi, NEW y \in Int,
         p.y <= Centre(0, y).y, Centre(0, y).y < q.y
  PROVE  Inward(p, q, Centre(hi, y)) <= 0 /\ Inward(p, q, Centre(lo - 1, y)) > 0
<1>1. PICK H \in Nat \ {0} : SubOne = 2 * H /\ SubOne \div 2 = H
  BY HalfOne
<1>2. PICK R \in Int, S \in Int : R = SubOne * hi /\ S = SubOne * lo
  BY <1>1
<1>3. PICK a \in Nat, b \in Nat : a = Centre(0, y).y - p.y /\ b = q.y - Centre(0, y).y /\ b > 0
  <2>1. Centre(0, y).y \in Int
    BY CentreIs
  <2> QED BY <2>1 DEF IsPoint
<1>4. ASSUME NEW x \in Int
      PROVE  /\ Inward(p, q, Centre(x, y)) = b * (p.x - Centre(x, y).x) + a * (q.x - Centre(x, y).x)
             /\ Centre(x, y).x = SubOne * x + H /\ Centre(x, y).x \in Int
  <2>1. Centre(x, y).y = Centre(0, y).y /\ Centre(x, y).x = SubOne * x + H /\ Centre(x, y).x \in Int
    BY <1>1, CentreIs DEF Centre
  <2>2. PICK c \in Int : c = Centre(x, y).x
    BY <2>1
  <2>3. PICK m \in Int, n \in Int : m = p.x - c /\ n = q.x - c
    BY DEF IsPoint
  <2>4. q.x - p.x = n - m /\ c - p.x = 0 - m /\ Centre(x, y).y - p.y = a /\ q.y - p.y = a + b
    <3>1. Centre(0, y).y \in Int
      BY CentreIs
    <3> QED BY <1>3, <2>1, <2>3, <3>1 DEF IsPoint
  <2>5. Inward(p, q, Centre(x, y)) = (n - m) * a - (a + b) * (0 - m)
    BY <2>2, <2>4 DEF Inward
  <2>6. (n - m) * a - (a + b) * (0 - m) = b * m + a * n
    OBVIOUS
  <2> QED BY <2>1, <2>2, <2>3, <2>5, <2>6
<1>5. S <= p.x /\ p.x <= R /\ S <= q.x /\ q.x <= R
  BY <1>2
<1>6. Inward(p, q, Centre(hi, y)) <= 0
  <2>1. PICK m \in Int, n \in Int : m = p.x - Centre(hi, y).x /\ n = q.x - Centre(hi, y).x
    BY <1>4 DEF IsPoint
  <2>2. m <= 0 /\ n <= 0
    <3>1. Centre(hi, y).x = R + H
      BY <1>2, <1>4
    <3> QED BY <1>1, <1>5, <2>1, <3>1 DEF IsPoint
  <2>3. b * m <= 0 /\ a * n <= 0 /\ b * m \in Int /\ a * n \in Int
    BY <2>2, Signs
  <2> QED BY <1>4, <2>1, <2>3
<1>7. Inward(p, q, Centre(lo - 1, y)) > 0
  <2>1. PICK m \in Int, n \in Int : m = p.x - Centre(lo - 1, y).x /\ n = q.x - Centre(lo - 1, y).x
    BY <1>4 DEF IsPoint
  <2>2. SubOne * (lo - 1) = S - 2 * H
    BY <1>1, <1>2
  <2>3. Centre(lo - 1, y).x = S - H
    BY <1>4, <2>2
  <2>4. m > 0 /\ n > 0
    BY <1>5, <2>1, <2>3 DEF IsPoint
  <2>5. b * m > 0 /\ a * n >= 0 /\ b * m \in Int /\ a * n \in Int
    BY <1>3, <2>4, Signs
  <2> QED BY <1>4, <2>1, <2>5
<1> QED BY <1>6, <1>7

\* Weights that balance three heights, of a sum that is not nought.
LEMMA UpperSides ==
  ASSUME NEW A \in Int, NEW B \in Int, NEW C \in Int, A <= 0, 0 < B, B <= C,
         NEW w1 \in Int, NEW w2 \in Int, NEW w3 \in Int, w1 * A + w2 * B + w3 * C = 0
  PROVE  /\ w1 + w2 + w3 > 0 /\ w3 <= 0 => w2 >= 0
         /\ w1 + w2 + w3 < 0 /\ w2 >= 0 => w3 <= 0
<1>1. PICK a \in Int, b \in Int, c \in Int : a = w1 * A /\ b = w2 * B /\ c = w3 * C
  OBVIOUS
<1>2. a + b + c = 0
  BY <1>1
<1>3. /\ w1 >= 0 => a <= 0
      /\ w2 >= 0 => b >= 0
      /\ w2 < 0 => b < 0
      /\ w3 <= 0 => c <= 0
      /\ w3 > 0 => c > 0
      /\ w1 <= 0 => a >= 0
  BY <1>1, Signs
<1> QED BY <1>2, <1>3
LEMMA LowerSides ==
  ASSUME NEW A \in Int, NEW B \in Int, NEW C \in Int, A <= B, B <= 0, 0 < C,
         NEW w1 \in Int, NEW w2 \in Int, NEW w3 \in Int, w1 * A + w2 * B + w3 * C = 0
  PROVE  /\ w1 + w2 + w3 > 0 /\ w1 <= 0 => w2 >= 0
         /\ w1 + w2 + w3 < 0 /\ w2 >= 0 => w1 <= 0
<1>1. PICK a \in Int, b \in Int, c \in Int : a = w1 * A /\ b = w2 * B /\ c = w3 * C
  OBVIOUS
<1>2. a + b + c = 0
  BY <1>1
<1>3. /\ w1 >= 0 => a <= 0
      /\ w1 <= 0 => a >= 0
      /\ w2 >= 0 => b <= 0
      /\ w2 <= 0 => b >= 0
      /\ w3 <= 0 => c <= 0
      /\ w3 > 0 => c > 0
      /\ w3 < 0 => c < 0
  BY <1>1, Signs
<1> QED BY <1>2, <1>3

\* In the rows of a half, what is not left of its right edge is not left of its left one.
SidesAgree(v, from, to, m) ==
  IF LongIsLeft(v) THEN Inward(v[from], v[to], m) <= 0 => Inward(v[1], v[3], m) <= 0
  ELSE Inward(v[1], v[3], m) <= 0 => Inward(v[from], v[to], m) <= 0
LEMMA LongSide ==
  ASSUME NEW v, Sorted(v)
  PROVE  Twice(v[1], v[2], v[3]) \in Int /\ (LongIsLeft(v) <=> Twice(v[1], v[2], v[3]) > 0)
<1>1. PICK a \in Int, b \in Int : /\ a = (v[2].x - v[1].x) * (v[3].y - v[1].y)
                                  /\ b = (v[3].x - v[1].x) * (v[2].y - v[1].y)
  <2>1. /\ (v[2].x - v[1].x) * (v[3].y - v[1].y) \in Int
        /\ (v[3].x - v[1].x) * (v[2].y - v[1].y) \in Int
    BY DEF Sorted, IsPoint
  <2> QED BY <2>1
<1>2. (v[3].y - v[1].y) * (v[2].x - v[1].x) = a
  BY <1>1 DEF Sorted, IsPoint
<1>3. LongIsLeft(v) <=> b < a
  BY <1>1, <1>2 DEF LongIsLeft
<1>4. Twice(v[1], v[2], v[3]) = a - b
  BY <1>1 DEF Twice
<1> QED BY <1>1, <1>3, <1>4
LEMMA SidesHold ==
  ASSUME NEW v, Sorted(v), Twice(v[1], v[2], v[3]) # 0, NEW m, IsPoint(m),
         NEW from \in {1, 2}, NEW to \in {2, 3}, to = from + 1, v[from].y <= m.y, m.y < v[to].y
  PROVE  SidesAgree(v, from, to, m)
<1>1. IsPoint(v[1]) /\ IsPoint(v[2]) /\ IsPoint(v[3]) /\ v[1].y <= v[2].y /\ v[2].y <= v[3].y
  BY DEF Sorted
<1>2. PICK w1 \in Int : w1 = Inward(v[2], v[3], m)
  BY <1>1, HasTurned
<1>3. PICK w2 \in Int : w2 = Inward(v[3], v[1], m) /\ Inward(v[1], v[3], m) = -w2
  BY <1>1, HasTurned
<1>4. PICK w3 \in Int : w3 = Inward(v[1], v[2], m)
  BY <1>1, HasTurned
<1>5. PICK A \in Int, B \in Int, C \in Int : A = v[1].y - m.y /\ B = v[2].y - m.y /\ C = v[3].y - m.y
  BY <1>1 DEF IsPoint
<1>6. w3 + w1 + w2 = Twice(v[1], v[2], v[3]) /\ w1 * A + w2 * B + w3 * C = 0
  BY <1>1, <1>2, <1>3, <1>4, <1>5, Balance
<1>7. LongIsLeft(v) <=> w1 + w2 + w3 > 0
  BY <1>6, LongSide
<1>8. ~LongIsLeft(v) => w1 + w2 + w3 < 0
  BY <1>6, <1>7
<1>9. (from = 1 /\ to = 2) \/ (from = 2 /\ to = 3)
  OBVIOUS
<1>10. CASE from = 1 /\ to = 2
  <2>1. A <= 0 /\ 0 < B /\ B <= C
    BY <1>1, <1>5, <1>10 DEF IsPoint
  <2>2. /\ w1 + w2 + w3 > 0 /\ w3 <= 0 => w2 >= 0
        /\ w1 + w2 + w3 < 0 /\ w2 >= 0 => w3 <= 0
    BY <1>6, <2>1, UpperSides
  <2>3. Inward(v[from], v[to], m) = w3 /\ Inward(v[1], v[3], m) = -w2
    BY <1>3, <1>4, <1>10
  <2> QED BY <1>7, <1>8, <2>2, <2>3 DEF SidesAgree
<1>11. CASE from = 2 /\ to = 3
  <2>1. A <= B /\ B <= 0 /\ 0 < C
    BY <1>1, <1>5, <1>11 DEF IsPoint
  <2>2. /\ w1 + w2 + w3 > 0 /\ w1 <= 0 => w2 >= 0
        /\ w1 + w2 + w3 < 0 /\ w2 >= 0 => w1 <= 0
    BY <1>6, <2>1, LowerSides
  <2>3. Inward(v[from], v[to], m) = w1 /\ Inward(v[1], v[3], m) = -w2
    BY <1>2, <1>3, <1>11
  <2> QED BY <1>7, <1>8, <2>2, <2>3 DEF SidesAgree
<1> QED BY <1>9, <1>10, <1>11

-----------------------------------------------------------------------------
(* A half of a triangle with its corners on the surface.                     *)

\* The registers of a trapezoid whose edges are no longer than the engine may walk.
Modest(t) ==
  /\ {t.ar0, t.ar1, t.ar2, t.ar4, t.ar5, t.ar6} \subseteq Int
  /\ \A a \in {t.ar0, t.ar1, t.ar2, t.ar4, t.ar5, t.ar6} : Abs(a) <= EdgeWalk
  /\ t.ar0 > 0 /\ t.ar6 > 0 /\ t.ar2 <= 0 /\ t.ar5 <= 0 /\ t.sgn \subseteq {"left", "right"}
LEMMA EdgeModest ==
  ASSUME NEW p, IsPoint(p), NEW q, IsPoint(q), q.y > p.y, NEW g, EdgeHolds(g, p, q),
         EdgeLength(p, q) <= EdgeWalk
  PROVE  /\ {g.dy, g.mag, g.err} \subseteq Int /\ g.dy > 0 /\ -g.mag <= 0
         /\ Abs(g.dy) <= EdgeWalk /\ Abs(-g.mag) <= EdgeWalk /\ Abs(-g.mag - g.err) <= EdgeWalk
<1>1. PICK d \in Int, n \in Nat \ {0} : d = q.x - p.x /\ n = q.y - p.y
  BY DEF IsPoint
<1>2. PICK m \in Nat : m = Abs(d)
  BY DEF Abs
<1>3. g.mag = 2 * m /\ g.dy = 2 * n /\ g.err \in Int /\ -(2 * n) < g.err /\ g.err <= 0
  BY <1>1, <1>2 DEF EdgeHolds
<1>4. 2 * (m + n) <= EdgeWalk /\ EdgeWalk \in Int
  BY <1>1, <1>2, FieldAssumption DEF EdgeLength, Abs
<1> QED BY <1>3, <1>4 DEF Abs
LEMMA WalkedModest ==
  ASSUME NEW p, IsPoint(p), NEW q, IsPoint(q), q.y > p.y,
         NEW a, IsPoint(a), NEW b, IsPoint(b), b.y > a.y,
         NEW r \in Int, NEW h \in Int, EdgeLength(p, q) <= EdgeWalk, EdgeLength(a, b) <= EdgeWalk
  PROVE  Modest(Walked(Edge(p, q), Edge(a, b), r, h, SubBits))
<1> DEFINE t == Walked(Edge(p, q), Edge(a, b), r, h, SubBits)
           e == EdgeRegs(Edge(p, q), r, SubBits)
           f == EdgeRegs(Edge(a, b), r, SubBits)
<1>1. EdgeHolds(e, p, q) /\ EdgeHolds(f, a, b)
  BY EdgeStarts
<1>2. t = Registers(e, f, r, h)
  BY DEF Walked
<1> HIDE DEF t, e, f
<1>3. /\ {e.dy, e.mag, e.err} \subseteq Int /\ e.dy > 0 /\ -e.mag <= 0
      /\ Abs(e.dy) <= EdgeWalk /\ Abs(-e.mag) <= EdgeWalk /\ Abs(-e.mag - e.err) <= EdgeWalk
  BY <1>1, EdgeModest
<1>4. /\ {f.dy, f.mag, f.err} \subseteq Int /\ f.dy > 0 /\ -f.mag <= 0
      /\ Abs(f.dy) <= EdgeWalk /\ Abs(-f.mag) <= EdgeWalk /\ Abs(-f.mag - f.err) <= EdgeWalk
  BY <1>1, EdgeModest
<1>5. /\ t.ar0 = e.dy /\ t.ar1 = -e.mag - e.err /\ t.ar2 = -e.mag
      /\ t.ar6 = f.dy /\ t.ar4 = -f.mag - f.err /\ t.ar5 = -f.mag
      /\ t.sgn = (IF e.sgn < 0 THEN {"left"} ELSE {}) \cup (IF f.sgn < 0 THEN {"right"} ELSE {})
  BY <1>2 DEF Registers
<1>6. {t.ar0, t.ar1, t.ar2, t.ar4, t.ar5, t.ar6} \subseteq Int
  BY <1>3, <1>4, <1>5
<1>7. Modest(t)
  BY <1>3, <1>4, <1>5, <1>6 DEF Modest
<1> QED BY <1>7 DEF t

\* In a row that both edges cross the trapezoid's ends are on the surface and in order.
InOrder(t, k, w) ==
  LeftAt(t, k) \in 0..w /\ RightAt(t, k) \in 0..w /\ LeftAt(t, k) <= RightAt(t, k)
OnColumns(p, w) == p.x \in 0..(SubOne * w)
Crosses(p, q, y) == p.y <= Centre(0, y).y /\ Centre(0, y).y < q.y
LEMMA AlongRows ==
  ASSUME NEW p, IsPoint(p), NEW q, IsPoint(q), NEW a, IsPoint(a), NEW b, IsPoint(b),
         NEW w \in Nat, OnColumns(p, w), OnColumns(q, w), OnColumns(a, w), OnColumns(b, w),
         NEW t, NEW r \in Int, NEW h, Follows(t, p, q, a, b, r, h), NEW k \in Nat,
         Crosses(p, q, r + k), Crosses(a, b, r + k),
         \A x \in Int : Inward(a, b, Centre(x, r + k)) <= 0 => Inward(p, q, Centre(x, r + k)) <= 0
  PROVE  InOrder(t, k, w)
<1>1. PICK y \in Int : y = r + k
  OBVIOUS
<1>2. SubOne * 0 = 0 /\ SubOne * w \in Int
  <2>1. SubOne \in Nat
    BY HalfOne
  <2> QED BY <2>1
<1>3. /\ Inward(p, q, Centre(w, y)) <= 0 /\ Inward(p, q, Centre(-1, y)) > 0
      /\ Inward(a, b, Centre(w, y)) <= 0 /\ Inward(a, b, Centre(-1, y)) > 0
  <2>1. /\ SubOne * 0 <= p.x /\ p.x <= SubOne * w /\ SubOne * 0 <= q.x /\ q.x <= SubOne * w
        /\ SubOne * 0 <= a.x /\ a.x <= SubOne * w /\ SubOne * 0 <= b.x /\ b.x <= SubOne * w
    BY <1>2 DEF OnColumns
  <2>2. /\ p.y <= Centre(0, y).y /\ Centre(0, y).y < q.y
        /\ a.y <= Centre(0, y).y /\ Centre(0, y).y < b.y
    BY <1>1 DEF Crosses
  <2>3. /\ Inward(p, q, Centre(w, y)) <= 0 /\ Inward(p, q, Centre(0 - 1, y)) > 0
        /\ Inward(a, b, Centre(w, y)) <= 0 /\ Inward(a, b, Centre(0 - 1, y)) > 0
    BY <2>1, <2>2, ColumnBetween
  <2> QED BY <2>3
<1>4. PICK L \in Int, R \in Int : L = LeftAt(t, k) /\ R = RightAt(t, k)
  BY DEF Follows
<1>5. ASSUME NEW x \in Int
      PROVE  /\ L <= x <=> Inward(p, q, Centre(x, y)) <= 0
             /\ R <= x <=> Inward(a, b, Centre(x, y)) <= 0
  BY <1>1, <1>4 DEF Follows
<1>6. L <= w /\ R <= w
  BY <1>3, <1>5
<1>7. ~(L <= -1) /\ ~(R <= -1)
  <2>1. ASSUME NEW n \in Int, n > 0 PROVE ~(n <= 0)
    BY <2>1
  <2>2. Inward(p, q, Centre(-1, y)) \in Int /\ Inward(a, b, Centre(-1, y)) \in Int
    <3>1. IsPoint(Centre(-1, y))
      BY CentreIs DEF IsPoint
    <3> QED BY <3>1, HasTurned
  <2>3. -1 \in Int
    OBVIOUS
  <2> QED BY <1>3, <1>5, <2>1, <2>2, <2>3
<1>8. L <= R
  <2>1. Inward(a, b, Centre(R, y)) <= 0
    BY <1>5
  <2>2. Inward(p, q, Centre(R, y)) <= 0
    BY <1>1, <2>1
  <2> QED BY <1>5, <2>2
<1> QED BY <1>4, <1>6, <1>7, <1>8 DEF InOrder

\* A half of a triangle with its corners on the surface is a trapezoid on the surface, from
\* a row with a pixel, whose edges never cross.
OnCanvas(v, w, h) == \A i \in 1..3 : v[i].x \in 0..(SubOne * w) /\ v[i].y \in 0..(SubOne * h)
Shapely(t, w, h) ==
  /\ t.y >= 0 /\ t.h > 0 /\ t.y + t.h <= h /\ t.y \in Int /\ t.h \in Int
  /\ Modest(t) /\ Begins(t) /\ \A k \in Rows(t) : InOrder(t, k, w)
LEMMA RowsOnCanvas ==
  ASSUME NEW h \in Nat, NEW a \in 0..(SubOne * h), NEW b \in 0..(SubOne * h)
  PROVE  RowOf(a) \in Int /\ RowOf(a) >= 0 /\ RowOf(b) \in Int /\ RowOf(b) <= h
<1>1. PICK H \in Nat \ {0} : SubOne = 2 * H /\ SubOne \div 2 = H
  BY HalfOne
<1>2. PICK R \in Int : R = SubOne * h
  BY <1>1
<1>3. SubOne * (-1) = -2 * H
  BY <1>1
<1>4. Centre(0, -1).y = -H /\ Centre(0, h).y = R + H
  BY <1>1, <1>2, <1>3 DEF Centre
<1>5. a \in Int /\ b \in Int /\ 0 <= a /\ b <= R
  BY <1>2
<1>6. /\ RowOf(a) \in Int /\ (RowOf(a) <= -1 <=> a <= Centre(0, -1).y)
      /\ RowOf(b) \in Int /\ (RowOf(b) <= h <=> b <= Centre(0, h).y)
  <2>1. -1 \in Int /\ 0 \in Int /\ h \in Int
    OBVIOUS
  <2> QED BY <1>5, <2>1, RowIs
<1> QED BY <1>4, <1>5, <1>6
LEMMA HalfShapely ==
  ASSUME NEW v, Sorted(v), Twice(v[1], v[2], v[3]) # 0, Precision(v) = SubBits,
         NEW w \in Nat, NEW h \in Nat, OnCanvas(v, w, h),
         NEW from \in {1, 2}, NEW to \in {2, 3}, to = from + 1, NEW t, WalksHalf(t, v, from, to)
  PROVE  Shapely(t, w, h)
<1>1. /\ IsPoint(v[1]) /\ IsPoint(v[2]) /\ IsPoint(v[3]) /\ IsPoint(v[from]) /\ IsPoint(v[to])
      /\ v[1].y <= v[from].y /\ v[to].y <= v[3].y
  <2>1. (from = 1 /\ to = 2) \/ (from = 2 /\ to = 3)
    OBVIOUS
  <2>2. /\ IsPoint(v[1]) /\ IsPoint(v[2]) /\ IsPoint(v[3]) /\ v[1].y <= v[2].y /\ v[2].y <= v[3].y
        /\ v[1].y \in Int /\ v[3].y \in Int
    BY DEF Sorted, IsPoint
  <2>3. CASE from = 1 /\ to = 2
    BY <2>2, <2>3
  <2>4. CASE from = 2 /\ to = 3
    BY <2>2, <2>4
  <2> QED BY <2>1, <2>3, <2>4
<1>2. PICK r \in Int, n \in Nat \ {0} :
        /\ r = t.y /\ n = t.h /\ v[from].y < v[to].y /\ Begins(t)
        /\ RowOf(v[from].y) <= r /\ r + n = RowOf(v[to].y)
        /\ t = IF LongIsLeft(v) THEN Beside(v[1], v[3], v[from], v[to], r, n)
                                ELSE Beside(v[from], v[to], v[1], v[3], r, n)
  BY DEF WalksHalf
<1>3. v[3].y > v[1].y /\ v[to].y > v[from].y
  BY <1>1, <1>2 DEF IsPoint
<1>4. /\ v[from].y \in 0..(SubOne * h) /\ v[to].y \in 0..(SubOne * h)
      /\ OnColumns(v[1], w) /\ OnColumns(v[3], w) /\ OnColumns(v[from], w) /\ OnColumns(v[to], w)
  <2>1. 1 \in 1..3 /\ 3 \in 1..3 /\ from \in 1..3 /\ to \in 1..3
    OBVIOUS
  <2> QED BY <2>1 DEF OnCanvas, OnColumns
<1>5. RowOf(v[from].y) \in Int /\ RowOf(v[to].y) \in Int /\ RowOf(v[from].y) >= 0 /\ RowOf(v[to].y) <= h
  BY <1>4, RowsOnCanvas
<1>6. PICK top \in Int, end \in Int :
        /\ top = RowOf(v[from].y) /\ end = RowOf(v[to].y) /\ top <= r /\ r + n = end /\ r >= 0 /\ end <= h
  BY <1>2, <1>5
<1>7. EdgeLength(v[1], v[3]) <= EdgeWalk /\ EdgeLength(v[from], v[to]) <= EdgeWalk
  <2>1. 1 \in 1..3 /\ 3 \in 1..3 /\ from \in 1..3 /\ to \in 1..3
    OBVIOUS
  <2> QED BY <2>1, ExactShort
<1>8. Modest(t)
  <2>1. n \in Int
    OBVIOUS
  <2>2. Modest(Beside(v[1], v[3], v[from], v[to], r, n))
    BY <1>1, <1>3, <1>7, <2>1, WalkedModest DEF Beside
  <2>3. Modest(Beside(v[from], v[to], v[1], v[3], r, n))
    BY <1>1, <1>3, <1>7, <2>1, WalkedModest DEF Beside
  <2> QED BY <1>2, <2>2, <2>3
<1>9. ASSUME NEW k \in Rows(t)
      PROVE  InOrder(t, k, w)
  <2>1. k \in Nat /\ k < n
    BY <1>2 DEF Rows
  <2>2. PICK y \in Int : y = r + k
    BY <2>1
  <2>3. Centre(0, y).y \in Int /\ \A x \in Int : IsPoint(Centre(x, y)) /\ Centre(x, y).y = Centre(0, y).y
    BY CentreIs DEF IsPoint, Centre
  <2>4. v[from].y <= Centre(0, y).y /\ Centre(0, y).y < v[to].y
    <3>1. RowOf(v[from].y) <= y /\ ~(RowOf(v[to].y) <= y)
      BY <1>6, <2>1, <2>2
    <3>2. v[from].y \in Int /\ v[to].y \in Int /\ 0 \in Int
      BY <1>1 DEF IsPoint
    <3>3. /\ RowOf(v[from].y) <= y <=> v[from].y <= Centre(0, y).y
          /\ RowOf(v[to].y) <= y <=> v[to].y <= Centre(0, y).y
      BY <3>2, RowIs
    <3> QED BY <2>3, <3>1, <3>2, <3>3
  <2>5. Crosses(v[from], v[to], y) /\ Crosses(v[1], v[3], y)
    BY <1>1, <2>3, <2>4 DEF Crosses, IsPoint
  <2>6. \A x \in Int : SidesAgree(v, from, to, Centre(x, y))
    BY <2>3, <2>4, SidesHold
  <2>7. CASE LongIsLeft(v)
    <3>1. Follows(t, v[1], v[3], v[from], v[to], r, n)
      BY <1>1, <1>2, <1>3, <2>7, WalkedFollows DEF Beside
    <3>2. \A x \in Int : Inward(v[from], v[to], Centre(x, y)) <= 0 => Inward(v[1], v[3], Centre(x, y)) <= 0
      BY <2>6, <2>7 DEF SidesAgree
    <3> QED BY <1>1, <1>4, <2>1, <2>2, <2>5, <3>1, <3>2, AlongRows
  <2>8. CASE ~LongIsLeft(v)
    <3>0. t = Beside(v[from], v[to], v[1], v[3], r, n) /\ n \in Int
      BY <1>2, <2>8
    <3>1. Follows(t, v[from], v[to], v[1], v[3], r, n)
      BY <1>1, <1>3, <3>0, WalkedFollows DEF Beside
    <3>2. \A x \in Int : Inward(v[1], v[3], Centre(x, y)) <= 0 => Inward(v[from], v[to], Centre(x, y)) <= 0
      BY <2>6, <2>8 DEF SidesAgree
    <3> QED BY <1>1, <1>4, <2>1, <2>2, <2>5, <3>1, <3>2, AlongRows
  <2> QED BY <2>7, <2>8
<1>10. t.y >= 0 /\ t.h > 0 /\ t.y + t.h <= h /\ t.y \in Int /\ t.h \in Int
  BY <1>2, <1>6
<1> QED BY <1>2, <1>8, <1>9, <1>10 DEF Shapely

-----------------------------------------------------------------------------
(* Its registers and channels in their fields.                               *)

\* A number that a bound below a field's largest holds fits the field.
LEMMA FieldHolds ==
  ASSUME NEW b \in 1..24, NEW N \in Nat, N < 2^(b - 1), NEW v \in Int, Abs(v) <= N
  PROVE  Field(v, b)
<1>1. PICK k \in 0..30 : k = b - 1
  OBVIOUS
<1>2. PICK P \in Nat : P = Power(k)
  BY PowersGrow
<1>3. 2^(b - 1) = P
  BY <1>1, <1>2 DEF Power
<1>4. -P <= v /\ v <= P - 1
  BY <1>2, <1>3 DEF Abs
<1>5. Field(v, b) <=> v \in (-P)..(P - 1)
  BY <1>3 DEF Field
<1> QED BY <1>2, <1>4, <1>5

\* A quotient of numbers within a range, rounded to the nearest, is within it.
LEMMA AwayWithin ==
  ASSUME NEW k \in Int, NEW d \in Nat \ {0}, NEW hi \in Nat, Abs(k) <= hi * d
  PROVE  RoundHalfAway(k, d) \in (-hi)..hi
<1>1. PICK a \in Nat : a = Abs(k)
  BY DEF Abs
<1>2. PICK D \in Nat \ {0}, n \in Nat : D = 2 * d /\ n = 2 * a + d
  OBVIOUS
<1>3. PICK q \in Int : q = n \div D /\ n - q * D \in 0..(D - 1)
  BY DivisionIs
<1>4. PICK m \in Int : m = q * D /\ m <= n /\ n < m + D
  BY <1>3
<1>5. q >= 0
  <2>1. q <= -1 => q * D <= -D
    OBVIOUS
  <2> QED BY <1>4, <2>1
<1>6. q <= hi
  <2>1. PICK c \in Int : c = hi * d
    OBVIOUS
  <2>2. q >= hi + 1 => q * D >= (hi + 1) * D
    OBVIOUS
  <2>3. (hi + 1) * D = 2 * c + D
    BY <1>2, <2>1
  <2>4. a <= c
    BY <1>1, <2>1
  <2> QED BY <1>2, <1>4, <2>2, <2>3, <2>4
<1>7. RoundHalfAway(k, d) = Sign(k) * q
  BY <1>1, <1>2, <1>3 DEF RoundHalfAway
<1> QED BY <1>5, <1>6, <1>7 DEF Sign

\* A channel of a trapezoid fits its field, wherever the trapezoid begins.
LEMMA ChannelsFit ==
  ASSUME NEW p, p.at \in Int, p.den \in Nat \ {0}, p.dx \in Int, p.dy \in Int,
         NEW a, IsPoint(a), NEW x \in Int, NEW y \in Int, NEW c, c = Interpolated(p, a, x, y, ChannelMax),
         NEW i \in 1..3
  PROVE  Field(c[i], Bits.dr)
<1>1. PICK one \in Nat \ {0}, half \in Nat, m \in Nat : one = ChannelOne /\ half = ChannelOne \div 2 /\ m = ChannelMax
  BY ChannelOneIs
<1>2. PICK d \in Nat \ {0} : d = p.den
  OBVIOUS
<1>3. PICK top \in Nat : top = m * one
  OBVIOUS
<1>4. PICK N \in Nat : N = top + half /\ Bits.dr \in 1..24 /\ N < 2^(Bits.dr - 1)
  BY <1>1, <1>3, FieldAssumption DEF ChannelOne
<1>5. ASSUME NEW n \in Int, NEW e \in Nat \ {0}, NEW lo \in Int, NEW hi \in Int, lo <= hi, hi = m * e,
             lo = 0 \/ lo = -hi
      PROVE  RoundHalfAway(Clamped(n, lo, hi) * ChannelOne, e) \in (-top)..top
  <2>0. Clamped(n, lo, hi) \in lo..hi
    BY <1>5, HeldIn
  <2>1. PICK v \in Int : v = Clamped(n, lo, hi) /\ lo <= v /\ v <= hi
    BY ONLY <2>0, lo \in Int, hi \in Int
  <2>2. PICK k \in Int : k = v * one
    OBVIOUS
  <2>3. Abs(k) <= top * e
    <3>1. v <= hi => v * one <= hi * one
      BY <1>5
    <3>2. -hi <= v => (-hi) * one <= v * one
      BY <1>5
    <3>3. hi * one = top * e
      BY <1>3, <1>5
    <3>4. (-hi) * one = -(top * e)
      BY <1>3, <1>5
    <3>5. -hi <= v
      BY <1>5, <2>1
    <3> QED BY <2>1, <2>2, <3>1, <3>2, <3>3, <3>4, <3>5 DEF Abs
  <2> QED BY <1>1, <2>1, <2>2, <2>3, AwayWithin
<1>6. PICK n \in Int, u \in Int, w \in Int : n = AtCentre(p, a, x, y) /\ u = p.dx * SubOne /\ w = p.dy * SubOne
  <2>1. p.den \in Int
    OBVIOUS
  <2> QED BY <2>1, PlaneMoves
<1>7. PICK r \in (-top)..top : StartFixed(n, 2 * d, m) = r + half
  <2>1. PICK e \in Nat \ {0}, hi \in Nat : e = 2 * d /\ hi = m * e
    OBVIOUS
  <2>2. RoundHalfAway(Clamped(n, 0, hi) * ChannelOne, e) \in (-top)..top
    <3>1. 0 <= hi /\ 0 \in Int /\ hi \in Int
      OBVIOUS
    <3> QED BY <1>5, <2>1, <3>1
  <2>3. StartFixed(n, e, m) = RoundHalfAway(Clamped(n, 0, hi) * ChannelOne, e) + half
    BY <1>1, <2>1 DEF StartFixed
  <2> QED BY <2>1, <2>2, <2>3
<1>8. ASSUME NEW s \in Int PROVE SlopeFixed(s, d, m) \in (-top)..top
  <2>1. PICK hi \in Nat : hi = m * d /\ -m * d = -hi
    OBVIOUS
  <2>2. RoundHalfAway(Clamped(s, -hi, hi) * ChannelOne, d) \in (-top)..top
    <3>1. -hi <= hi /\ -hi \in Int /\ hi \in Int
      OBVIOUS
    <3> QED BY <1>5, <2>1, <3>1
  <2> QED BY <2>1, <2>2 DEF SlopeFixed
<1>9. c = <<r + half, SlopeFixed(u, d, m), SlopeFixed(w, d, m)>>
  BY <1>1, <1>2, <1>6, <1>7 DEF Interpolated
<1>10. PICK su \in (-top)..top, sw \in (-top)..top : su = SlopeFixed(u, d, m) /\ sw = SlopeFixed(w, d, m)
  BY <1>8
<1>11. PICK v \in Int : v = c[i] /\ Abs(v) <= N
  <2>1. c[1] = r + half /\ c[2] = su /\ c[3] = sw
    BY <1>9, <1>10
  <2>2. /\ r + half \in Int /\ Abs(r + half) <= N /\ su \in Int /\ Abs(su) <= N
        /\ sw \in Int /\ Abs(sw) <= N
    BY <1>4 DEF Abs
  <2>3. i = 1 \/ i = 2 \/ i = 3
    OBVIOUS
  <2> QED BY <2>1, <2>2, <2>3
<1> QED BY <1>4, <1>11, FieldHolds

\* Nothing about the shape of a trapezoid gives the validator a reason to refuse it.
WellShaped(d, w, h) ==
  /\ Shapely(d, w, h) /\ FieldsFit(d)

\* A column inside the surface fits sixteen bits.
LEMMA ColumnFits ==
  ASSUME NEW x \in (-CoordLimit)..CoordLimit, x >= 0
  PROVE  x % 65536 = x
<1>1. CoordLimit \in Nat /\ CoordLimit < 65536
  BY ColumnAssumption
<1>2. x \in Int /\ x <= CoordLimit
  BY <1>1
<1> QED BY <1>1, <1>2

\* Dressed, a trapezoid of the surface keeps its shape.
LEMMA DressedShapely ==
  ASSUME NEW t, NEW w \in Nat, NEW h \in Nat, Shapely(t, w, h), Columned(t), NEW d, Wears(d, t)
  PROVE  Shapely(d, w, h)
<1>1. t.left = LeftAt(t, 0) /\ t.right = RightAt(t, 0) /\ 0 \in Rows(t)
  BY DEF Shapely, Begins, DrawnRows
<1>2. LeftAt(t, 0) \in 0..w /\ RightAt(t, 0) \in 0..w
  BY <1>1 DEF Shapely, InOrder
<1>3. t.left >= 0 /\ t.right >= 0
  BY <1>1, <1>2
<1>4. t.left \in (-CoordLimit)..CoordLimit /\ t.right \in (-CoordLimit)..CoordLimit
  BY DEF Columned
<1>5. d.left = t.left /\ d.right = t.right
  <2>1. t.left % 65536 = t.left
    BY <1>3, <1>4, ColumnFits
  <2>2. t.right % 65536 = t.right
    BY <1>3, <1>4, ColumnFits
  <2> QED BY <2>1, <2>2 DEF Wears
<1>6. /\ d.y = t.y /\ d.h = t.h /\ d.sgn = t.sgn
      /\ d.ar0 = t.ar0 /\ d.ar1 = t.ar1 /\ d.ar2 = t.ar2
      /\ d.ar4 = t.ar4 /\ d.ar5 = t.ar5 /\ d.ar6 = t.ar6
  BY DEF Wears
<1>7. \A k : LeftAt(d, k) = LeftAt(t, k) /\ RightAt(d, k) = RightAt(t, k)
  <2>1. TAKE k
  <2>2. LeftAt(d, k) = LeftAt(t, k)
    BY <1>5, <1>6 DEF LeftAt
  <2>3. RightAt(d, k) = RightAt(t, k)
    BY <1>5, <1>6 DEF RightAt
  <2> QED BY <2>2, <2>3
<1>8. Rows(d) = Rows(t)
  BY <1>6 DEF Rows
<1>9. 0 \in DrawnRows(d)
  <2>1. 0 \in Rows(t) /\ LeftAt(t, 0) < RightAt(t, 0)
    BY DEF Shapely, Begins, DrawnRows
  <2>2. LeftAt(d, 0) < RightAt(d, 0)
    BY <1>7, <2>1
  <2> QED BY <1>8, <2>1, <2>2 DEF DrawnRows
<1>10. Begins(d)
  BY <1>1, <1>5, <1>7, <1>9 DEF Begins
<1>11. \A k \in Rows(d) : InOrder(d, k, w)
  BY <1>7, <1>8 DEF Shapely, InOrder
<1>12. Modest(t)
  BY DEF Shapely
<1>13. Modest(d)
  BY <1>6, <1>12, Zenon DEF Modest
<1>14. d.y >= 0 /\ d.h > 0 /\ d.y + d.h <= h /\ d.y \in Int /\ d.h \in Int
  BY <1>6 DEF Shapely
<1> QED BY <1>10, <1>11, <1>13, <1>14, Zenon DEF Shapely

\* Registers no longer than a walk may be fit their fields.
LEMMA ModestFits ==
  ASSUME NEW t, Modest(t), \A v \in t.dr : Field(v, Bits.dr)
  PROVE  FieldsFit(t)
<1>1. /\ Bits.ar \in 1..24 /\ Bits.ar1 \in 1..24 /\ EdgeWalk \in Nat
      /\ EdgeWalk < 2^(Bits.ar - 1) /\ EdgeWalk < 2^(Bits.ar1 - 1)
  BY FieldAssumption
<1>2. \A a \in {t.ar0, t.ar1, t.ar2, t.ar4, t.ar5, t.ar6} : a \in Int /\ Abs(a) <= EdgeWalk
  BY DEF Modest
<1>3. \A a \in {t.ar0, t.ar2, t.ar5, t.ar6} : Field(a, Bits.ar)
  BY <1>1, <1>2, FieldHolds
<1>4. \A a \in {t.ar1, t.ar4} : Field(a, Bits.ar1)
  BY <1>1, <1>2, FieldHolds
<1> QED BY <1>3, <1>4, Zenon DEF FieldsFit

\* Dressed, a trapezoid of the surface has the shape the validator asks for, and its
\* channels fit their fields.
LEMMA DressedWellShaped ==
  ASSUME NEW tri, IsTriangle(tri), Doubled(tri) # 0, NEW u, NEW prim, NEW offset,
         NEW t, NEW w \in Nat, NEW h \in Nat, Shapely(t, w, h), Columned(t), t.left \in Int, t.y \in Int
  PROVE  WellShaped(Dressed(t, tri, u, prim, offset), w, h)
<1>1. PICK d : d = Dressed(t, tri, u, prim, offset)
  OBVIOUS
<1>2. Wears(d, t)
  BY <1>1, DressedWears
<1>3. Shapely(d, w, h)
  BY <1>2, DressedShapely
<1>4. PICK colour : colour = ColourOf(t, tri)
  OBVIOUS
<1>5. d.dr = {colour[i] : i \in 1..3}
  <2>1. PICK depth : depth = DepthOf(t, tri, offset)
    OBVIOUS
  <2>2. PICK anchor : anchor = IF prim.opcode = OpTex THEN AnchorOf(t, tri, u) ELSE 0
    OBVIOUS
  <2>3. PICK left, right : left = t.left % 65536 /\ right = t.right % 65536
    OBVIOUS
  <2>4. PICK dr : dr = {colour[i] : i \in 1..3}
    OBVIOUS
  <2>5. d = [y |-> t.y, h |-> t.h, left |-> left, right |-> right, sgn |-> t.sgn,
             ar0 |-> t.ar0, ar1 |-> t.ar1, ar2 |-> t.ar2, ar4 |-> t.ar4, ar5 |-> t.ar5, ar6 |-> t.ar6,
             prim |-> prim, colour |-> colour, dr |-> dr, depth |-> depth,
             tu0 |-> anchor, tv0 |-> 0, tq0 |-> QOne]
    BY <1>1, <1>4, <2>1, <2>2, <2>3, <2>4 DEF Dressed
  <2>6. d.dr = dr
    BY ONLY <2>5
  <2> QED BY <2>4, <2>6
<1>6. PICK p : p = ColourPlane(tri)
  OBVIOUS
<1>7. tri[1].c \in Int /\ tri[2].c \in Int /\ tri[3].c \in Int /\ IsPoint(tri[1])
  <2>1. ChannelMax \in Nat
    BY FieldAssumption
  <2>2. \A i \in 1..3 : {tri[i].x, tri[i].y} \subseteq Int /\ tri[i].c \in 0..ChannelMax
    BY DEF IsTriangle
  <2> QED BY <2>1, <2>2 DEF IsPoint
<1>8. p.at \in Int /\ p.den \in Nat \ {0} /\ p.dx \in Int /\ p.dy \in Int
  BY <1>6, <1>7, PlaneTyped DEF ColourPlane
<1>9. colour = Interpolated(p, tri[1], t.left, t.y, ChannelMax)
  BY <1>4, <1>6 DEF ColourOf, ColourPlane
<1>10. \A i \in 1..3 : Field(colour[i], Bits.dr)
  BY <1>7, <1>8, <1>9, ChannelsFit
<1>11. FieldsFit(d)
  <2>1. \A v \in d.dr : Field(v, Bits.dr)
    BY <1>5, <1>10
  <2>2. Modest(d)
    BY <1>3 DEF Shapely
  <2> QED BY <2>1, <2>2, ModestFits
<1> QED BY <1>1, <1>3, <1>11 DEF WellShaped

-----------------------------------------------------------------------------
(* Nothing in the shape of such a trapezoid is refused.                      *)

\* What is refused for the words a primitive has is not refused for its shape.
LEMMA PrimNames ==
  ASSUME NEW prim
  PROVE  PrimState(prim) \notin ShapeRefusals
<1> DEFINE a == prim.opcode \notin {OpTrap, OpTex} \/ prim.atype \notin {AtypeI, AtypeZI}
           b == prim.ac.src > 8 \/ prim.ac.dst > 7 \/ prim.ac.mode = 3 \/ prim.ac.test = 1
           c == ~AlphaCross(prim.ac)
           tests == << <<a, "DWGCTL">>, <<b, "ALPHA">>, <<c, "ALPHACROSS">> >>
<1>1. PrimState(prim) = FirstRefusal(tests)
  BY DEF PrimState
<1> HIDE DEF a, b, c
<1>2. DOMAIN tests = 1..3 /\ \A i \in 1..3 : tests[i][2] \in {"DWGCTL", "ALPHA", "ALPHACROSS"}
  OBVIOUS
<1> HIDE DEF tests
<1>3. PrimState(prim) \in {"OK", "DWGCTL", "ALPHA", "ALPHACROSS"}
  BY <1>1, <1>2, RefusalIs
<1> QED BY <1>3 DEF ShapeRefusals

\* A well shaped trapezoid passes the tests of its geometry, but for its words.
LEMMA GeometryTaken ==
  ASSUME NEW w \in Nat, NEW h \in Nat, NEW t, WellShaped(t, w, h),
         NEW lim, lim.clipX1 = w - 1, lim.clipY1 = h - 1
  PROVE  Geometry(t, lim) \notin ShapeRefusals
<1> DEFINE word == PrimState(t.prim) # "OK"
           row == RowOffScreen(t, lim)
           long == \E a \in {t.ar1, t.ar2, t.ar4, t.ar5} : Abs(a) > EdgeWalk
           div == t.ar0 <= 0 \/ t.ar6 <= 0
           field == ~FieldsFit(t)
           slope == t.ar2 > 0 \/ t.ar5 > 0
           col == t.left > lim.clipX1 + 1 \/ t.right > lim.clipX1 + 1 \/ t.left > t.right
           sgn == ~(t.sgn \subseteq {"left", "right"})
           prim == PrimState(t.prim)
           tests == << <<word, prim>>, <<row, "TRIROW">>, <<long, "TRISLOPE">>, <<div, "EDGEDIV">>,
                       <<field, "TRIFIELD">>, <<slope, "TRISLOPE">>, <<col, "TRICOL">>, <<sgn, "TRISGN">> >>
<1>1. Geometry(t, lim) = FirstRefusal(tests)
  BY DEF Geometry
<1>2. prim \notin ShapeRefusals
  BY PrimNames
<1>3. Shapely(t, w, h) /\ FieldsFit(t) /\ Modest(t) /\ Begins(t) /\ 0 \in Rows(t)
  BY DEF WellShaped, Shapely, Begins, DrawnRows
<1>4. ~row
  BY <1>3 DEF Shapely, RowOffScreen
<1>5. ~long /\ ~div /\ ~slope /\ ~sgn
  <2>1. EdgeWalk \in Nat
    BY FieldAssumption
  <2>2. \A a \in {t.ar1, t.ar2, t.ar4, t.ar5} : Abs(a) \in Int /\ Abs(a) <= EdgeWalk
    BY <1>3 DEF Modest, Abs
  <2>3. ~long
    <3>1. ASSUME NEW a \in {t.ar1, t.ar2, t.ar4, t.ar5} PROVE ~(Abs(a) > EdgeWalk)
      <4>1. PICK b \in Int : b = Abs(a) /\ b <= EdgeWalk
        BY <2>2
      <4> QED BY <2>1, <4>1
    <3> QED BY <3>1
  <2>4. {t.ar0, t.ar2, t.ar5, t.ar6} \subseteq Int /\ t.ar0 > 0 /\ t.ar6 > 0 /\ t.ar2 <= 0 /\ t.ar5 <= 0
        /\ t.sgn \subseteq {"left", "right"}
    BY <1>3 DEF Modest
  <2>5. ~div /\ ~slope
    BY <2>4
  <2>6. ~sgn
    BY <2>4
  <2> QED BY <2>3, <2>5, <2>6
<1>6. ~col
  <2>1. t.left = LeftAt(t, 0) /\ t.right = RightAt(t, 0) /\ InOrder(t, 0, w)
    BY <1>3 DEF Begins, Shapely
  <2>2. t.left \in 0..w /\ t.right \in 0..w /\ t.left <= t.right
    BY <2>1 DEF InOrder
  <2> QED BY <2>2
<1>7. ~field
  BY <1>3
<1> HIDE DEF word, row, long, div, field, slope, col, sgn, prim
<1>8. /\ DOMAIN tests = 1..8 /\ tests[1][2] = prim
      /\ \A i \in 2..8 : ~tests[i][1]
  <2>1. DOMAIN tests = 1..8 /\ tests[1][2] = prim
    OBVIOUS
  <2>2. ~tests[2][1] /\ ~tests[3][1] /\ ~tests[4][1] /\ ~tests[5][1]
    BY <1>4, <1>5, <1>7
  <2>3. ~tests[6][1] /\ ~tests[7][1] /\ ~tests[8][1]
    BY <1>5, <1>6
  <2> HIDE DEF tests
  <2> QED BY <2>1, <2>2, <2>3
<1> HIDE DEF tests
<1>9. FirstRefusal(tests) = "OK" \/ FirstRefusal(tests) = prim
  <2>1. ASSUME NEW i \in 1..8, tests[i][1], FirstRefusal(tests) = tests[i][2]
        PROVE  FirstRefusal(tests) = prim
    BY <1>8, <2>1
  <2> QED BY <1>8, <2>1, RefusalIs
<1> QED BY <1>1, <1>2, <1>9 DEF ShapeRefusals

\* Its edges do not cross and stay on the surface.
LEMMA EdgesTaken ==
  ASSUME NEW w \in Nat, NEW h \in Nat, NEW t, WellShaped(t, w, h),
         NEW lim, lim.clipX1 = w - 1
  PROVE  ~EdgesCross(t, lim) /\ DrawnRows(t) # {}
<1>1. ASSUME NEW k \in Rows(t)
      PROVE  ~(LeftAt(t, k) > RightAt(t, k)) /\ {LeftAt(t, k), RightAt(t, k)} \subseteq 0..(lim.clipX1 + 1)
  <2>1. InOrder(t, k, w)
    BY <1>1 DEF WellShaped, Shapely
  <2>2. LeftAt(t, k) \in 0..w /\ RightAt(t, k) \in 0..w /\ LeftAt(t, k) <= RightAt(t, k)
    BY <2>1 DEF InOrder
  <2>3. lim.clipX1 + 1 = w
    OBVIOUS
  <2> QED BY <2>2, <2>3
<1>2. ~EdgesCross(t, lim)
  <2>1. ASSUME NEW k \in Rows(t)
        PROVE  ~(\/ LeftAt(t, k) > RightAt(t, k)
                 \/ k > 0 /\ {LeftAt(t, k), RightAt(t, k)} \ (0..(lim.clipX1 + 1)) # {})
    BY <1>1, <2>1
  <2> QED BY <2>1 DEF EdgesCross
<1>3. 0 \in DrawnRows(t)
  BY DEF WellShaped, Shapely, Begins
<1> QED BY <1>2, <1>3

\* So nothing of its shape is refused.
LEMMA TriTaken ==
  ASSUME NEW w \in Nat, NEW h \in Nat, NEW t, WellShaped(t, w, h),
         NEW lim, lim.clipX1 = w - 1, lim.clipY1 = h - 1, NEW st, NEW late
  PROVE  TriVerdict(st, t, lim, late) \notin ShapeRefusals
<1>1. Geometry(t, lim) \notin ShapeRefusals
  BY GeometryTaken
<1>2. ~EdgesCross(t, lim) /\ DrawnRows(t) # {}
  BY EdgesTaken
<1> DEFINE a == ~late /\ ~(AnchorsOK(t) /\ BudgetOK(st, t))
           b == DrawnRows(t) = {}
           tests == << <<a, "TEXCOORD">>, <<b, "TRIEMPTY">> >>
<1>3. TriVerdict(st, t, lim, late) =
        IF Geometry(t, lim) # "OK" THEN Geometry(t, lim)
        ELSE IF EdgesCross(t, lim) THEN "TRICROSS"
        ELSE IF ~Textured(t) THEN "OK" ELSE FirstRefusal(tests)
  BY DEF TriVerdict
<1>4. ~b
  BY <1>2
<1> HIDE DEF a, b
<1>5. DOMAIN tests = 1..2 /\ tests[1][2] = "TEXCOORD" /\ ~tests[2][1]
  BY <1>4
<1> HIDE DEF tests
<1>6. FirstRefusal(tests) = "OK" \/ FirstRefusal(tests) = "TEXCOORD"
  <2>1. ASSUME NEW i \in 1..2, tests[i][1], FirstRefusal(tests) = tests[i][2]
        PROVE  FirstRefusal(tests) = "TEXCOORD"
    BY <1>5, <2>1
  <2> QED BY <1>5, <2>1, RefusalIs
<1>7. "OK" \notin ShapeRefusals /\ "TEXCOORD" \notin ShapeRefusals
  BY DEF ShapeRefusals
<1> QED BY <1>1, <1>2, <1>3, <1>6, <1>7

\* Nor of a batch of them.
LEMMA BatchTaken ==
  ASSUME NEW w \in Nat, NEW h \in Nat, NEW tris, IsTris(tris),
         \A i \in DOMAIN tris : WellShaped(tris[i], w, h),
         NEW lim, lim.clipX1 = w - 1, lim.clipY1 = h - 1, NEW st, NEW asked
  PROVE  Validate(st, tris, lim, asked) \notin ShapeRefusals
<1>1. ~NamesTriangle(CommonOf(st, tris, lim))
  BY StateNames DEF CommonOf
<1>2. CommonOf(st, tris, lim) \notin ShapeRefusals
  BY <1>1 DEF NamesTriangle, ShapeRefusals
<1>3. TrisVerdict(st, tris, lim, asked) \notin ShapeRefusals
  <2> DEFINE bad == BadOf(st, tris, lim, asked)
  <2>1. CASE bad # {}
    <3>1. bad \subseteq DOMAIN tris
      BY DEF BadOf
    <3>2. Min(bad) \in DOMAIN tris
      <4>1. bad \in SUBSET Nat
        BY <3>1 DEF IsTris
      <4>2. Min(bad) \in bad
        <5> HIDE DEF bad
        <5> QED BY <2>1, <4>1, LeastNatural
      <4> QED BY <3>1, <4>2
    <3>3. PICK late : late = LateAt(st, tris, lim, asked, Min(bad))
      OBVIOUS
    <3>4. TrisVerdict(st, tris, lim, asked) = TriVerdict(st, tris[Min(bad)], lim, late)
      BY <2>1, <3>3 DEF TrisVerdict
    <3>5. TriVerdict(st, tris[Min(bad)], lim, late) \notin ShapeRefusals
      BY <3>2, TriTaken
    <3> QED BY <3>4, <3>5
  <2>2. CASE bad = {}
    <3>1. TrisVerdict(st, tris, lim, asked) \in {"OK", "TEXCOORD"}
      BY <2>2 DEF TrisVerdict
    <3> QED BY <3>1 DEF ShapeRefusals
  <2> QED BY <2>1, <2>2
<1>4. "COUNT" \notin ShapeRefusals
  BY DEF ShapeRefusals
<1> QED BY <1>2, <1>3, <1>4, ValidateIs

-----------------------------------------------------------------------------
(* The triangle whose corners lie on the surface.                            *)

\* The corners in order lie on the surface the corners lie on.
LEMMA ByYOnCanvas ==
  ASSUME NEW tri, NEW w, NEW h, OnCanvas(tri, w, h)
  PROVE  OnCanvas(ByY(tri), w, h)
<1> DEFINE On(p) == p.x \in 0..(SubOne * w) /\ p.y \in 0..(SubOne * h)
           one == IF tri[1].y > tri[2].y THEN <<tri[2], tri[1], tri[3]>> ELSE tri
           two == IF one[2].y > one[3].y THEN <<one[1], one[3], one[2]>> ELSE one
           three == IF two[1].y > two[2].y THEN <<two[2], two[1], two[3]>> ELSE two
           Good(t) == On(t[1]) /\ On(t[2]) /\ On(t[3])
<1>1. Good(tri)
  BY DEF OnCanvas
<1>2. ByY(tri) = three
  BY DEF ByY
<1>3. ASSUME Good(three) PROVE \A i \in 1..3 : On(three[i])
  <2> HIDE DEF On, three
  <2>1. \A i \in 1..3 : i = 1 \/ i = 2 \/ i = 3
    OBVIOUS
  <2> QED BY <1>3, <2>1
<1> HIDE DEF On
<1>4. ASSUME NEW t, Good(t) PROVE Good(<<t[2], t[1], t[3]>>) /\ Good(<<t[1], t[3], t[2]>>)
  BY <1>4
<1> HIDE DEF Good
<1>5. Good(one)
  BY <1>1, <1>4
<1> HIDE DEF one
<1>6. Good(two)
  BY <1>4, <1>5
<1> HIDE DEF two
<1>7. Good(three)
  BY <1>4, <1>6
<1>8. \A i \in 1..3 : On(three[i])
  BY <1>3, <1>7
<1> HIDE DEF three
<1> QED BY <1>2, <1>8 DEF OnCanvas, On

\* What the builder hands on of a triangle on the surface has no shape to refuse.
LEMMA BuiltWellShaped ==
  ASSUME NEW tri, IsTriangle(tri), Exact(tri), NEW w \in Nat, NEW h \in Nat, OnCanvas(tri, w, h),
         NEW prim, NEW repeats, NEW offset,
         NEW built, built = BuildTriangle(tri, prim, repeats, offset), built.tris # <<>>,
         NEW i \in DOMAIN built.tris
  PROVE  WellShaped(built.tris[i], w, h)
<1>1. BuiltOf(built, tri, prim, repeats, offset)
  BY BuiltInParts
<1>2. PICK u : u = Rebased(Given(tri), repeats)
  OBVIOUS
<1>3. PICK halves : halves = HalvesOf(tri)
  OBVIOUS
<1>4. /\ Doubled(tri) # 0 /\ (\A j \in 1..3 : CoordOK(tri[j]))
      /\ i \in DOMAIN halves /\ built.tris[i] = Dressed(halves[i], tri, u, prim, offset)
  BY <1>1, <1>2, <1>3 DEF BuiltOf
<1>5. PICK t : t = halves[i]
  OBVIOUS
<1>6. Columned(t) /\ t.left \in Int /\ t.y \in Int
  BY <1>3, <1>4, <1>5, BeginsCovered
<1>7. PICK v : v = ByY(tri)
  OBVIOUS
<1>8. Sorted(v) /\ OnCanvas(v, w, h) /\ Precision(v) = SubBits
  BY <1>7, SortedIs, ByYOnCanvas DEF Exact
<1>9. Twice(v[1], v[2], v[3]) # 0
  <2>1. Doubled(v) # 0
    BY <1>4, <1>7, InsideSorted
  <2>2. Doubled(v) = Twice(v[1], v[2], v[3])
    BY Zenon DEF Doubled, Twice
  <2> QED BY <2>1, <2>2
<1>10. WalksHalf(t, v, 1, 2) \/ WalksHalf(t, v, 2, 3)
  BY <1>3, <1>4, <1>5, <1>7, <1>8, HalvesWalk DEF HalvesOf, Sorted
<1>11. Shapely(t, w, h)
  <2>1. CASE WalksHalf(t, v, 1, 2)
    BY <1>8, <1>9, <2>1, HalfShapely
  <2>2. CASE WalksHalf(t, v, 2, 3)
    BY <1>8, <1>9, <2>2, HalfShapely
  <2> QED BY <1>10, <2>1, <2>2
<1> QED BY <1>4, <1>5, <1>6, <1>11, DressedWellShaped

-----------------------------------------------------------------------------
(* The induction over the path.                                              *)

\* Of a triangle on the surface, what the path holds has no shape to refuse, and nobody
\* has refused it for one.
OnItsSurface(job) == \A i \in 1..3 : OnSurface(job.state, job.tri[i])
Shaping ==
  (source.kind = "triangle" /\ Exact(source.job.tri) /\ OnItsSurface(source.job)) =>
    /\ phase \in {"built", "submitted"} =>
         \A i \in DOMAIN batch.tris :
           WellShaped(batch.tris[i], batch.state.dstWidth, batch.state.dstHeight)
    /\ phase \in {"drawing", "done"} => verdict.is \notin ShapeRefusals

\* It is built so.
LEMMA ShapingAsk ==
  ASSUME Ask
  PROVE  Shaping'
<1>1. CASE AskForTriangle
  <2>1. PICK job : /\ AskTriangle(job) /\ source'.kind = "triangle"
                   /\ IsState(job.state) /\ IsTriangle(job.tri)
    BY <1>1, TriangleIs
  <2>2. source'.job = job
    <3>1. source' = [kind |-> "triangle", job |-> job]
      BY <2>1 DEF AskTriangle
    <3> QED BY <3>1
  <2>3. PICK built : built = BuildTriangle(job.tri, job.prim, job.repeats, job.offset)
    OBVIOUS
  <2>4. IF built.tris # <<>>
        THEN /\ phase' = "built" /\ UNCHANGED verdict
             /\ batch' = [state |-> [job.state EXCEPT !.tmr = built.tmr], tris |-> built.tris]
        ELSE /\ phase' = "done" /\ UNCHANGED batch
             /\ verdict' = [by |-> "builder", is |-> IF built.ok THEN "OK" ELSE "UNSUPPORTED"]
    BY <2>1, <2>3 DEF AskTriangle
  <2>5. CASE built.tris # <<>>
    <3>1. batch' = [state |-> [job.state EXCEPT !.tmr = built.tmr], tris |-> built.tris]
          /\ phase' = "built"
      BY <2>4, <2>5
    <3>2. /\ batch'.tris = built.tris
          /\ batch'.state.dstWidth = job.state.dstWidth /\ batch'.state.dstHeight = job.state.dstHeight
      <4>1. batch'.tris = built.tris /\ batch'.state = [job.state EXCEPT !.tmr = built.tmr]
        BY <3>1
      <4>2. "dstWidth" \in DOMAIN job.state /\ "dstHeight" \in DOMAIN job.state
        BY <2>1 DEF IsState, StateFields
      <4> QED BY <4>1, <4>2
    <3>3. job.state.dstWidth \in Nat /\ job.state.dstHeight \in Nat
      BY <2>1, WordAssumption DEF IsState
    <3>4. ASSUME Exact(job.tri), OnItsSurface(job), NEW i \in DOMAIN built.tris
          PROVE  WellShaped(built.tris[i], job.state.dstWidth, job.state.dstHeight)
      <4>1. OnCanvas(job.tri, job.state.dstWidth, job.state.dstHeight)
        BY <3>4 DEF OnItsSurface, OnSurface, OnCanvas
      <4> QED BY <2>1, <2>3, <2>5, <3>3, <3>4, <4>1, BuiltWellShaped
    <3> QED BY <2>2, <3>1, <3>2, <3>4 DEF Shaping
  <2>6. CASE ~(built.tris # <<>>)
    <3>1. verdict'.is \in {"OK", "UNSUPPORTED"} /\ phase' = "done"
      BY <2>4, <2>6
    <3> QED BY <3>1 DEF Shaping, ShapeRefusals
  <2> QED BY <2>5, <2>6
<1>2. CASE AskForBatch
  BY <1>2, BatchAsked DEF Shaping
<1>3. CASE AskForWarp
  <2>1. PICK b : AskWarp(b)
    BY <1>3 DEF AskForWarp
  <2>2. source'.kind = "warp"
    BY <2>1 DEF AskWarp
  <2> QED BY <2>2 DEF Shaping
<1>4. CASE AskForMesh
  <2>1. PICK st, caps, job : AskMesh(st, caps, job)
    BY <1>4 DEF AskForMesh
  <2>2. source'.kind = "mesh"
    BY <2>1 DEF AskMesh
  <2> QED BY <2>2 DEF Shaping
<1> QED BY <1>1, <1>2, <1>3, <1>4 DEF Ask

\* What the path holds, its client and its driver take for its shape.
LEMMA ShapingAnswers ==
  ASSUME Inv, Shaping, source.kind = "triangle", Exact(source.job.tri), OnItsSurface(source.job),
         phase \in {"built", "submitted"}
  PROVE  DryRun(batch.state, batch.tris) \notin ShapeRefusals /\ Answer \notin ShapeRefusals
<1>1. IsState(batch.state) /\ IsTris(batch.tris)
  BY DEF Inv, Sources, Trapezoids
<1>2. PICK st, tris : st = batch.state /\ tris = batch.tris
  OBVIOUS
<1>3. PICK w \in Nat, h \in Nat : w = st.dstWidth /\ h = st.dstHeight
  BY <1>1, <1>2, WordAssumption DEF IsState
<1>4. \A i \in DOMAIN tris : WellShaped(tris[i], w, h)
  BY <1>2, <1>3 DEF Shaping
<1>5. "OK" \notin ShapeRefusals
  BY DEF ShapeRefusals
<1>6. ASSUME NEW lim, lim.clipX1 = w - 1, lim.clipY1 = h - 1
      PROVE  Validate(st, tris, lim, TRUE) \notin ShapeRefusals
  BY <1>1, <1>2, <1>4, <1>6, BatchTaken
<1>7. ASSUME NEW win PROVE Limits(st, win).clipX1 = w - 1 /\ Limits(st, win).clipY1 = h - 1
  BY <1>3 DEF Limits
<1>8. DryRun(st, tris) \notin ShapeRefusals
  <2>1. Validate(st, tris, LocalLimits(st), TRUE) \notin ShapeRefusals
    BY <1>6, <1>7 DEF LocalLimits
  <2> QED BY <1>5, <2>1 DEF DryRun
<1>9. Destination(st, FALSE) \notin ShapeRefusals
  BY DestinationNames DEF NamesTriangle, ShapeRefusals
<1>10. Validate(st, tris, Limits(st, Window), TRUE) \notin ShapeRefusals
  BY <1>6, <1>7
<1> QED BY <1>2, <1>8, <1>9, <1>10 DEF Answer

\* No step to the verdict changes it.
LEMMA ShapingNext ==
  ASSUME Inv, Shaping, [Next]_vars
  PROVE  Shaping'
<1>1. CASE UNCHANGED vars
  <2>1. UNCHANGED <<phase, source, batch, verdict>>
    BY <1>1 DEF vars
  <2> QED BY <2>1 DEF Shaping
<1>2. CASE Ask
  BY <1>2, ShapingAsk
<1>3. CASE AddTriangle \/ EndMesh \/ Continue
  <2>1. source'.kind = "mesh"
    BY <1>3, MeshStays
  <2> QED BY <2>1 DEF Shaping
<1>4. CASE Prevalidate
  <2>1. /\ UNCHANGED <<source, batch>> /\ phase = "built"
        /\ IF NamesTriangle(DryRun(batch.state, batch.tris))
           THEN phase' = "done" /\ verdict' = [by |-> "client", is |-> DryRun(batch.state, batch.tris)]
           ELSE phase' = "submitted" /\ UNCHANGED verdict
    BY <1>4 DEF Prevalidate, DryRun
  <2>2. \/ phase' = "done" /\ verdict'.is = DryRun(batch.state, batch.tris)
        \/ phase' = "submitted"
    BY <2>1
  <2>3. CASE phase' = "submitted"
    BY <2>1, <2>3 DEF Shaping
  <2>4. CASE phase' = "done" /\ verdict'.is = DryRun(batch.state, batch.tris)
    <3> SUFFICES ASSUME source.kind = "triangle", Exact(source.job.tri), OnItsSurface(source.job)
                 PROVE  DryRun(batch.state, batch.tris) \notin ShapeRefusals
      BY <2>1, <2>4 DEF Shaping
    <3> QED BY <2>1, ShapingAnswers
  <2> QED BY <2>2, <2>3, <2>4
<1>5. CASE Submit
  <2>1. /\ UNCHANGED <<source, batch>> /\ phase = "submitted"
        /\ verdict' = [by |-> "kernel", is |-> Answer] /\ phase' \in {"drawing", "done"}
    BY <1>5 DEF Submit, Answer
  <2>2. verdict'.is = Answer
    BY <2>1
  <2> SUFFICES ASSUME source.kind = "triangle", Exact(source.job.tri), OnItsSurface(source.job)
               PROVE  Answer \notin ShapeRefusals
    BY <2>1, <2>2 DEF Shaping
  <2> QED BY <2>1, ShapingAnswers
<1>6. CASE SubmitWarp
  <2>1. UNCHANGED source /\ source.kind \in {"warp", "mesh"}
    BY <1>6 DEF SubmitWarp
  <2> QED BY <2>1 DEF Shaping
<1>7. CASE Row
  <2>1. UNCHANGED <<source, verdict>> /\ phase = "drawing" /\ phase' \in {"drawing", "done"}
    BY <1>7 DEF Row
  <2> QED BY <2>1 DEF Shaping
<1>8. CASE Return
  <2>1. phase' = "idle"
    BY <1>8 DEF Return
  <2> QED BY <2>1 DEF Shaping
<1> QED BY <1>1, <1>2, <1>3, <1>4, <1>5, <1>6, <1>7, <1>8 DEF Next

LEMMA ShapingAlways == Spec => [](Inv /\ Shaping)
<1>1. Init => Shaping
  BY DEF Init, Shaping, NoSource
<1>2. Inv /\ Shaping /\ [Next]_vars => Shaping'
  BY ShapingNext
<1> QED BY <1>1, <1>2, Invariance, PTL DEF Spec

\* A triangle whose corners lie on the surface, built at full precision, is not refused for
\* the shape of a trapezoid the builder gave it: neither by the client's dry run nor by the
\* driver (osmgaHW3DValidateTri on what OSMGAMesaBuildTriangleTex hands on).
THEOREM BuiltIsAcceptedAlways == Spec => []BuiltIsAccepted
<1>1. Shaping => BuiltIsAccepted
  BY DEF Shaping, BuiltIsAccepted, OnItsSurface
<1> QED BY <1>1, ShapingAlways, PTL
-----------------------------------------------------------------------------
(* From GL's state to the driver's verdict: what HookPath promises.          *)

\* What is wrong with a primitive's words names the triangle that has them.
LEMMA PrimRefusals ==
  ASSUME NEW prim, PrimState(prim) # "OK"
  PROVE  NamesTriangle(PrimState(prim))
<1> DEFINE a == prim.opcode \notin {OpTrap, OpTex} \/ prim.atype \notin {AtypeI, AtypeZI}
           b == prim.ac.src > 8 \/ prim.ac.dst > 7 \/ prim.ac.mode = 3 \/ prim.ac.test = 1
           c == ~AlphaCross(prim.ac)
           tests == << <<a, "DWGCTL">>, <<b, "ALPHA">>, <<c, "ALPHACROSS">> >>
<1>1. PrimState(prim) = FirstRefusal(tests)
  BY DEF PrimState
<1> HIDE DEF a, b, c
<1>2. DOMAIN tests = 1..3 /\ \A i \in 1..3 : tests[i][2] \in {"DWGCTL", "ALPHA", "ALPHACROSS"}
  OBVIOUS
<1> HIDE DEF tests
<1>3. PrimState(prim) \in {"OK", "DWGCTL", "ALPHA", "ALPHACROSS"}
  BY <1>1, <1>2, RefusalIs
<1> QED BY <1>3 DEF NamesTriangle

\* Whatever is wrong with a trapezoid names it.
LEMMA TriRefusals ==
  ASSUME NEW st, NEW t, NEW lim, NEW late, TriVerdict(st, t, lim, late) # "OK"
  PROVE  NamesTriangle(TriVerdict(st, t, lim, late))
<1>1. Geometry(t, lim) = "OK" \/ NamesTriangle(Geometry(t, lim))
  <2> DEFINE word == PrimState(t.prim) # "OK"
             row == RowOffScreen(t, lim)
             long == \E a \in {t.ar1, t.ar2, t.ar4, t.ar5} : Abs(a) > EdgeWalk
             div == t.ar0 <= 0 \/ t.ar6 <= 0
             field == ~FieldsFit(t)
             slope == t.ar2 > 0 \/ t.ar5 > 0
             col == t.left > lim.clipX1 + 1 \/ t.right > lim.clipX1 + 1 \/ t.left > t.right
             sgn == ~(t.sgn \subseteq {"left", "right"})
             prim == PrimState(t.prim)
             tests == << <<word, prim>>, <<row, "TRIROW">>, <<long, "TRISLOPE">>, <<div, "EDGEDIV">>,
                         <<field, "TRIFIELD">>, <<slope, "TRISLOPE">>, <<col, "TRICOL">>,
                         <<sgn, "TRISGN">> >>
  <2>1. Geometry(t, lim) = FirstRefusal(tests)
    BY DEF Geometry
  <2>2. prim = "OK" \/ NamesTriangle(prim)
    BY PrimRefusals
  <2> HIDE DEF word, row, long, div, field, slope, col, sgn, prim
  <2>3. DOMAIN tests = 1..8 /\ \A i \in 1..8 : tests[i][2] = "OK" \/ NamesTriangle(tests[i][2])
    BY <2>2 DEF NamesTriangle
  <2> HIDE DEF tests
  <2> QED BY <2>1, <2>3, RefusalIs
<1> DEFINE a == ~late /\ ~(AnchorsOK(t) /\ BudgetOK(st, t))
           b == DrawnRows(t) = {}
           tests == << <<a, "TEXCOORD">>, <<b, "TRIEMPTY">> >>
<1>2. TriVerdict(st, t, lim, late) =
        IF Geometry(t, lim) # "OK" THEN Geometry(t, lim)
        ELSE IF EdgesCross(t, lim) THEN "TRICROSS"
        ELSE IF ~Textured(t) THEN "OK" ELSE FirstRefusal(tests)
  BY DEF TriVerdict
<1> HIDE DEF a, b
<1>3. DOMAIN tests = 1..2 /\ \A i \in 1..2 : tests[i][2] \in {"TEXCOORD", "TRIEMPTY"}
  OBVIOUS
<1> HIDE DEF tests
<1>4. FirstRefusal(tests) \in {"OK", "TEXCOORD", "TRIEMPTY"}
  BY <1>3, RefusalIs
<1>5. NamesTriangle("TRICROSS") /\ NamesTriangle("TEXCOORD") /\ NamesTriangle("TRIEMPTY")
  BY DEF NamesTriangle
<1> QED BY <1>1, <1>2, <1>4, <1>5

\* So does what is wrong with the trapezoids of a batch.
LEMMA TrisRefusals ==
  ASSUME NEW st, NEW tris, IsTris(tris), NEW lim, NEW asked
  PROVE  \/ TrisVerdict(st, tris, lim, asked) = "OK"
         \/ NamesTriangle(TrisVerdict(st, tris, lim, asked))
<1> DEFINE bad == BadOf(st, tris, lim, asked)
<1>1. CASE bad # {}
  <2>1. PICK late : late = LateAt(st, tris, lim, asked, Min(bad))
    OBVIOUS
  <2>2. TrisVerdict(st, tris, lim, asked) = TriVerdict(st, tris[Min(bad)], lim, late)
    BY <1>1, <2>1 DEF TrisVerdict
  <2> QED BY <2>2, TriRefusals
<1>2. CASE bad = {}
  BY <1>2 DEF TrisVerdict, NamesTriangle
<1> QED BY <1>1, <1>2

\* A batch of which only the trapezoids could be refused, and whose dry run named none, is
\* taken.
LEMMA DryRunDecides ==
  ASSUME NEW st, WordsState(st), NEW tris, IsTris(tris), DestFits(st, Window) = "OK",
         ~(Len(tris) > MaxTris), CommonOf(st, tris, Limits(st, Window)) = "OK",
         ~NamesTriangle(DryRun(st, tris))
  PROVE  Validate(st, tris, Limits(st, Window), TRUE) = "OK"
<1>1. ~NamesTriangle(Validate(st, tris, Limits(st, Window), TRUE))
  BY DryRunAnswers
<1>2. Validate(st, tris, Limits(st, Window), TRUE) = TrisVerdict(st, tris, Limits(st, Window), TRUE)
  BY ValidateIs
<1> QED BY <1>1, <1>2, TrisRefusals

\* A surface the driver placed, of rows no longer than the display's, is a destination it takes.
LEMMA PlacedIsTaken ==
  ASSUME NEW g, IsGLState(g), g.surface.placed, g.surface.stride <= Stride,
         NEW st, st.dstorg = g.surface.dstorg, st.dstWidth = g.surface.width,
         st.dstHeight = g.surface.height, st.dstPitch = g.surface.stride
  PROVE  Destination(st, FALSE) = "OK"
<1>1. PICK w, h, p, org : w = g.surface.width /\ h = g.surface.height
                          /\ p = g.surface.stride /\ org = g.surface.dstorg
  OBVIOUS
<1>2. /\ w \in Nat /\ h \in Nat /\ p \in Nat /\ h > 0 /\ w \in 1..p /\ 4 * p <= WordMax
      /\ org \in Aperture.start..(Aperture.end - 1) /\ h * (4 * p) <= Aperture.end - org
  BY <1>1 DEF IsGLState, SurfaceIsPlaced, Within
<1>3. Aperture.start \in Nat /\ Aperture.end \in Nat /\ WordMax \in Nat
  BY ApertureAssumption, WordAssumption
<1>4. PICK row \in Nat, line \in Nat, avail \in Int :
        row = 4 * p /\ line = 4 * w /\ avail = Aperture.end - org
  BY <1>2, <1>3
<1>5. Word(4 * st.dstPitch) = row /\ Word(4 * st.dstWidth) = line
  <2>1. 4 * p \in Nat /\ 4 * p <= WordMax /\ 4 * w \in Nat /\ 4 * w <= WordMax
    BY <1>2, <1>3
  <2> QED BY <1>1, <1>4, <2>1, WordStands
<1>6. line <= row /\ row # 0 /\ h * row <= avail
  BY <1>2, <1>4
<1>7. (h - 1) * row <= avail - line
  <2>1. (h - 1) * row = h * row - row
    BY <1>2
  <2>2. PICK n \in Int : n = h * row
    BY <1>2
  <2> QED BY <1>6, <2>1, <2>2
<1>8. h - 1 <= (avail - line) \div row /\ line <= avail
  <2>1. PICK q \in Int : q = (avail - line) \div row /\ (avail - line) - q * row \in 0..(row - 1)
    <3>1. PICK n \in Int : n = avail - line
      OBVIOUS
    <3> QED BY <1>6, <3>1, DivisionIs
  <2>2. line <= avail
    <3>1. (h - 1) * row >= 0
      BY <1>2
    <3>2. PICK n \in Int : n = (h - 1) * row
      BY <1>2
    <3> QED BY <1>7, <3>1, <3>2
  <2>3. SUFFICES ASSUME q + 1 <= h - 1 PROVE FALSE
    BY <1>2, <2>1, <2>2
  <2>4. (q + 1) * row <= (h - 1) * row
    BY <1>2, <2>3
  <2>5. (q + 1) * row = q * row + row
    OBVIOUS
  <2>6. PICK a \in Int, b \in Int : a = q * row /\ b = (h - 1) * row
    BY <1>2
  <2> QED BY <1>7, <2>1, <2>4, <2>5, <2>6
<1>9. DestFits(st, Window) = "OK"
  <2> DEFINE size == st.dstWidth = 0 \/ st.dstHeight = 0 \/ st.dstPitch = 0
             away == st.dstorg \notin Window.start..(Window.end - 1)
             wide == line > avail
             none == row = 0
             high == row # 0 /\ h - 1 > (avail - line) \div row
             tests == << <<size, "DSTSIZE">>, <<away, "DSTORG">>, <<wide, "DSTSIZE">>,
                         <<none, "UNDEFINED">>, <<high, "DSTSIZE">> >>
  <2>1. avail = Window.end - st.dstorg
    BY <1>1, <1>4, OneWindow
  <2>2. DestFits(st, Window) = FirstRefusal(tests)
    BY <1>1, <1>5, <2>1 DEF DestFits
  <2>3. ~size /\ ~away /\ ~wide /\ ~none /\ ~high
    BY <1>1, <1>2, <1>6, <1>8, OneWindow
  <2> HIDE DEF size, away, wide, none, high
  <2>4. DOMAIN tests = 1..5 /\ \A i \in 1..5 : ~tests[i][1]
    BY <2>3
  <2> HIDE DEF tests
  <2> QED BY <2>2, <2>4, Unrefused
<1>10. ~(st.dstPitch = 0 \/ st.dstPitch > Stride \/ st.dstWidth > st.dstPitch)
  BY <1>1, <1>2, ColumnAssumption
<1> QED BY <1>9, <1>10 DEF Destination

\* A placed surface is no higher than a word can say.
LEMMA SurfaceIs ==
  ASSUME NEW s, SurfaceIsPlaced(s), s.placed, {s.width, s.height, s.stride} \subseteq Nat
  PROVE  {s.dstorg, s.width, s.height, s.stride} \subseteq 0..WordMax
<1>1. /\ s.width \in Nat /\ s.height \in Nat /\ s.stride \in Nat
      /\ s.width \in 1..s.stride /\ 4 * s.stride <= WordMax
      /\ s.dstorg \in Aperture.start..(Aperture.end - 1)
      /\ s.height * (4 * s.stride) <= Aperture.end - s.dstorg
  BY DEF SurfaceIsPlaced, Within
<1>2. /\ Aperture.start \in Nat /\ Aperture.end \in Nat /\ Aperture.end <= WordMax
      /\ WordMax \in Nat
  BY ApertureAssumption, WordAssumption
<1>3. s.height <= WordMax
  <2>1. PICK row \in Nat : row = 4 * s.stride
    BY <1>1
  <2>2. PICK n \in Nat : n = s.height * row
    BY <1>1
  <2>3. row >= 1
    BY <1>1, <2>1
  <2>4. s.height <= n
    BY <1>1, <2>2, <2>3
  <2> QED BY <1>1, <1>2, <2>1, <2>2, <2>4
<1> QED BY <1>1, <1>2, <1>3

\* The words of a state whose surface is placed are words the driver can read.
LEMMA WordsAreState ==
  ASSUME NEW family \in States, NEW g \in family, g.surface.placed
  PROVE  IsState(WordsOf(g).state)
<1>1. PICK st, s, b, on : st = WordsOf(g).state /\ s = g.surface /\ b = g.scissor /\ on = g.scissor.on
  OBVIOUS
<1>2. IsGLState(g) /\ s.zorg \in 0..WordMax /\ b.w <= WordMax /\ b.h <= WordMax
  BY <1>1, StatesAssumption, SurfaceAssumption
<1>3. {b.x, b.y, b.w, b.h} \subseteq Int /\ {s.dstorg, s.width, s.height, s.stride} \subseteq 0..WordMax
  BY <1>1, <1>2, SurfaceIs DEF IsGLState
<1>4. PICK tex : /\ tex = IF g.texture.on THEN BatchTexture(g.texture) ELSE BatchUntextured
                 /\ st = FillState(g, tex)
  BY <1>1 DEF WordsOf
<1>5. tex.biasU = 0 /\ tex.biasV = 0 /\ tex.tmr = <<0, 0, 0, 0, 0, 0>>
  BY <1>4 DEF BatchTexture, BatchUntextured
<1>6. PICK w \in Int, h \in Int : w = Max({b.w, 0}) /\ h = Max({b.h, 0})
                                  /\ w \in 0..WordMax /\ h \in 0..WordMax
  <2>1. b.w \in Int /\ b.h \in Int
    BY <1>3
  <2>2. Max({b.w, 0}) = (IF b.w >= 0 THEN b.w ELSE 0) /\ Max({b.h, 0}) = (IF b.h >= 0 THEN b.h ELSE 0)
    BY <2>1, GreaterOf
  <2> QED BY <1>2, <2>1, <2>2, WordAssumption
<1>7. /\ DOMAIN st = StateFields
      /\ st.dstorg = s.dstorg /\ st.dstWidth = s.width /\ st.dstHeight = s.height
      /\ st.dstPitch = s.stride /\ st.zorg = s.zorg
      /\ st.biasU = tex.biasU /\ st.biasV = tex.biasV /\ st.tmr = tex.tmr
  BY <1>1, <1>4 DEF FillState, StateFields
<1>8. /\ st.scissorX = (IF on THEN b.x ELSE 0) /\ st.scissorY = (IF on THEN b.y ELSE 0)
      /\ st.scissorW = (IF on THEN w ELSE 0) /\ st.scissorH = (IF on THEN h ELSE 0)
  BY <1>1, <1>4, <1>6 DEF FillState
<1>9. {st.tmr[i] : i \in 1..6} \subseteq Int
  BY <1>5, <1>7
<1>10. {st.scissorX, st.scissorY} \subseteq Int /\ {st.scissorW, st.scissorH} \subseteq 0..WordMax
  BY <1>3, <1>6, <1>8, WordAssumption
<1>11. {st.dstorg, st.dstWidth, st.dstHeight, st.dstPitch, st.zorg, st.biasU, st.biasV}
         \subseteq 0..WordMax
  BY <1>2, <1>3, <1>5, <1>7, WordAssumption
<1> QED BY <1>1, <1>7, <1>9, <1>10, <1>11 DEF IsState

\* What an admitted state asks for without levels is taken whatever the slopes of its
\* texture.
LEMMA CommonStands ==
  ASSUME NEW g, IsGLState(g), ChooseTriangle(g), g.texture.on => Resident(g.texture),
         NEW w, w = WordsOf(g), w.state.minmode = 0, IsState(w.state),
         NEW x, NEW st, st = [w.state EXCEPT !.tmr = x],
         NEW tris, Worded(tris, w.prim)
  PROVE  CommonOf(st, tris, Limits(st, Window)) = "OK"
<1>1. w.mips = 0
  <2>1. CASE g.texture.on
    <3>1. IsTexture(g.texture) /\ TexStateOK(g.texture)
      BY <2>1, Gated DEF IsGLState
    <3>2. w.mips = MipMapnb(g.texture) /\ w.state.minmode = Minmode(g.texture)
      BY <2>1, TexturedIs DEF WordsOf
    <3> QED BY <3>1, <3>2, LevelsAre
  <2>2. CASE ~g.texture.on
    BY <2>2 DEF WordsOf
  <2> QED BY <2>1, <2>2
<1> DEFINE deep == \E i \in DOMAIN tris : AddressesDepth(tris[i].prim)
           textured == \E i \in DOMAIN tris : Textured(tris[i])
<1>2. deep <=> AddressesDepth(w.prim)
  BY DEF Worded
<1>3. textured <=> w.prim.opcode = OpTex
  <2>1. PICK n \in 1..2 : DOMAIN tris = 1..n /\ \A i \in 1..n : tris[i].prim = w.prim
    BY DEF Worded
  <2>2. 1 \in DOMAIN tris /\ \A i \in DOMAIN tris : Textured(tris[i]) <=> w.prim.opcode = OpTex
    BY <2>1 DEF Textured
  <2> QED BY <2>2
<1>4. StateCommon(w.state, 0, Limits(w.state, Window), deep, textured) = "OK"
  <2>1. StateCommon(w.state, 0, Limits(w.state, Aperture), AddressesDepth(w.prim),
                    w.prim.opcode = OpTex) = "OK"
    BY <1>1, StateTaken
  <2>2. deep = AddressesDepth(w.prim) /\ textured = (w.prim.opcode = OpTex)
    <3>1. deep \in BOOLEAN /\ textured \in BOOLEAN
      OBVIOUS
    <3>2. AddressesDepth(w.prim) \in BOOLEAN
      BY DEF AddressesDepth
    <3> HIDE DEF deep, textured
    <3> QED BY <1>2, <1>3, <3>1, <3>2
  <2> HIDE DEF deep, textured
  <2> QED BY <2>1, <2>2, OneWindow
<1> HIDE DEF deep, textured
<1>5. /\ st.dstorg = w.state.dstorg /\ st.dstWidth = w.state.dstWidth
      /\ st.dstHeight = w.state.dstHeight /\ st.dstPitch = w.state.dstPitch
      /\ st.zorg = w.state.zorg /\ st.texorg = w.state.texorg /\ st.texW = w.state.texW
      /\ st.texH = w.state.texH /\ st.texPitch = w.state.texPitch /\ st.tw32 = w.state.tw32
      /\ st.minmode = w.state.minmode /\ st.biasU = w.state.biasU /\ st.biasV = w.state.biasV
  <2>1. DOMAIN w.state = StateFields
    BY DEF IsState
  <2> QED BY <2>1 DEF StateFields
<1>6. Limits(st, Window) = Limits(w.state, Window)
  BY <1>5 DEF Limits
<1>7. ASSUME NEW win
      PROVE  TextureState(st, 0, win) = TextureState(w.state, 0, win)
  BY <1>5, Zenon DEF TextureState
<1>8. StateCommon(st, 0, Limits(st, Window), deep, textured) = "OK"
  BY <1>4, <1>5, <1>6, <1>7 DEF StateCommon
<1> QED BY <1>8 DEF CommonOf, deep, textured

\* What GL's state says of the surface is what the driver will read, and the trapezoids are
\* given no state of levels.
Fitting ==
  /\ choice = "hook" => gl.surface.stride <= Stride /\ IsState(WordsOf(gl).state)
  /\ tier = "trapezoid" => words.state.minmode = 0
\* What is on its way while the tier is the trapezoids is a triangle under GL's words, and
\* the driver has taken it.
OfWords ==
  \E x : batch.state = [words.state EXCEPT !.tmr = x] /\ Worded(batch.tris, words.prim)
Carried ==
  (phase # "idle" /\ tier = "trapezoid") =>
    /\ source.kind = "triangle"
    /\ phase \in {"built", "submitted"} => OfWords
    /\ verdict.by = "kernel" => verdict.is = "OK"
HookInv == Inv /\ Verdicts /\ Translated /\ Fitting /\ Carried

\* The driver takes what the gate let through.
LEMMA CarriedSubmit ==
  ASSUME HookInv, Submit, tier = "trapezoid"
  PROVE  Answer = "OK"
<1>1. phase = "submitted" /\ Trapezoids
  BY DEF Submit, Trapezoids
<1>2. PICK x : batch.state = [words.state EXCEPT !.tmr = x] /\ Worded(batch.tris, words.prim)
  BY <1>1 DEF HookInv, Carried, OfWords
<1>3. PICK st, tris : st = batch.state /\ tris = batch.tris
  OBVIOUS
<1>4. IsState(st) /\ IsTris(tris) /\ WordsState(st) /\ ~NamesTriangle(DryRun(st, tris))
  BY <1>1, <1>3 DEF HookInv, Inv, Sources, Verdicts, Rehearsed, IsState, WordsState
<1>5. /\ ChooseTriangle(gl) /\ IsGLState(gl) /\ words = WordsOf(gl)
      /\ gl.texture.on => Resident(gl.texture)
      /\ words.state.minmode = 0 /\ gl.surface.stride <= Stride /\ IsState(words.state)
  BY DEF HookInv, Translated, Fitting, Drawn
<1>6. CommonOf(st, tris, Limits(st, Window)) = "OK"
  BY <1>2, <1>3, <1>5, CommonStands
<1>7. Destination(st, FALSE) = "OK"
  <2>1. /\ st.dstorg = words.state.dstorg /\ st.dstWidth = words.state.dstWidth
        /\ st.dstHeight = words.state.dstHeight /\ st.dstPitch = words.state.dstPitch
    <3>1. DOMAIN words.state = StateFields
      BY <1>5 DEF IsState
    <3> QED BY <1>2, <1>3, <3>1 DEF StateFields
  <2>2. /\ words.state.dstorg = gl.surface.dstorg /\ words.state.dstWidth = gl.surface.width
        /\ words.state.dstHeight = gl.surface.height /\ words.state.dstPitch = gl.surface.stride
    BY <1>5 DEF WordsOf, FillState
  <2>3. gl.surface.placed
    BY <1>5 DEF ChooseTriangle, SurfaceGate
  <2> QED BY <1>5, <2>1, <2>2, <2>3, PlacedIsTaken
<1>8. ~(Len(tris) > MaxTris)
  <2>1. PICK n \in 1..2 : DOMAIN tris = 1..n
    BY <1>2, <1>3 DEF Worded
  <2>2. Len(tris) = n
    BY <1>4, <2>1, LenProperties DEF IsTris
  <2> QED BY <2>2, SurfaceAssumption
<1>9. DestFits(st, Window) = "OK"
  BY <1>7 DEF Destination
<1>10. Validate(st, tris, Limits(st, Window), TRUE) = "OK"
  BY <1>4, <1>6, <1>8, <1>9, DryRunDecides
<1> QED BY <1>3, <1>7, <1>10 DEF Answer

\* On its way, a triangle stays one the driver takes.
LEMMA CarriedPath ==
  ASSUME HookInv, Path
  PROVE  Carried'
<1>1. UNCHANGED <<tier, words>> /\ Next
  BY DEF Path, stateVars
<1> SUFFICES ASSUME tier = "trapezoid" PROVE Carried'
  BY <1>1 DEF Carried
<1>2. choice # "none" /\ phase # "idle"
  BY DEF HookInv, Translated, Path
<1>3. source.kind = "triangle" /\ (verdict.by = "kernel" => verdict.is = "OK")
  BY <1>2 DEF HookInv, Carried
<1>4. CASE Ask
  BY <1>2, <1>4 DEF Ask
<1>5. CASE AddTriangle \/ EndMesh \/ Continue
  <2>1. source.kind = "mesh"
    BY <1>5 DEF HookInv, Inv, Sources, MeshSource, AddTriangle, EndMesh, Continue
  <2> QED BY <1>3, <2>1
<1>6. CASE Prevalidate
  <2>1. /\ UNCHANGED <<source, batch>> /\ phase = "built"
        /\ IF NamesTriangle(DryRun(batch.state, batch.tris))
           THEN phase' = "done" /\ verdict' = [by |-> "client", is |-> DryRun(batch.state, batch.tris)]
           ELSE phase' = "submitted" /\ UNCHANGED verdict
    BY <1>6 DEF Prevalidate, DryRun
  <2>2. OfWords
    BY <1>2, <2>1 DEF HookInv, Carried
  <2>3. OfWords'
    BY <1>1, <2>1, <2>2 DEF OfWords
  <2>4. verdict'.by = "kernel" => verdict'.is = "OK"
    BY <1>3, <2>1
  <2> QED BY <1>3, <2>1, <2>3, <2>4 DEF Carried
<1>7. CASE Submit
  <2>1. UNCHANGED source /\ phase' \in {"drawing", "done"} /\ verdict' = [by |-> "kernel", is |-> Answer]
    BY <1>7 DEF Submit, Answer
  <2>2. verdict'.is = "OK"
    BY <1>7, <2>1, CarriedSubmit
  <2> QED BY <1>3, <2>1, <2>2 DEF Carried
<1>8. CASE SubmitWarp
  BY <1>3, <1>8 DEF SubmitWarp
<1>9. CASE Row
  <2>1. UNCHANGED <<source, verdict>> /\ phase' \in {"drawing", "done"}
    BY <1>9 DEF Row
  <2> QED BY <1>3, <2>1 DEF Carried
<1>10. CASE Return
  <2>1. phase' = "idle"
    BY <1>10 DEF Return
  <2> QED BY <2>1 DEF Carried
<1> QED BY <1>1, <1>4, <1>5, <1>6, <1>7, <1>8, <1>9, <1>10 DEF Next

\* A triangle drawn under GL's words is built under them.
LEMMA HookDraws ==
  ASSUME HookInv, DrawBuilt
  PROVE  Inv' /\ Verdicts' /\ Carried'
<1>1. phase = "idle" /\ tier = "trapezoid" /\ UNCHANGED stateVars
  BY DEF DrawBuilt
<1>2. PICK s \in Shapes :
        AskTriangle([tri |-> s.tri, prim |-> words.prim, repeats |-> "REPEATU" \in words.flags,
                     offset |-> s.offset, state |-> words.state])
  BY DEF DrawBuilt
<1>3. PICK job : /\ job = [tri |-> s.tri, prim |-> words.prim, repeats |-> "REPEATU" \in words.flags,
                           offset |-> s.offset, state |-> words.state]
                 /\ AskTriangle(job)
  BY <1>2
<1>4. job.state = words.state /\ job.prim = words.prim /\ job.tri = s.tri
  BY <1>3
<1>5. IsState(job.state) /\ IsTriangle(job.tri)
  BY <1>1, <1>4, ShapeAssumption DEF HookInv, Translated, Fitting, Drawn
<1>6. Inv'
  BY <1>3, <1>5, TriangleHolds DEF HookInv
<1>7. \/ phase' = "done" /\ verdict'.by = "builder"
      \/ phase' = "built" /\ UNCHANGED verdict
  BY <1>3, <1>5, TriangleAsked
<1>8. verdict'.by # "kernel" /\ phase' \in {"done", "built"}
  BY <1>1, <1>7 DEF HookInv, Verdicts, Unanswered
<1>9. Verdicts'
  BY <1>8 DEF Verdicts, Unanswered, Rehearsed, OneVerdict
<1>10. source'.kind = "triangle"
  <2>1. source' = [kind |-> "triangle", job |-> job]
    BY <1>3 DEF AskTriangle
  <2> QED BY <2>1
<1>11. phase' = "built" => OfWords'
  <2>1. PICK built : built = BuildTriangle(job.tri, job.prim, job.repeats, job.offset)
    OBVIOUS
  <2>2. IF built.tris # <<>>
        THEN batch' = [state |-> [job.state EXCEPT !.tmr = built.tmr], tris |-> built.tris]
        ELSE phase' = "done"
    BY <1>3, <2>1 DEF AskTriangle
  <2> SUFFICES ASSUME phase' = "built" PROVE OfWords'
    OBVIOUS
  <2>3. built.tris # <<>>
    BY <2>2
  <2>4. Worded(built.tris, job.prim)
    BY <1>5, <2>1, <2>3, BuiltIs
  <2>5. batch'.state = [words.state EXCEPT !.tmr = built.tmr] /\ batch'.tris = built.tris
    BY <1>4, <2>2, <2>3
  <2>6. words' = words
    BY <1>1 DEF stateVars
  <2> QED BY <1>4, <2>4, <2>5, <2>6 DEF OfWords
<1> QED BY <1>6, <1>8, <1>9, <1>10, <1>11 DEF Carried

\* A step of GL's state keeps what it says of the surface.
LEMMA FittingState ==
  ASSUME HookInv, StateNext
  PROVE  Fitting'
<1>1. CASE Update
  <2>1. PICK family \in States : \E g \in family : UpdateState(g)
    BY <1>1 DEF Update
  <2>2. PICK g \in family : UpdateState(g)
    BY <2>1
  <2>3. gl' = g /\ choice' = (IF ChooseTriangle(g) THEN "hook" ELSE "software") /\ tier' = tier
    BY <2>2 DEF UpdateState
  <2>4. tier = "none"
    BY <1>1 DEF Update, HookInv, Translated
  <2>5. ASSUME ChooseTriangle(g)
        PROVE  g.surface.stride <= Stride /\ IsState(WordsOf(g).state)
    <3>1. g.surface.placed
      BY <2>5 DEF ChooseTriangle, SurfaceGate
    <3> QED BY <3>1, SurfaceAssumption, WordsAreState
  <2> QED BY <2>3, <2>4, <2>5 DEF Fitting
<1>2. CASE DrawSoftware \/ DrawNotResident
  <2>1. gl' = gl /\ choice' = choice /\ tier' = "software"
    BY <1>2 DEF DrawSoftware, DrawNotResident
  <2> QED BY <2>1 DEF HookInv, Fitting
<1>3. ASSUME NEW taken, Translate(taken) PROVE Fitting'
  <2>1. /\ gl' = gl /\ choice' = choice /\ words' = WordsOf(gl)
        /\ tier' = "trapezoid" => WordsOf(gl).state.minmode = 0
    BY <1>3 DEF Translate
  <2> QED BY <2>1 DEF HookInv, Fitting
<1> QED BY <1>1, <1>2, <1>3 DEF StateNext, DrawWarp, DrawTrapezoid

\* Every step of the hook keeps it all.
LEMMA HookHolds ==
  ASSUME HookInv, [HookNext]_hookVars
  PROVE  HookInv'
<1> USE DEF HookInv
<1>1. ASSUME UNCHANGED vars
      PROVE  Inv' /\ Verdicts' /\ UNCHANGED <<phase, source, batch, verdict>>
  BY <1>1, InvariantStep, VerdictsStep DEF vars
<1>2. ASSUME UNCHANGED stateVars
      PROVE  Translated' /\ Fitting' /\ UNCHANGED <<tier, words>>
  BY <1>2, TranslatedNext DEF stateVars, Fitting
<1>3. CASE Path
  <2>1. Next /\ UNCHANGED stateVars
    BY <1>3 DEF Path
  <2> QED BY <1>2, <1>3, <2>1, InvariantStep, VerdictsStep, CarriedPath
<1>4. CASE State
  <2>1. phase = "idle" /\ StateNext /\ UNCHANGED vars
    BY <1>4 DEF State
  <2>2. Carried'
    BY <1>1, <2>1 DEF Carried
  <2> QED BY <1>1, <2>1, <2>2, TranslatedNext, FittingState
<1>5. CASE DrawBuilt
  BY <1>2, <1>5, HookDraws DEF DrawBuilt
<1>6. CASE Anew
  <2>1. phase = "idle" /\ choice' = "none" /\ tier' = "none" /\ words' = NoWords /\ UNCHANGED vars
    BY <1>6 DEF Anew
  <2> QED BY <1>1, <2>1 DEF Translated, Fitting, Carried, Drawn
<1>7. CASE UNCHANGED hookVars
  <2>1. UNCHANGED vars /\ UNCHANGED stateVars
    BY <1>7 DEF hookVars
  <2>2. OfWords = OfWords'
    BY <1>1, <1>2, <2>1 DEF OfWords
  <2> QED BY <1>1, <1>2, <2>1, <2>2 DEF Carried
<1> QED BY <1>3, <1>4, <1>5, <1>6, <1>7 DEF HookNext

\* It holds throughout.
LEMMA HookInvAlways == HookSpec => []HookInv
<1>1. HookInit => HookInv
  BY InvariantStart, VerdictsStart
     DEF HookInit, HookInv, StateInit, Init, Translated, Fitting, Carried, Drawn, NoWords
<1>2. HookInv /\ [HookNext]_hookVars => HookInv'
  BY HookHolds
<1> QED BY <1>1, <1>2, PTL DEF HookSpec

\* A state the gate lets through is drawn: whatever the state of GL, the surfaces and the
\* shapes, its words pass the questions of both tiers, and the driver takes every triangle
\* drawn under them that the client's own question let pass (osmgaMesaChooseTriangle,
\* osmgaMesaPrevalidate and mgaSubmitHW3D).
THEOREM AdmittedIsDrawnAlways == HookSpec => []AdmittedIsDrawn
<1>1. HookInv => AdmittedIsDrawn
  BY TranslatedIsTaken DEF HookInv, Carried, AdmittedIsDrawn, SubmittedIsTaken
<1> QED BY <1>1, HookInvAlways, PTL

\* What the parts promise the whole path keeps: a triangle drawn through GL is walked inside
\* its surface and the window, samples in range, gets one verdict, and its words are GL's
\* (osmgaMesaTriangle and all behind it).
THEOREM HookKeepsPromises ==
  HookSpec => [](RowsStayInside /\ AcceptedSamplesInRange /\ OneVerdict /\ DrawnAsGL)
<1>1. HookInv => RowsStayInside /\ AcceptedSamplesInRange /\ OneVerdict /\ DrawnAsGL
  BY RowInside, SamplesInside, TranslatedIsDrawn DEF HookInv, Verdicts
<1> QED BY <1>1, HookInvAlways, PTL
================================================================================
