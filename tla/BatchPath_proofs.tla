--------------------------- MODULE BatchPath_proofs ---------------------------
(* For any words, window, display and number of trapezoids, whether a triangle    *)
(* was built into them or they lay in the shared ring: the rows the engine walks   *)
(* of an accepted batch are the rows the validator walked, none of their pixels    *)
(* lies outside the window or samples out of range, and the client's dry run has   *)
(* said all that the driver would say of a trapezoid.  For any WARP batch the      *)
(* driver takes, its box, its levels and its floats stay in range, and for any     *)
(* mesh, its triangles are drawn as they were given.  And for any states of GL:    *)
(* those the hook admits are drawn as GL has them, and taken by the driver.        *)
EXTENDS BatchPath, MesaState, WellFoundedInduction, FiniteSetTheorems, SequenceTheorems, TLAPS

-----------------------------------------------------------------------------
(* Numbers.                                                                  *)

\* A set of naturals has its least element.
LEMMA LeastNatural ==
  ASSUME NEW S \in SUBSET Nat, S # {}
  PROVE  Min(S) \in S
<1>1. IsWellFoundedOn(OpToRel(<, Nat), Nat)
  BY NatLessThanWellFounded
<1>2. PICK x \in S : \A y \in S : ~(<<y, x>> \in OpToRel(<, Nat))
  BY <1>1, WFMin
<1>3. \A y \in S : ~(y < x)
  BY <1>2 DEF OpToRel
<1>4. \A y \in S : x <= y
  BY <1>3
<1> QED BY <1>4 DEF Min

\* Division rounds towards minus infinity, and that fixes its result.
LEMMA DivisionIs ==
  ASSUME NEW x \in Int, NEW d \in Nat \ {0}
  PROVE  x \div d \in Int /\ x - (x \div d) * d \in 0..(d - 1)
OBVIOUS

LEMMA DivisionUnique ==
  ASSUME NEW x \in Int, NEW d \in Nat \ {0}, NEW q \in Int, x - q * d \in 0..(d - 1)
  PROVE  x \div d = q
OBVIOUS

\* A word that is in range stands for itself, and one whose quarter is what was
\* multiplied by four has not wrapped.
LEMMA WordStands ==
  ASSUME NEW x \in 0..WordMax
  PROVE  Word(x) = x
BY WordAssumption DEF Word

LEMMA WordNotWrapped ==
  ASSUME NEW p \in Nat, Word(4 * p) \div 4 = p
  PROVE  Word(4 * p) = 4 * p
<1> DEFINE w == Word(4 * p)
<1>1. w \in Nat /\ w <= 4 * p
  BY WordAssumption DEF Word
<1>2. w - p * 4 \in 0..3
  <2> HIDE DEF w
  <2>1. w - (w \div 4) * 4 \in 0..3
    BY <1>1
  <2> QED BY <2>1 DEF w
<1> QED BY <1>1, <1>2

\* A pixel of a surface lies before the end of its rows.
LEMMA PixelBeforeEnd ==
  ASSUME NEW P \in Nat, NEW H \in Nat, NEW x \in Nat, NEW y \in Nat, x < P, y < H
  PROVE  y * P + x + 1 <= H * P
<1>1. (y + 1) * P <= H * P
  OBVIOUS
<1>2. (y + 1) * P = y * P + P
  OBVIOUS
<1>3. y * P \in Int /\ H * P \in Int
  OBVIOUS
<1> QED BY <1>1, <1>2, <1>3

\* A set of integers with a bound has its least element, and its greatest.
LEMMA LeastOf ==
  ASSUME NEW N \in Int, NEW S \in SUBSET Int, S # {}, \A x \in S : N <= x
  PROVE  Min(S) \in S /\ \A x \in S : Min(S) <= x
<1> DEFINE D == {x - N : x \in S}
<1>1. D \in SUBSET Nat /\ D # {}
  <2>1. \A x \in S : x \in Int /\ x - N \in Nat
    OBVIOUS
  <2> QED BY <2>1
<1>2. IsWellFoundedOn(OpToRel(<, Nat), Nat)
  BY NatLessThanWellFounded
<1>3. PICK d \in D : \A e \in D : ~(<<e, d>> \in OpToRel(<, Nat))
  <2> HIDE DEF D
  <2> QED BY <1>1, <1>2, WFMin
<1>4. \A e \in D : ~(e < d)
  <2> HIDE DEF D
  <2> QED BY <1>1, <1>3 DEF OpToRel
<1>5. PICK m \in S : d = m - N
  OBVIOUS
<1>6. \A x \in S : m <= x
  <2>1. TAKE x \in S
  <2>2. ~(x - N < m - N)
    BY <1>4, <1>5
  <2> QED BY <2>2
<1> HIDE DEF D
<1> QED BY <1>6 DEF Min

\* A nonempty set of integers with a bound has a greatest member.
LEMMA GreatestOf ==
  ASSUME NEW N \in Int, NEW S \in SUBSET Int, S # {}, \A x \in S : x <= N
  PROVE  Max(S) \in S /\ \A x \in S : x <= Max(S)
<1> DEFINE D == {-x : x \in S}
<1>1. D \in SUBSET Int /\ D # {} /\ -N \in Int /\ \A x \in D : -N <= x
  <2>1. \A x \in S : -x \in Int /\ -N <= -x
    OBVIOUS
  <2>2. D \subseteq Int /\ \A x \in D : -N <= x
    BY <2>1
  <2>3. D # {}
    OBVIOUS
  <2> QED BY <2>2, <2>3
<1>2. Min(D) \in D /\ \A x \in D : Min(D) <= x
  <2> HIDE DEF D
  <2>1. PICK M : M = -N
    OBVIOUS
  <2> QED BY <1>1, LeastOf
<1>3. PICK m \in S : Min(D) = -m
  BY <1>2
<1>4. \A x \in S : x <= m
  <2>1. TAKE x \in S
  <2>2. -m <= -x
    BY <1>2, <1>3
  <2> QED BY <2>2
<1> HIDE DEF D
<1> QED BY <1>4 DEF Max

\* What a line is at a place between two is no less than at one of them.
LEMMA LineBetween ==
  ASSUME NEW a \in Int, NEW b \in Int, NEW lo \in Int, NEW hi \in Int, NEW x \in lo..hi,
         a + b * lo >= 0, a + b * hi >= 0
  PROVE  a + b * x >= 0
<1>1. CASE b >= 0
  <2>1. b * lo <= b * x
    BY <1>1, SMTT(30)
  <2> QED BY <2>1
<1>2. CASE b < 0
  <2>1. b * hi <= b * x
    BY <1>2, SMTT(30)
  <2> QED BY <2>1
<1> QED BY <1>1, <1>2

\* What a plane is within a box is no less than at one of its corners.
HighAtCorners(a, b, c, xlo, xhi, ylo, yhi) ==
  \A p \in {xlo, xhi} \X {ylo, yhi} : a + b * p[1] + c * p[2] >= 0
LEMMA PlaneBetween ==
  ASSUME NEW a \in Int, NEW b \in Int, NEW c \in Int,
         NEW xlo \in Int, NEW xhi \in Int, NEW ylo \in Int, NEW yhi \in Int,
         NEW x \in xlo..xhi, NEW y \in ylo..yhi,
         HighAtCorners(a, b, c, xlo, xhi, ylo, yhi)
  PROVE  a + b * x + c * y >= 0
<1>1. \A u \in {xlo, xhi}, v \in {ylo, yhi} : a + b * u + c * v >= 0
  <2>1. TAKE u \in {xlo, xhi}, v \in {ylo, yhi}
  <2>2. <<u, v>> \in {xlo, xhi} \X {ylo, yhi}
    OBVIOUS
  <2> QED BY <2>2 DEF HighAtCorners
<1>2. ASSUME NEW v \in {ylo, yhi} PROVE a + b * x + c * v >= 0
  <2>1. PICK A \in Int : A = a + c * v
    OBVIOUS
  <2>2. A + b * xlo >= 0 /\ A + b * xhi >= 0
    <3>1. a + b * xlo + c * v >= 0 /\ a + b * xhi + c * v >= 0
      BY <1>1
    <3> QED BY <2>1, <3>1
  <2>3. A + b * x >= 0
    BY <2>1, <2>2, LineBetween
  <2> QED BY <2>1, <2>3
<1>3. PICK A \in Int : A = a + b * x
  OBVIOUS
<1>4. A + c * ylo >= 0 /\ A + c * yhi >= 0
  BY <1>2, <1>3
<1>5. A + c * y >= 0
  BY <1>3, <1>4, LineBetween
<1> QED BY <1>3, <1>5

\* The constants of a coordinate.
SpanUnits == Span \div QOne
RangeUnits == CoordMax \div QOne
LEMMA UnitsTyped == SpanUnits \in Int /\ RangeUnits \in Int /\ QMin \in Int /\ QMax \in Int
  /\ QOne \in Int /\ CoordMax \in Nat
BY CoordAssumption DEF SpanUnits, RangeUnits, CoordMax

\* Powers of two, as a name.
Power(k) == 2^k

\* Each is larger than the one before.
LEMMA PowersGrow ==
  ASSUME NEW k \in 0..30
  PROVE  Power(k) \in Nat /\ (k = 0 \/ Power(k - 1) < Power(k))
<1>1. /\ Power(0) = 1 /\ Power(1) = 2 /\ Power(2) = 4 /\ Power(3) = 8
      /\ Power(4) = 16 /\ Power(5) = 32 /\ Power(6) = 64 /\ Power(7) = 128
      /\ Power(8) = 256 /\ Power(9) = 512 /\ Power(10) = 1024 /\ Power(11) = 2048
      /\ Power(12) = 4096 /\ Power(13) = 8192 /\ Power(14) = 16384 /\ Power(15) = 32768
      /\ Power(16) = 65536 /\ Power(17) = 131072 /\ Power(18) = 262144 /\ Power(19) = 524288
      /\ Power(20) = 1048576 /\ Power(21) = 2097152 /\ Power(22) = 4194304 /\ Power(23) = 8388608
      /\ Power(24) = 16777216 /\ Power(25) = 33554432 /\ Power(26) = 67108864 /\ Power(27) = 134217728
      /\ Power(28) = 268435456 /\ Power(29) = 536870912 /\ Power(30) = 1073741824
  BY DEF Power
<1>2. \/ k = 0 \/ k = 1 \/ k = 2 \/ k = 3 \/ k = 4 \/ k = 5 \/ k = 6 \/ k = 7
      \/ k = 8 \/ k = 9 \/ k = 10 \/ k = 11 \/ k = 12 \/ k = 13 \/ k = 14 \/ k = 15
      \/ k = 16 \/ k = 17 \/ k = 18 \/ k = 19 \/ k = 20 \/ k = 21 \/ k = 22 \/ k = 23
      \/ k = 24 \/ k = 25 \/ k = 26 \/ k = 27 \/ k = 28 \/ k = 29 \/ k = 30
  OBVIOUS
<1> QED
  BY <1>1, <1>2

-----------------------------------------------------------------------------
(* Verdicts.                                                                 *)

\* When no refusal is named none of the tests was true.
LEMMA NoRefusal ==
  ASSUME NEW n \in Nat, NEW tests, DOMAIN tests = 1..n,
         \A i \in 1..n : tests[i][1] => tests[i][2] # "OK",
         FirstRefusal(tests) = "OK"
  PROVE  \A i \in 1..n : ~tests[i][1]
<1> DEFINE failed == {i \in DOMAIN tests : tests[i][1]}
<1>1. SUFFICES ASSUME failed # {} PROVE FALSE
  OBVIOUS
<1>2. Min(failed) \in failed
  BY <1>1, LeastNatural
<1>3. FirstRefusal(tests) = tests[Min(failed)][2]
  BY <1>1 DEF FirstRefusal
<1> HIDE DEF failed
<1> QED BY <1>2, <1>3 DEF failed

\* A refusal is the name beside a test that is true.
LEMMA RefusalIs ==
  ASSUME NEW n \in Nat, NEW tests, DOMAIN tests = 1..n
  PROVE  \/ FirstRefusal(tests) = "OK"
         \/ \E i \in 1..n : tests[i][1] /\ FirstRefusal(tests) = tests[i][2]
<1> DEFINE failed == {i \in DOMAIN tests : tests[i][1]}
<1>1. CASE failed = {}
  BY <1>1 DEF FirstRefusal
<1>2. CASE failed # {}
  <2>1. Min(failed) \in failed
    <3>1. failed \in SUBSET Nat
      OBVIOUS
    <3> HIDE DEF failed
    <3> QED BY <1>2, <3>1, LeastNatural
  <2>2. FirstRefusal(tests) = tests[Min(failed)][2]
    BY <1>2 DEF FirstRefusal
  <2> HIDE DEF failed
  <2> QED BY <2>1, <2>2 DEF failed
<1> QED BY <1>1, <1>2
-----------------------------------------------------------------------------
(* The validator.                                                            *)

\* What a trapezoid that is not refused for its geometry promises.
GeometryHolds(t, lim) ==
  /\ t.y >= 0 /\ t.h > 0 /\ t.h <= lim.clipY1 + 1 - t.y
  /\ t.ar0 > 0 /\ t.ar6 > 0 /\ t.ar2 <= 0 /\ t.ar5 <= 0
  /\ t.left <= lim.clipX1 + 1 /\ t.right <= lim.clipX1 + 1 /\ t.left <= t.right
  /\ t.sgn \subseteq {"left", "right"}

\* What a trapezoid's rows and edge registers keep when the validator's geometry passes.
LEMMA GeometryAccepted ==
  ASSUME NEW t, IsTri(t), NEW lim, lim.clipX1 \in Int, lim.clipY1 \in Int,
         Geometry(t, lim) = "OK"
  PROVE  GeometryHolds(t, lim)
<1> DEFINE tests == <<
    <<PrimState(t.prim) # "OK", PrimState(t.prim)>>,
    <<RowOffScreen(t, lim), "TRIROW">>,
    <<\E a \in {t.ar1, t.ar2, t.ar4, t.ar5} : Abs(a) > EdgeWalk, "TRISLOPE">>,
    <<t.ar0 <= 0 \/ t.ar6 <= 0, "EDGEDIV">>,
    <<~FieldsFit(t), "TRIFIELD">>,
    <<t.ar2 > 0 \/ t.ar5 > 0, "TRISLOPE">>,
    <<t.left > lim.clipX1 + 1 \/ t.right > lim.clipX1 + 1 \/ t.left > t.right, "TRICOL">>,
    <<~(t.sgn \subseteq {"left", "right"}), "TRISGN">> >>
<1>1. DOMAIN tests = 1..8 /\ \A i \in 1..8 : tests[i][1] => tests[i][2] # "OK"
  <2>1. DOMAIN tests = 1..8
    OBVIOUS
  <2>2. tests[1][1] => tests[1][2] # "OK"
    OBVIOUS
  <2>3. \A i \in 2..8 : tests[i][2] # "OK"
    OBVIOUS
  <2> HIDE DEF tests
  <2> QED BY <2>1, <2>2, <2>3
<1>2. FirstRefusal(tests) = "OK"
  BY DEF Geometry
<1>3. \A i \in 1..8 : ~tests[i][1]
  <2> HIDE DEF tests
  <2> QED BY <1>1, <1>2, NoRefusal
<1>4. /\ ~RowOffScreen(t, lim) /\ ~(t.ar0 <= 0 \/ t.ar6 <= 0) /\ ~(t.ar2 > 0 \/ t.ar5 > 0)
      /\ ~(t.left > lim.clipX1 + 1 \/ t.right > lim.clipX1 + 1 \/ t.left > t.right)
      /\ t.sgn \subseteq {"left", "right"}
  <2>1. /\ ~tests[2][1] /\ ~tests[4][1] /\ ~tests[6][1] /\ ~tests[7][1] /\ ~tests[8][1]
    BY <1>3
  <2> QED BY <2>1
<1>5. /\ {t.y, t.h, t.ar0, t.ar1, t.ar2, t.ar4, t.ar5, t.ar6} \subseteq Int
      /\ {t.left, t.right} \subseteq Nat
  BY DEF IsTri
<1> QED BY <1>4, <1>5 DEF RowOffScreen, GeometryHolds

\* What a surface that is not refused promises: its rows, and the rows of its depth
\* where a primitive has one, lie in the window.
SurfaceHolds(st, deep) ==
  /\ st.dstWidth <= st.dstPitch
  /\ st.dstorg >= Window.start /\ st.dstorg + st.dstHeight * (4 * st.dstPitch) <= Window.end
  /\ deep => /\ st.zorg >= Window.start
             /\ st.zorg + st.dstHeight * (2 * st.dstPitch) <= Window.end

\* What the shared words keep when StateCommon passes: the surface, and the depth rows,
\* lie in the window.
LEMMA SurfaceAccepted ==
  ASSUME NEW st, IsState(st), NEW deep \in BOOLEAN, NEW textured \in BOOLEAN,
         StateCommon(st, 0, Limits(st, Window), deep, textured) = "OK"
  PROVE  SurfaceHolds(st, deep)
<1> DEFINE lim == Limits(st, Window)
           rows == Word(lim.clipY1 + 1)
           tex == TextureState(st, 0, lim.tex)
           tests == <<
             <<st.dstPitch = 0 \/ st.dstWidth > st.dstPitch
                 \/ lim.pitchBytes \div 4 # st.dstPitch, "DSTPITCH">>,
             <<~Aligned(st.dstPitch, "pitch"), "DSTPITCH">>,
             <<~Aligned(st.dstorg, "dst"), "DSTORGAL">>,
             <<~Reach(st.dstorg, rows, lim.pitchBytes, lim.colour), "DSTORG">>,
             <<deep /\ ~Aligned(st.zorg, "z"), "ZORGAL">>,
             <<deep /\ ~Reach(st.zorg, rows, (lim.pitchBytes \div 4) * 2, lim.depth), "ZORG">>,
             <<textured /\ tex # "OK", tex>> >>
<1>0. FirstRefusal(tests) = "OK"
  BY DEF StateCommon
<1> HIDE DEF lim, rows, tex
<1>1. DOMAIN tests = 1..7 /\ \A i \in 1..7 : tests[i][1] => tests[i][2] # "OK"
  <2>1. DOMAIN tests = 1..7
    OBVIOUS
  <2>2. tests[7][1] => tests[7][2] # "OK"
    OBVIOUS
  <2>3. \A i \in 1..6 : tests[i][2] # "OK"
    OBVIOUS
  <2> HIDE DEF tests
  <2> QED BY <2>1, <2>2, <2>3
<1>2. \A i \in 1..7 : ~tests[i][1]
  <2> HIDE DEF tests
  <2> QED BY <1>0, <1>1, NoRefusal
<1>3. ~tests[1][1] /\ ~tests[4][1] /\ ~tests[6][1]
  BY <1>2
<1>4. /\ ~(st.dstPitch = 0 \/ st.dstWidth > st.dstPitch \/ lim.pitchBytes \div 4 # st.dstPitch)
      /\ Reach(st.dstorg, rows, lim.pitchBytes, lim.colour)
      /\ deep => Reach(st.zorg, rows, (lim.pitchBytes \div 4) * 2, lim.depth)
  BY <1>3
<1>5. lim.pitchBytes = Word(4 * st.dstPitch) /\ lim.colour = Window /\ lim.depth = Window
      /\ lim.clipY1 = st.dstHeight - 1
  BY DEF lim, Limits
<1>6. /\ st.dstorg \in Nat /\ st.zorg \in Nat /\ st.dstWidth \in Nat /\ st.dstPitch \in Nat
      /\ st.dstHeight \in 0..WordMax
  BY WordAssumption DEF IsState
<1>7. rows = st.dstHeight
  BY <1>5, <1>6, WordStands, WordAssumption DEF rows
<1>8. lim.pitchBytes = 4 * st.dstPitch
  BY <1>4, <1>5, <1>6, WordNotWrapped
<1>9. (lim.pitchBytes \div 4) * 2 = 2 * st.dstPitch
  BY <1>4, <1>6
<1>10. Window.start \in Int /\ Window.end \in Int
  BY WindowAssumption, WordAssumption
<1>11. st.dstHeight * (4 * st.dstPitch) \in Int /\ st.dstHeight * (2 * st.dstPitch) \in Int
  BY <1>6, WordAssumption
<1>12. /\ st.dstorg \in Window.start..(Window.end - 1)
       /\ st.dstHeight * (4 * st.dstPitch) <= Window.end - st.dstorg
  BY <1>4, <1>5, <1>7, <1>8 DEF Reach
<1>13. deep => /\ st.zorg \in Window.start..(Window.end - 1)
               /\ st.dstHeight * (2 * st.dstPitch) <= Window.end - st.zorg
  BY <1>4, <1>5, <1>7, <1>9 DEF Reach
<1> QED BY <1>4, <1>6, <1>10, <1>11, <1>12, <1>13 DEF SurfaceHolds

\* An accepted batch: its surface, and every trapezoid's geometry and rows.
BatchHolds(st, tris) ==
  /\ SurfaceHolds(st, \E i \in DOMAIN tris : AddressesDepth(tris[i].prim))
  /\ \A i \in DOMAIN tris : /\ GeometryHolds(tris[i], Limits(st, Window))
                            /\ ~EdgesCross(tris[i], Limits(st, Window))
IsTris(tris) ==
  tris \in Seq(Range(tris)) /\ \A i \in DOMAIN tris : IsTri(tris[i])

\* The verdict on one trapezoid ends with its geometry.
LEMMA TriAccepted ==
  ASSUME NEW st, NEW t, NEW lim, NEW late, TriVerdict(st, t, lim, late) = "OK"
  PROVE  Geometry(t, lim) = "OK" /\ ~EdgesCross(t, lim)
<1>1. Geometry(t, lim) = "OK"
  BY DEF TriVerdict
<1>2. ASSUME EdgesCross(t, lim) PROVE FALSE
  BY <1>1, <1>2 DEF TriVerdict
<1> QED BY <1>1, <1>2

\* An accepted batch: its surface lies in the window, and its trapezoids lie on it.
LEMMA BatchAccepted ==
  ASSUME NEW st, IsState(st), NEW tris, IsTris(tris),
         Validate(st, tris, Limits(st, Window), TRUE) = "OK"
  PROVE  BatchHolds(st, tris)
<1> DEFINE lim == Limits(st, Window)
           deep == \E i \in DOMAIN tris : AddressesDepth(tris[i].prim)
           textured == \E i \in DOMAIN tris : Textured(tris[i])
           common == StateCommon(st, 0, lim, deep, textured)
           Strays(i) == Textured(tris[i]) /\ TriVerdict(st, tris[i], lim, FALSE) = "OK"
                        /\ ~CoordinatesOK(st, tris[i], TRUE)
           Late(i) == \E j \in 1..(i - 1) : Strays(j)
           bad == {i \in DOMAIN tris : TriVerdict(st, tris[i], lim, Late(i)) # "OK"}
           rest == IF bad # {} THEN TriVerdict(st, tris[Min(bad)], lim, Late(Min(bad)))
                   ELSE IF Late(Len(tris) + 1) THEN "TEXCOORD" ELSE "OK"
<1>1. Validate(st, tris, lim, TRUE) =
        IF Len(tris) > MaxTris THEN "COUNT" ELSE IF common # "OK" THEN common ELSE rest
  BY Zenon DEF Validate
<1>2. common = "OK" /\ rest = "OK"
  <2> HIDE DEF common, rest, lim
  <2>1. Validate(st, tris, lim, TRUE) = "OK"
    BY DEF lim
  <2> QED BY <1>1, <2>1
<1>3. SurfaceHolds(st, deep)
  BY <1>2, SurfaceAccepted
<1>4. bad = {}
  <2>1. SUFFICES ASSUME bad # {} PROVE FALSE
    OBVIOUS
  <2>2. Min(bad) \in bad
    <3>1. bad \in SUBSET Nat
      <4> HIDE DEF Late, lim
      <4>1. bad \subseteq DOMAIN tris
        OBVIOUS
      <4>2. DOMAIN tris \subseteq Nat
        BY DEF IsTris
      <4> QED BY <4>1, <4>2
    <3> HIDE DEF bad
    <3> QED BY <2>1, <3>1, LeastNatural
  <2>3. TriVerdict(st, tris[Min(bad)], lim, Late(Min(bad))) = "OK"
    <3> HIDE DEF bad, Late, lim
    <3> QED BY <1>2, <2>1 DEF rest
  <2> HIDE DEF lim, Late
  <2> QED BY <2>2, <2>3
<1>5. lim.clipX1 \in Int /\ lim.clipY1 \in Int
  BY WordAssumption DEF IsState, Limits
<1>6. ASSUME NEW i \in DOMAIN tris
      PROVE  GeometryHolds(tris[i], lim) /\ ~EdgesCross(tris[i], lim)
  <2> HIDE DEF lim, Late
  <2>1. TriVerdict(st, tris[i], lim, Late(i)) = "OK"
    BY <1>4
  <2>2. Geometry(tris[i], lim) = "OK" /\ ~EdgesCross(tris[i], lim)
    BY <2>1, TriAccepted
  <2> QED BY <2>2, <1>5, GeometryAccepted DEF IsTris
<1> QED BY <1>3, <1>6 DEF BatchHolds
-----------------------------------------------------------------------------
(* The engine's walk.                                                        *)

\* What the error of an edge comes to before row k, in closed form.
ErrorAt(error, slope, div, k) == error - slope + k * slope + Columns(error, slope, div, k) * div

\* The closed form of an edge is a number.
LEMMA ColumnsInt ==
  ASSUME NEW error \in Int, NEW slope \in Int, NEW div \in Nat \ {0}, NEW k \in Nat
  PROVE  Columns(error, slope, div, k) \in Int
BY DivisionIs DEF Columns

\* The sum of the engine's steps is the validator's closed form: one step takes the
\* slope and the columns the error is short of, and the next row's count is that.
LEMMA ColumnsStep ==
  ASSUME NEW error \in Int, NEW slope \in Int, slope <= 0, NEW div \in Nat \ {0}, NEW k \in Nat,
         NEW acc, acc = ErrorAt(error, slope, div, k) + slope
  PROVE  /\ Columns(error, slope, div, k + 1) =
              Columns(error, slope, div, k) + ShortBy(acc, div)
         /\ ErrorAt(error, slope, div, k + 1) = acc + ShortBy(acc, div) * div
<1> DEFINE C == Columns(error, slope, div, k)
           D == Columns(error, slope, div, k + 1)
           z == error - slope + k * slope
           n == error - slope + (k + 1) * slope
<1>1. z \in Int /\ n \in Int /\ n = z + slope /\ C \in Int /\ D \in Int /\ acc = n + C * div
  <2>1. C \in Int /\ D \in Int
    BY ColumnsInt
  <2>2. k * slope \in Int /\ (k + 1) * slope = k * slope + slope
    OBVIOUS
  <2>3. acc = z + C * div + slope
    BY DEF ErrorAt
  <2>4. C * div \in Int
    BY <2>1
  <2>5. z \in Int /\ n \in Int /\ n = z + slope
    BY <2>2
  <2> HIDE DEF C, D, z, n
  <2> QED BY <2>1, <2>3, <2>4, <2>5
<1>2. D = IF n >= 0 THEN 0 ELSE -(n \div div)
  BY DEF Columns
<1>3. k # 0 => C = IF z >= 0 THEN 0 ELSE -(z \div div)
  BY DEF Columns
<1>4. k = 0 => C = 0
  BY DEF Columns
<1>5. D = C + ShortBy(acc, div)
  <2> HIDE DEF C, D, z, n
  <2>1. CASE C = 0
    BY <1>1, <1>2, <2>1 DEF ShortBy
  <2>2. CASE C # 0
    <3>1. z < 0 /\ C = -(z \div div)
      BY <1>1, <1>3, <1>4, <2>2
    <3>2. z + C * div \in 0..(div - 1)
      <4>1. z - (z \div div) * div \in 0..(div - 1) /\ z \div div \in Int
        BY <1>1, DivisionIs
      <4> DEFINE q == z \div div
      <4> HIDE DEF q
      <4>2. C = -q /\ z - q * div \in 0..(div - 1) /\ q \in Int
        BY <3>1, <4>1 DEF q
      <4> QED BY <1>1, <4>2
    <3>3. n < 0 /\ acc < div /\ acc \in Int
      BY <1>1, <3>1, <3>2
    <3>4. CASE acc >= 0
      <4> DEFINE q == -C
      <4>0. q \in Int
        BY <1>1
      <4>1. n - q * div \in 0..(div - 1)
        BY <1>1, <3>3, <3>4
      <4> HIDE DEF q
      <4>2. n \div div = q
        BY <1>1, <4>0, <4>1, DivisionUnique
      <4> USE DEF q
      <4> QED BY <1>1, <1>2, <3>3, <3>4, <4>2 DEF ShortBy
    <3>5. CASE acc < 0
      <4> DEFINE q == acc \div div
      <4>1. q \in Int /\ acc - q * div \in 0..(div - 1)
        BY <3>3, DivisionIs
      <4> HIDE DEF q
      <4>2. n - (q - C) * div \in 0..(div - 1)
        <5>1. n - (q - C) * div = acc - q * div
          BY <1>1, <4>1
        <5> QED BY <5>1, <4>1
      <4> DEFINE m == q - C
      <4>3. m \in Int /\ n - m * div \in 0..(div - 1)
        BY <1>1, <4>1, <4>2
      <4> HIDE DEF m
      <4>4. n \div div = m
        BY <1>1, <4>3, DivisionUnique
      <4> QED BY <1>1, <1>2, <3>3, <3>5, <4>1, <4>4 DEF ShortBy, q, m
    <3> QED BY <3>3, <3>4, <3>5
  <2> QED BY <2>1, <2>2
<1>6. ShortBy(acc, div) \in Int
  BY <1>1, DivisionIs DEF ShortBy
<1>7. ErrorAt(error, slope, div, k + 1) = n + D * div
  BY DEF ErrorAt
<1> HIDE DEF C, D, n, z
<1>8. (C + ShortBy(acc, div)) * div = C * div + ShortBy(acc, div) * div
  BY <1>1, <1>6
<1> QED BY <1>1, <1>5, <1>6, <1>7, <1>8 DEF C, D
-----------------------------------------------------------------------------
(* The client's dry run and the kernel's verdict.                            *)

\* What is refused for the surface or the destination names no trapezoid.
LEMMA TextureNames ==
  ASSUME NEW st, NEW mips, NEW win
  PROVE  TextureState(st, mips, win) \in {"OK", "TEXSIZE", "TEXORGAL", "TEXORG"}
<1> DEFINE rows == IF st.minmode # 0 /\ mips = 0 THEN Word(2 * st.texH) ELSE st.texH
           sized == st.texW \notin 1..MaxDim \/ st.texH \notin 1..MaxDim
                      \/ st.texPitch \notin st.texW..MaxPitch
           biased == ~st.tw32 \/ st.biasU > Len(Ladder) \/ st.biasV > Len(Ladder)
           known == st.minmode \notin MinModes \cup {0}
           aligned == ~Aligned(st.texorg, "tex")
           reached == ~Reach(st.texorg, rows, Word(4 * st.texPitch), win)
           tests == << <<sized, "TEXSIZE">>, <<biased, "TEXSIZE">>, <<known, "TEXSIZE">>,
                       <<aligned, "TEXORGAL">>, <<reached, "TEXORG">> >>
<1>1. TextureState(st, mips, win) = FirstRefusal(tests)
  BY DEF TextureState
<1> HIDE DEF rows, sized, biased, known, aligned, reached
<1>2. DOMAIN tests = 1..5 /\ \A i \in 1..5 : tests[i][2] \in {"TEXSIZE", "TEXORGAL", "TEXORG"}
  OBVIOUS
<1> HIDE DEF tests
<1> QED BY <1>1, <1>2, RefusalIs

\* No refusal of the shared words names a trapezoid.
LEMMA StateNames ==
  ASSUME NEW st, NEW mips, NEW lim, NEW deep, NEW textured
  PROVE  ~NamesTriangle(StateCommon(st, mips, lim, deep, textured))
<1> DEFINE rows == Word(lim.clipY1 + 1)
           tex == TextureState(st, mips, lim.tex)
           a == st.dstPitch = 0 \/ st.dstWidth > st.dstPitch \/ lim.pitchBytes \div 4 # st.dstPitch
           b == ~Aligned(st.dstPitch, "pitch")
           c == ~Aligned(st.dstorg, "dst")
           d == ~Reach(st.dstorg, rows, lim.pitchBytes, lim.colour)
           e == deep /\ ~Aligned(st.zorg, "z")
           f == deep /\ ~Reach(st.zorg, rows, (lim.pitchBytes \div 4) * 2, lim.depth)
           g == textured /\ tex # "OK"
           tests == << <<a, "DSTPITCH">>, <<b, "DSTPITCH">>, <<c, "DSTORGAL">>, <<d, "DSTORG">>,
                       <<e, "ZORGAL">>, <<f, "ZORG">>, <<g, tex>> >>
<1>1. StateCommon(st, mips, lim, deep, textured) = FirstRefusal(tests)
  BY DEF StateCommon
<1>2. tex \in {"OK", "TEXSIZE", "TEXORGAL", "TEXORG"}
  BY TextureNames
<1> HIDE DEF rows, tex, a, b, c, d, e, f, g
<1>3. /\ DOMAIN tests = 1..7
      /\ \A i \in 1..7 : tests[i][2] \in {"OK", "TEXSIZE", "TEXORGAL", "TEXORG", "DSTPITCH",
                                          "DSTORGAL", "DSTORG", "ZORGAL", "ZORG"}
  BY <1>2
<1> HIDE DEF tests
<1>4. FirstRefusal(tests) \in {"OK", "TEXSIZE", "TEXORGAL", "TEXORG", "DSTPITCH",
                               "DSTORGAL", "DSTORG", "ZORGAL", "ZORG"}
  BY <1>3, RefusalIs
<1> QED BY <1>1, <1>4 DEF NamesTriangle

\* Nor does a refusal of the destination.
LEMMA DestinationNames ==
  ASSUME NEW st
  PROVE  ~NamesTriangle(Destination(st, FALSE))
<1> DEFINE avail == Window.end - st.dstorg
           row == Word(4 * st.dstPitch)
           a == st.dstWidth = 0 \/ st.dstHeight = 0 \/ st.dstPitch = 0
           b == st.dstorg \notin Window.start..(Window.end - 1)
           c == Word(4 * st.dstWidth) > avail
           d == row = 0
           e == row # 0 /\ st.dstHeight - 1 > (avail - Word(4 * st.dstWidth)) \div row
           tests == << <<a, "DSTSIZE">>, <<b, "DSTORG">>, <<c, "DSTSIZE">>, <<d, "UNDEFINED">>,
                       <<e, "DSTSIZE">> >>
<1>1. DestFits(st, Window) = FirstRefusal(tests)
  BY DEF DestFits
<1> HIDE DEF avail, row, a, b, c, d, e
<1>2. DOMAIN tests = 1..5 /\ \A i \in 1..5 : tests[i][2] \in {"DSTSIZE", "DSTORG", "UNDEFINED"}
  OBVIOUS
<1> HIDE DEF tests
<1>3. DestFits(st, Window) \in {"OK", "DSTSIZE", "DSTORG", "UNDEFINED"}
  BY <1>1, <1>2, RefusalIs
<1>4. Destination(st, FALSE) \in {"DSTPITCH", "OK", "DSTSIZE", "DSTORG", "UNDEFINED"}
  BY <1>3 DEF Destination
<1> QED BY <1>4 DEF NamesTriangle

\* What lies in the driver's window lies in the client's, which is all a word can say.
LEMMA ReachWidens ==
  ASSUME NEW org, NEW rows \in Nat, NEW stride \in Nat, Reach(org, rows, stride, Window)
  PROVE  Reach(org, rows, stride, [start |-> 0, end |-> WordMax])
<1>1. /\ Window.start \in Int /\ Window.end \in Int /\ Window.start >= 0 /\ Window.end <= WordMax
      /\ WordMax \in Int
  BY WindowAssumption, WordAssumption
<1>2. org \in Window.start..(Window.end - 1) /\ rows * stride <= Window.end - org
      /\ (stride # 0 => rows <= WordMax \div stride)
  BY DEF Reach
<1>3. PICK s \in Int : s = rows * stride
  OBVIOUS
<1>4. org \in 0..(WordMax - 1) /\ s <= WordMax - org
  BY <1>1, <1>2, <1>3
<1> QED BY <1>2, <1>3, <1>4 DEF Reach

\* A texture inside the window is inside the widest one, so the client, which asks with
\* the widest, hears no more refusals than the driver gives.
LEMMA TextureWidens ==
  ASSUME NEW st, TextureState(st, 0, Window) = "OK"
  PROVE  TextureState(st, 0, [start |-> 0, end |-> WordMax]) = "OK"
<1> DEFINE wide == [start |-> 0, end |-> WordMax]
           rows == IF st.minmode # 0 /\ 0 = 0 THEN Word(2 * st.texH) ELSE st.texH
           sized == st.texW \notin 1..MaxDim \/ st.texH \notin 1..MaxDim
                      \/ st.texPitch \notin st.texW..MaxPitch
           biased == ~st.tw32 \/ st.biasU > Len(Ladder) \/ st.biasV > Len(Ladder)
           known == st.minmode \notin MinModes \cup {0}
           aligned == ~Aligned(st.texorg, "tex")
           reached(win) == ~Reach(st.texorg, rows, Word(4 * st.texPitch), win)
           tests(win) == << <<sized, "TEXSIZE">>, <<biased, "TEXSIZE">>, <<known, "TEXSIZE">>,
                            <<aligned, "TEXORGAL">>, <<reached(win), "TEXORG">> >>
<1>1. /\ TextureState(st, 0, Window) = FirstRefusal(tests(Window))
      /\ TextureState(st, 0, wide) = FirstRefusal(tests(wide))
  BY DEF TextureState
<1>2. ~sized /\ ~biased /\ ~known /\ ~aligned /\ ~reached(Window)
  <2> HIDE DEF rows, sized, biased, known, aligned, reached
  <2>1. DOMAIN tests(Window) = 1..5 /\ \A i \in 1..5 : tests(Window)[i][2] # "OK"
    OBVIOUS
  <2>2. \A i \in 1..5 : ~tests(Window)[i][1]
    <3> HIDE DEF tests
    <3> QED BY <1>1, <2>1, NoRefusal
  <2>3. /\ ~tests(Window)[1][1] /\ ~tests(Window)[2][1] /\ ~tests(Window)[3][1]
        /\ ~tests(Window)[4][1] /\ ~tests(Window)[5][1]
    BY <2>2
  <2> QED BY <2>3
<1>3. rows \in Nat /\ Word(4 * st.texPitch) \in Nat
  <2>1. st.texH \in Nat /\ st.texPitch \in Nat
    BY <1>2, TexAssumption
  <2> QED BY <2>1, WordAssumption DEF Word
<1>4. ~reached(wide)
  <2> HIDE DEF rows
  <2> QED BY <1>2, <1>3, ReachWidens
<1>5. FirstRefusal(tests(wide)) = "OK"
  <2> HIDE DEF rows, sized, biased, known, aligned, reached, wide
  <2>1. DOMAIN tests(wide) = 1..5 /\ \A i \in 1..5 : ~tests(wide)[i][1]
    BY <1>2, <1>4
  <2> HIDE DEF tests
  <2>2. {i \in DOMAIN tests(wide) : tests(wide)[i][1]} = {}
    BY <2>1
  <2> QED BY <2>2 DEF FirstRefusal
<1> QED BY <1>1, <1>5

\* A destination that fits has an area.
LEMMA DestinationAccepted ==
  ASSUME NEW st, DestFits(st, Window) = "OK"
  PROVE  st.dstWidth # 0 /\ st.dstHeight # 0
<1> DEFINE avail == Window.end - st.dstorg
           row == Word(4 * st.dstPitch)
           tests == <<
             <<st.dstWidth = 0 \/ st.dstHeight = 0 \/ st.dstPitch = 0, "DSTSIZE">>,
             <<st.dstorg \notin Window.start..(Window.end - 1), "DSTORG">>,
             <<Word(4 * st.dstWidth) > avail, "DSTSIZE">>,
             <<row = 0, "UNDEFINED">>,
             <<row # 0 /\ st.dstHeight - 1 > (avail - Word(4 * st.dstWidth)) \div row, "DSTSIZE">> >>
<1>1. FirstRefusal(tests) = "OK"
  BY DEF DestFits
<1> HIDE DEF avail, row
<1>2. DOMAIN tests = 1..5 /\ \A i \in 1..5 : tests[i][2] # "OK"
  OBVIOUS
<1>3. ~tests[1][1]
  <2> HIDE DEF tests
  <2>1. \A i \in 1..5 : ~tests[i][1]
    BY <1>1, <1>2, NoRefusal
  <2> QED BY <2>1
<1> QED BY <1>3

\* The parts of the validator's answer, by name.
CommonOf(st, tris, lim) ==
  StateCommon(st, 0, lim, \E i \in DOMAIN tris : AddressesDepth(tris[i].prim),
              \E i \in DOMAIN tris : Textured(tris[i]))
StraysAt(st, tris, lim, asked, i) ==
  Textured(tris[i]) /\ TriVerdict(st, tris[i], lim, FALSE) = "OK"
  /\ ~CoordinatesOK(st, tris[i], asked)
LateAt(st, tris, lim, asked, i) == \E j \in 1..(i - 1) : StraysAt(st, tris, lim, asked, j)
BadOf(st, tris, lim, asked) ==
  {i \in DOMAIN tris : TriVerdict(st, tris[i], lim, LateAt(st, tris, lim, asked, i)) # "OK"}
TrisVerdict(st, tris, lim, asked) ==
  IF BadOf(st, tris, lim, asked) # {}
  THEN TriVerdict(st, tris[Min(BadOf(st, tris, lim, asked))], lim,
                  LateAt(st, tris, lim, asked, Min(BadOf(st, tris, lim, asked))))
  ELSE IF LateAt(st, tris, lim, asked, Len(tris) + 1) THEN "TEXCOORD" ELSE "OK"

\* The validator's answer is that on the count, the shared words, or the first bad
\* trapezoid.
LEMMA ValidateIs ==
  ASSUME NEW st, NEW tris, NEW lim, NEW asked
  PROVE  Validate(st, tris, lim, asked) =
           IF Len(tris) > MaxTris THEN "COUNT"
           ELSE IF CommonOf(st, tris, lim) # "OK" THEN CommonOf(st, tris, lim)
           ELSE TrisVerdict(st, tris, lim, asked)
BY Zenon DEF Validate, CommonOf, StraysAt, LateAt, BadOf, TrisVerdict

\* A trapezoid is held against the extent of the surface and nothing else of the limits.
LEMMA SameExtent ==
  ASSUME NEW st, NEW t, NEW lim, NEW wide, NEW late,
         lim.clipX1 = wide.clipX1, lim.clipY1 = wide.clipY1
  PROVE  TriVerdict(st, t, lim, late) = TriVerdict(st, t, wide, late)
<1>1. RowOffScreen(t, lim) = RowOffScreen(t, wide)
  BY DEF RowOffScreen
<1>2. Geometry(t, lim) = Geometry(t, wide)
  BY <1>1, Zenon DEF Geometry
<1>3. EdgesCross(t, lim) = EdgesCross(t, wide)
  BY DEF EdgesCross
<1> QED BY <1>2, <1>3 DEF TriVerdict

\* The verdict on the trapezoids reads of the limits only the extent.
LEMMA SameTris ==
  ASSUME NEW st, NEW tris, NEW lim, NEW wide, NEW asked,
         lim.clipX1 = wide.clipX1, lim.clipY1 = wide.clipY1
  PROVE  TrisVerdict(st, tris, lim, asked) = TrisVerdict(st, tris, wide, asked)
<1>1. \A t, late : TriVerdict(st, t, lim, late) = TriVerdict(st, t, wide, late)
  BY SameExtent
<1>2. \A i : StraysAt(st, tris, lim, asked, i) = StraysAt(st, tris, wide, asked, i)
  BY <1>1 DEF StraysAt
<1>3. \A i : LateAt(st, tris, lim, asked, i) = LateAt(st, tris, wide, asked, i)
  BY <1>2 DEF LateAt
<1>4. BadOf(st, tris, lim, asked) = BadOf(st, tris, wide, asked)
  BY <1>1, <1>3 DEF BadOf
<1> QED BY <1>1, <1>3, <1>4 DEF TrisVerdict

\* The fields of a state that a surface and a texture are made of, whoever built it.
WordsState(st) == {st.dstWidth, st.dstHeight, st.dstPitch} \subseteq 0..WordMax

\* What the kernel's windows admit, the client's open ones do.
LEMMA StateWidens ==
  ASSUME NEW st, WordsState(st), NEW deep, NEW textured,
         StateCommon(st, 0, Limits(st, Window), deep, textured) = "OK"
  PROVE  StateCommon(st, 0, LocalLimits(st), deep, textured) = "OK"
<1> DEFINE near == Limits(st, Window)
           far == LocalLimits(st)
           wide == [start |-> 0, end |-> WordMax]
           pitch == Word(4 * st.dstPitch)
           rows == Word(st.dstHeight - 1 + 1)
           tex(win) == TextureState(st, 0, win)
           narrow == st.dstPitch = 0 \/ st.dstWidth > st.dstPitch \/ pitch \div 4 # st.dstPitch
           offPitch == ~Aligned(st.dstPitch, "pitch")
           offDst == ~Aligned(st.dstorg, "dst")
           noDst(win) == ~Reach(st.dstorg, rows, pitch, win)
           offZ == deep /\ ~Aligned(st.zorg, "z")
           noZ(win) == deep /\ ~Reach(st.zorg, rows, (pitch \div 4) * 2, win)
           noTex(win) == textured /\ tex(win) # "OK"
           tests(win) == << <<narrow, "DSTPITCH">>, <<offPitch, "DSTPITCH">>,
                            <<offDst, "DSTORGAL">>, <<noDst(win), "DSTORG">>,
                            <<offZ, "ZORGAL">>, <<noZ(win), "ZORG">>, <<noTex(win), tex(win)>> >>
<1>1. /\ near.pitchBytes = pitch /\ near.clipY1 = st.dstHeight - 1
      /\ near.colour = Window /\ near.depth = Window /\ near.tex = Window
  BY DEF Limits
<1>2. /\ far.pitchBytes = pitch /\ far.clipY1 = st.dstHeight - 1
      /\ far.colour = wide /\ far.depth = wide /\ far.tex = wide
  BY DEF Limits, LocalLimits
<1>3. /\ StateCommon(st, 0, near, deep, textured) = FirstRefusal(tests(Window))
      /\ StateCommon(st, 0, far, deep, textured) = FirstRefusal(tests(wide))
  <2> DEFINE row(lim) == Word(lim.clipY1 + 1)
             part(lim) == lim.pitchBytes \div 4
             some(lim) == <<
               <<st.dstPitch = 0 \/ st.dstWidth > st.dstPitch \/ part(lim) # st.dstPitch, "DSTPITCH">>,
               <<offPitch, "DSTPITCH">>, <<offDst, "DSTORGAL">>,
               <<~Reach(st.dstorg, row(lim), lim.pitchBytes, lim.colour), "DSTORG">>,
               <<offZ, "ZORGAL">>,
               <<deep /\ ~Reach(st.zorg, row(lim), part(lim) * 2, lim.depth), "ZORG">>,
               <<textured /\ tex(lim.tex) # "OK", tex(lim.tex)>> >>
  <2>1. /\ StateCommon(st, 0, near, deep, textured) = FirstRefusal(some(near))
        /\ StateCommon(st, 0, far, deep, textured) = FirstRefusal(some(far))
    BY DEF StateCommon
  <2>2. row(near) = rows /\ row(far) = rows /\ part(near) = pitch \div 4 /\ part(far) = pitch \div 4
    <3> HIDE DEF near, far, wide, pitch
    <3> QED BY <1>1, <1>2
  <2>3. some(near) = tests(Window) /\ some(far) = tests(wide)
    <3> HIDE DEF near, far, wide, pitch, row, part, offPitch, offDst, offZ, tex, rows
    <3> QED BY <1>1, <1>2, <2>2
  <2> HIDE DEF near, far, wide, some, tests
  <2> QED BY <2>1, <2>3
<1>4. /\ ~narrow /\ ~offPitch /\ ~offDst /\ ~noDst(Window)
      /\ ~offZ /\ ~noZ(Window) /\ ~noTex(Window)
  <2>1. FirstRefusal(tests(Window)) = "OK"
    BY <1>3
  <2> HIDE DEF narrow, offPitch, offDst, noDst, offZ, noZ, tex
  <2>2. DOMAIN tests(Window) = 1..7
    OBVIOUS
  <2>3. \A i \in 1..7 : tests(Window)[i][1] => tests(Window)[i][2] # "OK"
    <3>1. tests(Window)[7][1] => tests(Window)[7][2] # "OK"
      OBVIOUS
    <3>2. \A i \in 1..6 : tests(Window)[i][2] # "OK"
      OBVIOUS
    <3> HIDE DEF tests
    <3> QED BY <3>1, <3>2
  <2>4. \A i \in 1..7 : ~tests(Window)[i][1]
    <3> HIDE DEF tests
    <3> QED BY <2>1, <2>2, <2>3, NoRefusal
  <2>5. /\ ~tests(Window)[1][1] /\ ~tests(Window)[2][1] /\ ~tests(Window)[3][1]
        /\ ~tests(Window)[4][1] /\ ~tests(Window)[5][1] /\ ~tests(Window)[6][1]
        /\ ~tests(Window)[7][1]
    BY <2>4
  <2> HIDE DEF noTex
  <2> QED BY <2>5
<1>5. pitch \in Nat /\ rows \in Nat /\ (pitch \div 4) * 2 \in Nat
  <2>1. st.dstPitch \in Nat /\ st.dstHeight \in Nat
    BY WordAssumption DEF WordsState
  <2>2. pitch \in Nat /\ rows \in Nat
    BY <2>1, WordAssumption DEF Word
  <2> HIDE DEF pitch
  <2> QED BY <2>2
<1>6. ~noDst(wide) /\ ~noZ(wide) /\ ~noTex(wide)
  <2> HIDE DEF pitch, rows
  <2> QED BY <1>4, <1>5, ReachWidens, TextureWidens
<1>7. FirstRefusal(tests(wide)) = "OK"
  <2> HIDE DEF narrow, offPitch, offDst, noDst, offZ, noZ, noTex, tex, wide
  <2>1. DOMAIN tests(wide) = 1..7 /\ \A i \in 1..7 : ~tests(wide)[i][1]
    BY <1>4, <1>6
  <2> HIDE DEF tests
  <2>2. {i \in DOMAIN tests(wide) : tests(wide)[i][1]} = {}
    BY <2>1
  <2> QED BY <2>2 DEF FirstRefusal
<1> QED BY <1>3, <1>7

\* What the client's dry run says of a batch: nothing when the surface has no extent.
DryRun(st, tris) ==
  IF st.dstWidth = 0 \/ st.dstHeight = 0 THEN "OK"
  ELSE Validate(st, tris, LocalLimits(st), TRUE)

\* A batch whose dry run names no trapezoid gets no verdict that names one.
LEMMA DryRunAnswers ==
  ASSUME NEW st, WordsState(st), NEW tris, DestFits(st, Window) = "OK",
         ~NamesTriangle(DryRun(st, tris))
  PROVE  ~NamesTriangle(Validate(st, tris, Limits(st, Window), TRUE))
<1> DEFINE near == Limits(st, Window)
           far == LocalLimits(st)
<1>1. /\ near.clipX1 = far.clipX1 /\ near.clipY1 = far.clipY1
  BY DEF Limits, LocalLimits
<1>2. ~NamesTriangle(Validate(st, tris, far, TRUE))
  BY DestinationAccepted DEF DryRun
<1> HIDE DEF near, far
<1>3. CASE Len(tris) > MaxTris
  <2>1. Validate(st, tris, near, TRUE) = "COUNT"
    BY <1>3, ValidateIs
  <2> QED BY <2>1 DEF NamesTriangle, near
<1>4. CASE ~(Len(tris) > MaxTris) /\ CommonOf(st, tris, near) # "OK"
  <2>1. Validate(st, tris, near, TRUE) = CommonOf(st, tris, near)
    BY <1>4, ValidateIs
  <2>2. ~NamesTriangle(CommonOf(st, tris, near))
    BY StateNames DEF CommonOf
  <2> QED BY <2>1, <2>2 DEF near
<1>5. CASE ~(Len(tris) > MaxTris) /\ CommonOf(st, tris, near) = "OK"
  <2>1. CommonOf(st, tris, far) = "OK"
    BY <1>5, StateWidens DEF CommonOf, near, far
  <2>2. /\ Validate(st, tris, near, TRUE) = TrisVerdict(st, tris, near, TRUE)
        /\ Validate(st, tris, far, TRUE) = TrisVerdict(st, tris, far, TRUE)
    BY <1>5, <2>1, ValidateIs
  <2>3. TrisVerdict(st, tris, near, TRUE) = TrisVerdict(st, tris, far, TRUE)
    BY <1>1, SameTris
  <2> QED BY <1>2, <2>2, <2>3 DEF near
<1> QED BY <1>3, <1>4, <1>5
-----------------------------------------------------------------------------
(* A trapezoid's coordinates.                                                *)

\* A plane scaled is the plane of the scaled terms.
LEMMA Distributes ==
  ASSUME NEW K \in Int, NEW a \in Int, NEW b \in Int, NEW c \in Int, NEW x \in Int, NEW y \in Int
  PROVE  (a + b * x + c * y) * K = a * K + (b * K) * x + (c * K) * y
<1>1. (a + b * x + c * y) * K = a * K + (b * x) * K + (c * y) * K
  OBVIOUS
<1>2. (b * x) * K = (b * K) * x /\ (c * y) * K = (c * K) * y
  OBVIOUS
<1> QED BY <1>1, <1>2

\* A quotient of two planes that is in range at the corners of a box is in range in it.
RatioAt(p, q, x, y) ==
  RatioOK(p[1] + p[2] * x + p[3] * y, q[1] + q[2] * x + q[3] * y)
RatiosAtCorners(p, q, xlo, xhi, ylo, yhi) ==
  \A c \in {xlo, xhi} \X {ylo, yhi} : RatioAt(p, q, c[1], c[2])
LEMMA RatioBetween ==
  ASSUME NEW p, NEW q, {p[1], p[2], p[3], q[1], q[2], q[3]} \subseteq Int,
         NEW xlo \in Int, NEW xhi \in Int, NEW ylo \in Int, NEW yhi \in Int,
         NEW x \in xlo..xhi, NEW y \in ylo..yhi,
         RatiosAtCorners(p, q, xlo, xhi, ylo, yhi)
  PROVE  RatioAt(p, q, x, y)
<1> DEFINE S == SpanUnits
           C == RangeUnits
<1>1. PICK a \in Int : a = p[1]
  OBVIOUS
<1>2. PICK b \in Int : b = p[2]
  OBVIOUS
<1>3. PICK c \in Int : c = p[3]
  OBVIOUS
<1>4. PICK d \in Int : d = q[1]
  OBVIOUS
<1>5. PICK e \in Int : e = q[2]
  OBVIOUS
<1>6. PICK f \in Int : f = q[3]
  OBVIOUS
<1>7. S \in Int /\ C \in Int /\ QMin \in Int /\ QMax \in Int
  BY UnitsTyped
<1> DEFINE P(u, v) == a + b * u + c * v
           Q(u, v) == d + e * u + f * v
<1>8. \A u, v \in Int : /\ Q(u, v) \in Int /\ P(u, v) \in Int
                        /\ RatioAt(p, q, u, v) <=> /\ Q(u, v) - QMin >= 0 /\ QMax - Q(u, v) >= 0
                                                   /\ P(u, v) + Q(u, v) * S >= 0
                                                   /\ Q(u, v) * C - P(u, v) >= 0
  <2>1. TAKE u, v \in Int
  <2>2. Q(u, v) \in Int /\ P(u, v) \in Int
    OBVIOUS
  <2>3. RatioAt(p, q, u, v) <=> RatioOK(P(u, v), Q(u, v))
    BY <1>1, <1>2, <1>3, <1>4, <1>5, <1>6 DEF RatioAt
  <2> HIDE DEF P, Q
  <2>4. RatioOK(P(u, v), Q(u, v)) <=> /\ Q(u, v) - QMin >= 0 /\ QMax - Q(u, v) >= 0
                                      /\ P(u, v) + Q(u, v) * S >= 0
                                      /\ Q(u, v) * C - P(u, v) >= 0
    <3>1. PICK m \in Int : m = P(u, v)
      BY <2>2
    <3>2. PICK n \in Int : n = Q(u, v)
      BY <2>2
    <3>3. RatioOK(m, n) <=> /\ n \in QMin..QMax /\ m >= -(n * S) /\ m <= C * n
      BY DEF RatioOK, QOK, SpanUnits, RangeUnits
    <3> HIDE DEF S, C
    <3>4. n * S \in Int /\ n * C \in Int /\ C * n = n * C
      BY <1>7
    <3> QED BY ONLY <3>1, <3>2, <3>3, <3>4, <1>7, m \in Int, n \in Int
  <2> QED BY <2>2, <2>3, <2>4
<1>9. \A u, v \in Int :
        /\ Q(u, v) - QMin = (d - QMin) + e * u + f * v
        /\ QMax - Q(u, v) = (QMax - d) + (-e) * u + (-f) * v
        /\ P(u, v) + Q(u, v) * S = (a + d * S) + (b + e * S) * u + (c + f * S) * v
        /\ Q(u, v) * C - P(u, v) = (d * C - a) + (e * C - b) * u + (f * C - c) * v
  <2> HIDE DEF S, C
  <2>1. TAKE u, v \in Int
  <2>2. e * u \in Int /\ f * v \in Int /\ b * u \in Int /\ c * v \in Int
        /\ (-e) * u = -(e * u) /\ (-f) * v = -(f * v)
    OBVIOUS
  <2>3. Q(u, v) * S = d * S + (e * S) * u + (f * S) * v
    BY <1>7, Distributes
  <2>4. Q(u, v) * C = d * C + (e * C) * u + (f * C) * v
    BY <1>7, Distributes
  <2>5. e * S \in Int /\ f * S \in Int /\ e * C \in Int /\ f * C \in Int
        /\ d * S \in Int /\ d * C \in Int
    BY <1>7
  <2>6. /\ (b + e * S) * u = b * u + (e * S) * u /\ (c + f * S) * v = c * v + (f * S) * v
        /\ (e * C - b) * u = (e * C) * u - b * u /\ (f * C - c) * v = (f * C) * v - c * v
    BY <2>5
  <2>7. (e * S) * u \in Int /\ (f * S) * v \in Int /\ (e * C) * u \in Int /\ (f * C) * v \in Int
    BY <2>5
  <2> QED BY <1>7, <2>2, <2>3, <2>4, <2>5, <2>6, <2>7
<1>10. \A r \in {xlo, xhi} \X {ylo, yhi} :
         /\ (d - QMin) + e * r[1] + f * r[2] >= 0
         /\ (QMax - d) + (-e) * r[1] + (-f) * r[2] >= 0
         /\ (a + d * S) + (b + e * S) * r[1] + (c + f * S) * r[2] >= 0
         /\ (d * C - a) + (e * C - b) * r[1] + (f * C - c) * r[2] >= 0
  <2> HIDE DEF S, C, P, Q
  <2>1. TAKE r \in {xlo, xhi} \X {ylo, yhi}
  <2>2. r[1] \in Int /\ r[2] \in Int /\ RatioAt(p, q, r[1], r[2])
    BY DEF RatiosAtCorners
  <2>3. PICK u \in Int : u = r[1]
    BY <2>2
  <2>4. PICK v \in Int : v = r[2]
    BY <2>2
  <2>5. RatioAt(p, q, u, v)
    BY <2>2, <2>3, <2>4
  <2>6. /\ Q(u, v) - QMin >= 0 /\ QMax - Q(u, v) >= 0
        /\ P(u, v) + Q(u, v) * S >= 0 /\ Q(u, v) * C - P(u, v) >= 0
    BY <1>8, <2>5
  <2>7. /\ (d - QMin) + e * u + f * v >= 0
        /\ (QMax - d) + (-e) * u + (-f) * v >= 0
        /\ (a + d * S) + (b + e * S) * u + (c + f * S) * v >= 0
        /\ (d * C - a) + (e * C - b) * u + (f * C - c) * v >= 0
    BY <1>9, <2>6
  <2> QED BY <2>3, <2>4, <2>7
<1> HIDE DEF S, C
<1>11. /\ (d - QMin) \in Int /\ (QMax - d) \in Int /\ (-e) \in Int /\ (-f) \in Int
       /\ (a + d * S) \in Int /\ (b + e * S) \in Int /\ (c + f * S) \in Int
       /\ (d * C - a) \in Int /\ (e * C - b) \in Int /\ (f * C - c) \in Int
  BY <1>7
<1>12. (d - QMin) + e * x + f * y >= 0
  <2>1. PICK A \in Int : A = d - QMin
    BY <1>11
  <2>2. HighAtCorners(A, e, f, xlo, xhi, ylo, yhi)
    BY <1>10, <2>1 DEF HighAtCorners
  <2>3. A + e * x + f * y >= 0
    BY <2>2, PlaneBetween
  <2> QED BY <2>1, <2>3
<1>13. (QMax - d) + (-e) * x + (-f) * y >= 0
  <2>1. PICK A \in Int : A = QMax - d
    BY <1>11
  <2>2. PICK B \in Int : B = -e
    BY <1>11
  <2>3. PICK D \in Int : D = -f
    BY <1>11
  <2>4. HighAtCorners(A, B, D, xlo, xhi, ylo, yhi)
    BY <1>10, <2>1, <2>2, <2>3 DEF HighAtCorners
  <2>5. A + B * x + D * y >= 0
    BY <2>4, PlaneBetween
  <2> QED BY <2>1, <2>2, <2>3, <2>5
<1>14. (a + d * S) + (b + e * S) * x + (c + f * S) * y >= 0
  <2>1. PICK A \in Int : A = a + d * S
    BY <1>11
  <2>2. PICK B \in Int : B = b + e * S
    BY <1>11
  <2>3. PICK D \in Int : D = c + f * S
    BY <1>11
  <2>4. HighAtCorners(A, B, D, xlo, xhi, ylo, yhi)
    BY <1>10, <2>1, <2>2, <2>3 DEF HighAtCorners
  <2>5. A + B * x + D * y >= 0
    BY <2>4, PlaneBetween
  <2> QED BY <2>1, <2>2, <2>3, <2>5
<1>15. (d * C - a) + (e * C - b) * x + (f * C - c) * y >= 0
  <2>1. PICK A \in Int : A = d * C - a
    BY <1>11
  <2>2. PICK B \in Int : B = e * C - b
    BY <1>11
  <2>3. PICK D \in Int : D = f * C - c
    BY <1>11
  <2>4. HighAtCorners(A, B, D, xlo, xhi, ylo, yhi)
    BY <1>10, <2>1, <2>2, <2>3 DEF HighAtCorners
  <2>5. A + B * x + D * y >= 0
    BY <2>4, PlaneBetween
  <2> QED BY <2>1, <2>2, <2>3, <2>5
<1>16. /\ Q(x, y) - QMin >= 0 /\ QMax - Q(x, y) >= 0
       /\ P(x, y) + Q(x, y) * S >= 0 /\ Q(x, y) * C - P(x, y) >= 0
  <2> HIDE DEF P, Q
  <2> QED BY <1>9, <1>12, <1>13, <1>14, <1>15
<1> HIDE DEF P, Q
<1> QED BY <1>8, <1>16

\* The coordinates' planes: what they are at the anchor and gain a column and a row.
UPlane(st, t) == <<t.tu0, st.tmr[1], st.tmr[2]>>
VPlane(st, t) == <<t.tv0, st.tmr[3], st.tmr[4]>>
QPlane(st, t) == IF st.persp THEN <<t.tq0, st.tmr[5], st.tmr[6]>> ELSE <<QOne, 0, 0>>

\* A sample is in range when the quotients of its two planes by the third are.
LEMMA PointIsRatios ==
  ASSUME NEW st, IsState(st), NEW t, IsTri(t), NEW x \in Int, NEW y \in Int
  PROVE  PointOK(st, t, x, y) <=> /\ RatioAt(UPlane(st, t), QPlane(st, t), x, y)
                                  /\ RatioAt(VPlane(st, t), QPlane(st, t), x, y)
<1> DEFINE u == t.tu0 + st.tmr[1] * x + st.tmr[2] * y
           v == t.tv0 + st.tmr[3] * x + st.tmr[4] * y
           Q == QPlane(st, t)
           q == Q[1] + Q[2] * x + Q[3] * y
<1>1. QAt(st, t, x, y) = q
  <2>1. CASE st.persp
    BY <2>1 DEF QAt, QPlane
  <2>2. CASE ~st.persp
    <3>1. Q = <<QOne, 0, 0>> /\ QAt(st, t, x, y) = QOne
      BY <2>2 DEF QAt, QPlane
    <3>2. QOne + 0 * x + 0 * y = QOne
      BY UnitsTyped
    <3> HIDE DEF Q
    <3> QED BY <3>1, <3>2
  <2> QED BY <2>1, <2>2
<1>2. PointOK(st, t, x, y) <=> RatioOK(u, q) /\ RatioOK(v, q)
  <2> HIDE DEF q
  <2> QED BY <1>1 DEF PointOK, UAt, VAt
<1>3. UPlane(st, t)[1] + UPlane(st, t)[2] * x + UPlane(st, t)[3] * y = u
  BY DEF UPlane
<1>4. VPlane(st, t)[1] + VPlane(st, t)[2] * x + VPlane(st, t)[3] * y = v
  BY DEF VPlane
<1> HIDE DEF u, v
<1> QED BY <1>2, <1>3, <1>4 DEF RatioAt

\* The planes of a triangle are triples of numbers.
LEMMA PlanesTyped ==
  ASSUME NEW st, IsState(st), NEW t, IsTri(t)
  PROVE  /\ UPlane(st, t) \in Int \X Int \X Int /\ VPlane(st, t) \in Int \X Int \X Int
         /\ QPlane(st, t) \in Int \X Int \X Int
<1>1. /\ st.tmr[1] \in Int /\ st.tmr[2] \in Int /\ st.tmr[3] \in Int
      /\ st.tmr[4] \in Int /\ st.tmr[5] \in Int /\ st.tmr[6] \in Int
  <2>1. \A i \in 1..6 : st.tmr[i] \in Int
    BY DEF IsState
  <2> QED BY <2>1
<1>2. t.tu0 \in Int /\ t.tv0 \in Int /\ t.tq0 \in Int
  BY DEF IsTri
<1>3. QPlane(st, t) \in Int \X Int \X Int
  BY <1>1, <1>2, UnitsTyped DEF QPlane
<1> QED BY <1>1, <1>2, <1>3 DEF UPlane, VPlane

\* What samples in range at the corners of a box does so in the box.
OKAtCorners(st, t, xlo, xhi, ylo, yhi) ==
  \A c \in {xlo, xhi} \X {ylo, yhi} : PointOK(st, t, c[1], c[2])
LEMMA PointBetween ==
  ASSUME NEW st, IsState(st), NEW t, IsTri(t),
         NEW xlo \in Int, NEW xhi \in Int, NEW ylo \in Int, NEW yhi \in Int,
         NEW x \in xlo..xhi, NEW y \in ylo..yhi, OKAtCorners(st, t, xlo, xhi, ylo, yhi)
  PROVE  PointOK(st, t, x, y)
<1>1. PICK U \in Int \X Int \X Int : U = UPlane(st, t)
  BY PlanesTyped
<1>2. PICK V \in Int \X Int \X Int : V = VPlane(st, t)
  BY PlanesTyped
<1>3. PICK Q \in Int \X Int \X Int : Q = QPlane(st, t)
  BY PlanesTyped
<1>4. /\ {U[1], U[2], U[3], Q[1], Q[2], Q[3]} \subseteq Int
      /\ {V[1], V[2], V[3], Q[1], Q[2], Q[3]} \subseteq Int
  OBVIOUS
<1>5. \A c \in {xlo, xhi} \X {ylo, yhi} : RatioAt(U, Q, c[1], c[2]) /\ RatioAt(V, Q, c[1], c[2])
  <2>1. TAKE c \in {xlo, xhi} \X {ylo, yhi}
  <2>2. c[1] \in Int /\ c[2] \in Int /\ PointOK(st, t, c[1], c[2])
    BY DEF OKAtCorners
  <2> QED BY <1>1, <1>2, <1>3, <2>2, PointIsRatios
<1>6. RatiosAtCorners(U, Q, xlo, xhi, ylo, yhi) /\ RatiosAtCorners(V, Q, xlo, xhi, ylo, yhi)
  BY <1>5 DEF RatiosAtCorners
<1>7. RatioAt(U, Q, x, y) /\ RatioAt(V, Q, x, y)
  BY <1>4, <1>6, RatioBetween
<1>8. x \in Int /\ y \in Int
  OBVIOUS
<1> QED BY <1>1, <1>2, <1>3, <1>7, <1>8, PointIsRatios

\* The columns of a trapezoid whose edges do not cross lie on its surface, and in the
\* box that is asked about.
OnRows(t, n) ==
  \A k \in Rows(t) : /\ LeftAt(t, k) \in 0..n /\ RightAt(t, k) \in 0..n
                     /\ LeftAt(t, k) <= RightAt(t, k)
LEMMA ColumnsOnSurface ==
  ASSUME NEW t, IsTri(t), NEW lim, NEW n \in Nat, n = lim.clipX1 + 1, lim.clipX1 \in Int,
         GeometryHolds(t, lim), ~EdgesCross(t, lim)
  PROVE  OnRows(t, n)
<1>1. /\ t.h \in Int /\ t.left \in Nat /\ t.right \in Nat
  BY DEF IsTri
<1>2. ASSUME NEW k \in Rows(t) PROVE LeftAt(t, k) <= RightAt(t, k) /\ k \in Nat
                                     /\ {LeftAt(t, k), RightAt(t, k)} \subseteq 0..n
  <2>1. k \in Nat
    BY <1>1 DEF Rows
  <2>2. ~(LeftAt(t, k) > RightAt(t, k))
    BY DEF EdgesCross
  <2>3. CASE k = 0
    <3>1. LeftAt(t, k) = t.left /\ RightAt(t, k) = t.right
      BY <1>1, <2>3 DEF LeftAt, RightAt, Columns, Toward
    <3> QED BY <1>1, <2>1, <3>1 DEF GeometryHolds
  <2>4. CASE k # 0
    <3>1. k > 0
      BY <2>1, <2>4
    <3>2. {LeftAt(t, k), RightAt(t, k)} \ (0..(lim.clipX1 + 1)) = {}
      BY <3>1 DEF EdgesCross
    <3>3. {LeftAt(t, k), RightAt(t, k)} \subseteq 0..n
      BY <3>2
    <3> QED BY <2>1, <2>2, <3>3
  <2> QED BY <2>3, <2>4
<1>3. ASSUME NEW k \in Rows(t) PROVE LeftAt(t, k) \in 0..n /\ RightAt(t, k) \in 0..n
  BY <1>2
<1> QED BY <1>2, <1>3 DEF OnRows

LEMMA ColumnsInBox ==
  ASSUME NEW t, IsTri(t), t.h > 0, NEW n \in Nat, OnRows(t, n)
  PROVE  /\ BoxLeft(t) \in 0..n /\ BoxRight(t) \in (-1)..n
         /\ \A k \in Rows(t) : /\ BoxLeft(t) <= LeftAt(t, k) /\ LeftAt(t, k) <= BoxRight(t)
                               /\ RightAt(t, k) - 1 <= BoxRight(t)
<1> DEFINE L == {LeftAt(t, k) : k \in Rows(t)}
           R == {Max({LeftAt(t, k), RightAt(t, k) - 1}) : k \in Rows(t)}
<1>1. 0 \in Rows(t)
  BY DEF IsTri, Rows
<1>2. \A x \in L : x \in Int /\ 0 <= x /\ x <= n
  BY DEF OnRows
<1>3. ASSUME NEW k \in Rows(t)
      PROVE  /\ Max({LeftAt(t, k), RightAt(t, k) - 1}) \in Int
             /\ Max({LeftAt(t, k), RightAt(t, k) - 1}) <= n
             /\ LeftAt(t, k) <= Max({LeftAt(t, k), RightAt(t, k) - 1})
             /\ RightAt(t, k) - 1 <= Max({LeftAt(t, k), RightAt(t, k) - 1})
  <2>1. PICK l \in 0..n : l = LeftAt(t, k)
    BY DEF OnRows
  <2>2. PICK r \in (-1)..n : r = RightAt(t, k) - 1
    BY DEF OnRows
  <2> DEFINE S == {l, r}
  <2>3. S \in SUBSET Int /\ S # {}
    OBVIOUS
  <2>4. \A x \in S : x <= n
    OBVIOUS
  <2>5. Max(S) \in S /\ \A x \in S : x <= Max(S)
    <3>1. n \in Int
      OBVIOUS
    <3> HIDE DEF S
    <3> QED BY <2>3, <2>4, <3>1, GreatestOf
  <2> QED BY <2>1, <2>2, <2>3, <2>5
<1>4. \A x \in R : x \in Int /\ x <= n
  <2> HIDE DEF L
  <2> QED BY <1>3
<1>5. L # {} /\ R # {}
  BY <1>1
<1>6. BoxLeft(t) = Min(L) /\ BoxRight(t) = Max(R)
  BY DEF BoxLeft, BoxRight
<1>7. \A k \in Rows(t) : /\ LeftAt(t, k) \in L
                         /\ Max({LeftAt(t, k), RightAt(t, k) - 1}) \in R
  OBVIOUS
<1> HIDE DEF L, R
<1>8. L \in SUBSET Int /\ R \in SUBSET Int
  BY <1>2, <1>4
<1>9. Min(L) \in L /\ \A x \in L : Min(L) <= x
  <2>1. \A x \in L : 0 <= x
    BY <1>2
  <2> QED BY <1>5, <1>8, <2>1, LeastOf
<1>10. Max(R) \in R /\ \A x \in R : x <= Max(R)
  <2>1. \A x \in R : x <= n
    BY <1>4
  <2> QED BY <1>5, <1>8, <2>1, GreatestOf
<1>11. BoxLeft(t) \in 0..n /\ BoxRight(t) \in Int /\ BoxRight(t) <= n
  BY <1>2, <1>4, <1>6, <1>9, <1>10
<1>12. ASSUME NEW k \in Rows(t)
       PROVE  /\ BoxLeft(t) <= LeftAt(t, k) /\ LeftAt(t, k) <= BoxRight(t)
              /\ RightAt(t, k) - 1 <= BoxRight(t)
  <2>1. PICK m \in Int : m = Max({LeftAt(t, k), RightAt(t, k) - 1})
    BY <1>3
  <2>2. m <= BoxRight(t) /\ LeftAt(t, k) <= m /\ RightAt(t, k) - 1 <= m
    BY <1>3, <1>6, <1>7, <1>10, <2>1
  <2>3. BoxLeft(t) <= LeftAt(t, k)
    BY <1>6, <1>7, <1>9
  <2>4. LeftAt(t, k) \in Int /\ RightAt(t, k) \in Int
    BY DEF OnRows
  <2> QED BY <1>11, <2>1, <2>2, <2>3, <2>4
<1>13. BoxRight(t) >= -1
  <2>1. LeftAt(t, 0) <= BoxRight(t) /\ LeftAt(t, 0) \in 0..n
    BY <1>1, <1>12 DEF OnRows
  <2> QED BY <1>11, <2>1
<1> QED BY <1>11, <1>12, <1>13

\* The corners answer for the rows.
LEMMA BoxAnswers ==
  ASSUME NEW st, IsState(st), NEW t, IsTri(t), t.h > 0, NEW n \in Nat, OnRows(t, n), BoxOK(st, t)
  PROVE  RowEndsOK(st, t)
<1> DEFINE xlo == BoxLeft(t) - t.left
           xhi == BoxRight(t) - t.left
           yhi == t.h - 1
<1>1. t.left \in Int /\ t.h \in Int
  BY DEF IsTri
<1>2. BoxLeft(t) \in Int /\ BoxRight(t) \in Int
  BY ColumnsInBox
<1>3. xlo \in Int /\ xhi \in Int /\ yhi \in Int
  BY <1>1, <1>2
<1>4. OKAtCorners(st, t, xlo, xhi, 0, yhi)
  BY DEF OKAtCorners, BoxOK, Corners
<1>5. ASSUME NEW e \in Ends(t) PROVE PointOK(st, t, e[1], e[2])
  <2>1. PICK k \in DrawnRows(t) :
          e \in {<<LeftAt(t, k) - t.left, k>>, <<RightAt(t, k) - 1 - t.left, k>>}
    BY DEF Ends
  <2>2. k \in Rows(t) /\ k \in 0..yhi /\ LeftAt(t, k) < RightAt(t, k)
    BY <1>1 DEF DrawnRows, Rows
  <2>3. PICK l \in Int : l = LeftAt(t, k)
    BY <2>2 DEF OnRows
  <2>4. PICK r \in Int : r = RightAt(t, k)
    BY <2>2 DEF OnRows
  <2>5. BoxLeft(t) <= l /\ l < r /\ r - 1 <= BoxRight(t) /\ l <= BoxRight(t)
    BY <2>2, <2>3, <2>4, ColumnsInBox
  <2>6. l - t.left \in xlo..xhi /\ r - 1 - t.left \in xlo..xhi
    BY <1>1, <1>2, <2>5
  <2> HIDE DEF xlo, xhi, yhi
  <2>7. PointOK(st, t, l - t.left, k) /\ PointOK(st, t, r - 1 - t.left, k)
    <3>1. \A x \in xlo..xhi : PointOK(st, t, x, k)
      BY <1>3, <1>4, <2>2, PointBetween
    <3> QED BY <2>6, <3>1
  <2>8. \/ e = <<l - t.left, k>>
        \/ e = <<r - 1 - t.left, k>>
    BY <2>1, <2>3, <2>4
  <2>9. CASE e = <<l - t.left, k>>
    <3>1. e[1] = l - t.left /\ e[2] = k
      BY <2>9
    <3> QED BY <2>7, <3>1
  <2>10. CASE e = <<r - 1 - t.left, k>>
    <3>1. e[1] = r - 1 - t.left /\ e[2] = k
      BY <2>10
    <3> QED BY <2>7, <3>1
  <2> QED BY <2>8, <2>9, <2>10
<1> QED BY <1>5 DEF RowEndsOK
-----------------------------------------------------------------------------
(* What an accepted textured trapezoid promises.                             *)

\* Asking for the reach as well changes nobody's verdict.
LEMMA AskedIsSame ==
  ASSUME NEW st, IsState(st), NEW tris, IsTris(tris)
  PROVE  Validate(st, tris, Limits(st, Window), TRUE) = Validate(st, tris, Limits(st, Window), FALSE)
<1> DEFINE lim == Limits(st, Window)
<1>1. lim.clipX1 = st.dstWidth - 1 /\ lim.clipY1 = st.dstHeight - 1
  BY DEF Limits
<1>2. st.dstWidth \in Nat /\ st.dstHeight \in Nat
  BY WordAssumption DEF IsState
<1>3. DOMAIN tris = 1..Len(tris) /\ Len(tris) \in Nat
  BY DEF IsTris
<1> HIDE DEF lim
<1>4. ASSUME NEW i \in DOMAIN tris
      PROVE  StraysAt(st, tris, lim, TRUE, i) = StraysAt(st, tris, lim, FALSE, i)
  <2>1. ASSUME TriVerdict(st, tris[i], lim, FALSE) = "OK", BoxOK(st, tris[i])
        PROVE  RowEndsOK(st, tris[i])
    <3>1. PICK t : t = tris[i]
      OBVIOUS
    <3>2. IsTri(t)
      BY <3>1 DEF IsTris
    <3>3. Geometry(t, lim) = "OK" /\ ~EdgesCross(t, lim)
      BY <2>1, <3>1, TriAccepted
    <3>4. GeometryHolds(t, lim)
      BY <1>1, <1>2, <3>2, <3>3, GeometryAccepted
    <3>5. t.h > 0
      BY <3>4 DEF GeometryHolds
    <3>6. OnRows(t, st.dstWidth)
      <4>1. lim.clipX1 \in Int /\ st.dstWidth = lim.clipX1 + 1
        BY <1>1, <1>2
      <4> QED BY <1>2, <3>2, <3>3, <3>4, <4>1, ColumnsOnSurface
    <3> QED BY <1>2, <2>1, <3>1, <3>2, <3>5, <3>6, BoxAnswers
  <2>2. ASSUME TriVerdict(st, tris[i], lim, FALSE) = "OK"
        PROVE  CoordinatesOK(st, tris[i], TRUE) = CoordinatesOK(st, tris[i], FALSE)
    BY <2>1, <2>2 DEF CoordinatesOK
  <2> QED BY <2>2 DEF StraysAt
<1>5. ASSUME NEW i \in 1..(Len(tris) + 1)
      PROVE  LateAt(st, tris, lim, TRUE, i) = LateAt(st, tris, lim, FALSE, i)
  <2>1. \A j \in 1..(i - 1) : j \in DOMAIN tris
    BY <1>3
  <2> QED BY <1>4, <2>1 DEF LateAt
<1>6. \A i \in DOMAIN tris : LateAt(st, tris, lim, TRUE, i) = LateAt(st, tris, lim, FALSE, i)
  <2>1. \A i \in DOMAIN tris : i \in 1..(Len(tris) + 1)
    BY <1>3
  <2> QED BY <1>5, <2>1
<1>7. BadOf(st, tris, lim, TRUE) = BadOf(st, tris, lim, FALSE)
  BY <1>6 DEF BadOf
<1>8. TrisVerdict(st, tris, lim, TRUE) = TrisVerdict(st, tris, lim, FALSE)
  <2>1. PICK B \in SUBSET (DOMAIN tris) :
          B = BadOf(st, tris, lim, TRUE) /\ B = BadOf(st, tris, lim, FALSE)
    <3>1. BadOf(st, tris, lim, TRUE) \in SUBSET (DOMAIN tris)
      BY DEF BadOf
    <3> QED BY <1>7, <3>1
  <2>2. B # {} => Min(B) \in DOMAIN tris
    <3>1. B \in SUBSET Nat
      BY <1>3
    <3> QED BY <3>1, LeastNatural
  <2>3. B # {} => LateAt(st, tris, lim, TRUE, Min(B)) = LateAt(st, tris, lim, FALSE, Min(B))
    BY <1>6, <2>2
  <2>4. LateAt(st, tris, lim, TRUE, Len(tris) + 1) = LateAt(st, tris, lim, FALSE, Len(tris) + 1)
    <3>1. Len(tris) + 1 \in 1..(Len(tris) + 1)
      BY <1>3
    <3> QED BY <1>5, <3>1
  <2> QED BY <2>1, <2>3, <2>4 DEF TrisVerdict
<1>9. \A asked : Validate(st, tris, lim, asked) =
           IF Len(tris) > MaxTris THEN "COUNT"
           ELSE IF CommonOf(st, tris, lim) # "OK" THEN CommonOf(st, tris, lim)
           ELSE TrisVerdict(st, tris, lim, asked)
  BY ValidateIs
<1>10. Validate(st, tris, lim, TRUE) = Validate(st, tris, lim, FALSE)
  BY <1>8, <1>9
<1> QED BY <1>10 DEF lim

TexHolds(st, t) == AnchorsOK(t) /\ BudgetOK(st, t) /\ SlopesOK(st, t) /\ RowEndsOK(st, t)
SamplesHold(st, tris) == \A i \in DOMAIN tris : Textured(tris[i]) => TexHolds(st, tris[i])

\* The verdict on a textured trapezoid looks at its anchors and at its budget.
LEMMA TexturedAccepted ==
  ASSUME NEW st, NEW t, NEW lim, Textured(t), TriVerdict(st, t, lim, FALSE) = "OK"
  PROVE  AnchorsOK(t) /\ BudgetOK(st, t)
<1> DEFINE strays == ~FALSE /\ ~(AnchorsOK(t) /\ BudgetOK(st, t))
           empty == DrawnRows(t) = {}
           tests == << <<strays, "TEXCOORD">>, <<empty, "TRIEMPTY">> >>
<1>1. Geometry(t, lim) = "OK" /\ ~EdgesCross(t, lim)
  BY TriAccepted
<1>2. TriVerdict(st, t, lim, FALSE) = FirstRefusal(tests)
  BY <1>1 DEF TriVerdict
<1>3. ~strays
  <2> HIDE DEF strays, empty
  <2>1. DOMAIN tests = 1..2 /\ \A i \in 1..2 : tests[i][2] # "OK"
    OBVIOUS
  <2>2. ~tests[1][1]
    <3> HIDE DEF tests
    <3>1. \A i \in 1..2 : ~tests[i][1]
      BY <1>2, <2>1, NoRefusal
    <3> QED BY <3>1
  <2> QED BY <2>2
<1> QED BY <1>3

\* Every textured trapezoid of an accepted batch passed all four texture checks.
LEMMA SamplesAccepted ==
  ASSUME NEW st, NEW tris, IsTris(tris), NEW lim, Validate(st, tris, lim, TRUE) = "OK"
  PROVE  SamplesHold(st, tris)
<1>1. TrisVerdict(st, tris, lim, TRUE) = "OK"
  BY ValidateIs
<1>2. DOMAIN tris = 1..Len(tris) /\ Len(tris) \in Nat
  BY DEF IsTris
<1>3. BadOf(st, tris, lim, TRUE) = {}
  <2>1. SUFFICES ASSUME BadOf(st, tris, lim, TRUE) # {} PROVE FALSE
    OBVIOUS
  <2>2. PICK B \in SUBSET (DOMAIN tris) : B = BadOf(st, tris, lim, TRUE)
    BY DEF BadOf
  <2>3. Min(B) \in B
    <3>1. B \in SUBSET Nat
      BY <1>2
    <3> QED BY <2>1, <2>2, <3>1, LeastNatural
  <2>4. TriVerdict(st, tris[Min(B)], lim, LateAt(st, tris, lim, TRUE, Min(B))) = "OK"
    BY <1>1, <2>1, <2>2 DEF TrisVerdict
  <2> QED BY <2>2, <2>3, <2>4 DEF BadOf
<1>4. \A j \in DOMAIN tris : ~StraysAt(st, tris, lim, TRUE, j)
  <2>1. ~LateAt(st, tris, lim, TRUE, Len(tris) + 1)
    BY <1>1, <1>3 DEF TrisVerdict
  <2>2. \A j \in DOMAIN tris : j \in 1..((Len(tris) + 1) - 1)
    BY <1>2
  <2>3. ~(\E j \in 1..((Len(tris) + 1) - 1) : StraysAt(st, tris, lim, TRUE, j))
    BY <2>1 DEF LateAt
  <2> QED BY <2>2, <2>3
<1>5. ASSUME NEW i \in DOMAIN tris, Textured(tris[i]) PROVE TexHolds(st, tris[i])
  <2>1. LateAt(st, tris, lim, TRUE, i) = FALSE
    <3>1. \A j \in 1..(i - 1) : j \in DOMAIN tris
      BY <1>2
    <3> QED BY <1>4, <3>1 DEF LateAt
  <2>2. TriVerdict(st, tris[i], lim, FALSE) = "OK"
    <3>1. TriVerdict(st, tris[i], lim, LateAt(st, tris, lim, TRUE, i)) = "OK"
      BY <1>3 DEF BadOf
    <3> QED BY <2>1, <3>1
  <2>3. AnchorsOK(tris[i]) /\ BudgetOK(st, tris[i])
    BY <1>5, <2>2, TexturedAccepted
  <2>4. CoordinatesOK(st, tris[i], TRUE)
    BY <1>4, <1>5, <2>2 DEF StraysAt
  <2> QED BY <2>3, <2>4 DEF CoordinatesOK, TexHolds
<1> QED BY <1>5 DEF SamplesHold

-----------------------------------------------------------------------------
(* Bounds.                                                                   *)

\* A slope that is held to its room over the whole extent adds no more on the way.
LEMMA SlopeAdds ==
  ASSUME NEW room \in Int, NEW ext \in Nat \ {0}, NEW d \in Int, Abs(d) <= room \div ext,
         NEW x \in Int, Abs(x) <= ext
  PROVE  d * x \in Int /\ Abs(d * x) <= room
<1>1. PICK a \in Nat : a = Abs(d)
  BY DEF Abs
<1>2. PICK b \in Nat : b = Abs(x)
  BY DEF Abs
<1>3. PICK q \in Int : q = room \div ext
  BY DivisionIs
<1>4. room - q * ext \in 0..(ext - 1)
  BY <1>3, DivisionIs
<1>5. q * ext <= room
  <2>1. PICK m \in Int : m = q * ext
    OBVIOUS
  <2> QED BY <1>4, <2>1
<1>6. a * b <= q * ext
  <2>1. a <= q /\ b <= ext
    BY <1>1, <1>2, <1>3
  <2>2. a * b <= q * b
    BY <2>1, SMTT(30)
  <2>3. q * b <= q * ext
    BY <2>1, SMTT(30)
  <2>4. a * b \in Int /\ q * b \in Int /\ q * ext \in Int
    OBVIOUS
  <2> QED BY <2>2, <2>3, <2>4
<1>7. Abs(d * x) = a * b
  <2>1. (d = a \/ d = -a) /\ (x = b \/ x = -b)
    BY <1>1, <1>2 DEF Abs
  <2>2. d * x = a * b \/ d * x = -(a * b)
    BY <2>1
  <2>3. a * b \in Nat /\ d * x \in Int
    OBVIOUS
  <2> QED BY <2>2, <2>3 DEF Abs
<1> QED BY <1>5, <1>6, <1>7

\* The header's checks on the word, as bounds.
LongMax == WordMax \div 2
LEMMA WordHas ==
  /\ LongMax \in Int /\ CoordMax + 3 * SlopeRoom <= LongMax /\ SlopeRoom = CoordMax
  /\ Budget \in Int /\ QMax + 2 * Budget <= (WordMax + 1) \div 4 /\ (WordMax + 1) \div 4 <= LongMax
<1>1. CoordMax \in Nat /\ QMax \in Int /\ SlopeRoom = CoordMax
  BY UnitsTyped DEF SlopeRoom
<1>2. LongMax \in Int
  BY WordAssumption DEF LongMax
<1>3. CoordMax <= (LongMax - CoordMax) \div 3
  BY <1>1, SlopeAssumption DEF LongMax
<1>4. CoordMax + 3 * CoordMax <= LongMax
  <2>1. PICK m \in Int : m = LongMax - CoordMax
    BY <1>1, <1>2
  <2>2. PICK q \in Int : q = m \div 3 /\ m - q * 3 \in 0..2
    BY DivisionIs
  <2> QED BY <1>1, <1>2, <1>3, <2>1, <2>2
<1>5. PICK w \in Int : w = (WordMax + 1) \div 4
  BY WordAssumption
<1>6. w <= LongMax
  BY <1>5, WordAssumption DEF LongMax
<1>7. Budget \in Int /\ QMax + 2 * Budget <= w
  <2>1. PICK m \in Int : m = w - QMax
    BY <1>1
  <2>2. Budget = m \div 2
    BY <1>5, <2>1 DEF Budget
  <2>3. PICK q \in Int : q = m \div 2 /\ m - q * 2 \in 0..1
    BY DivisionIs
  <2> QED BY <1>1, <2>1, <2>2, <2>3
<1> QED BY <1>1, <1>2, <1>4, <1>5, <1>6, <1>7

\* Every sum on the way to a plane's value fits a long when start and gains do.
LEMMA SumsFit ==
  ASSUME NEW p0 \in Int, NEW dx \in Int, NEW dy \in Int, NEW x \in Int, NEW y \in Int,
         NEW most \in Nat, NEW room \in Nat, NEW long \in Int,
         Abs(p0) <= most, Abs(dx * x) <= room, Abs(dy * y) <= room, most + 2 * room <= long
  PROVE  \A v \in Sums(p0, dx, dy, x, y) : v \in Int /\ Abs(v) <= long
<1>1. PICK m \in Int : m = dx * x
  OBVIOUS
<1>2. PICK n \in Int : n = dy * y
  OBVIOUS
<1>3. \A v \in {p0, m, n, p0 + m, p0 + m + n} : v \in Int /\ Abs(v) <= long
  BY <1>1, <1>2 DEF Abs
<1> QED BY <1>1, <1>2, <1>3 DEF Sums

-----------------------------------------------------------------------------
(* The bias ladder.                                                          *)

\* A request asks for one of the six rungs of the bias ladder.
LEMMA BandIs ==
  ASSUME NEW v
  PROVE  BandFor(v) \in 0..5
<1> DEFINE S == {i \in 0..4 : v > Span * 2^i}
<1>1. IsFiniteSet(0..4) /\ Cardinality(0..4) = 5
  <2>1. PICK a \in Int : a = 0
    OBVIOUS
  <2>2. PICK b \in Int : b = 4
    OBVIOUS
  <2>3. IsFiniteSet(a..b) /\ Cardinality(a..b) = IF a > b THEN 0 ELSE b - a + 1
    BY FS_Interval
  <2> QED BY <2>1, <2>2, <2>3
<1>2. S \subseteq 0..4
  OBVIOUS
<1> HIDE DEF S
<1>3. Cardinality(S) \in Nat /\ Cardinality(S) <= 5
  BY <1>1, <1>2, FS_Subset, FS_CardinalityType
<1> QED BY <1>3 DEF BandFor, S

\* The ladder does not rise.
LEMMA RungIs ==
  ASSUME NEW r \in 0..5, NEW s \in 0..5, r <= s
  PROVE  BiasOfBand(r) \in Int /\ BiasOfBand(s) \in Int /\ BiasOfBand(s) <= BiasOfBand(r)
<1>1. PICK i \in 1..6 : i = r + 1
  OBVIOUS
<1>2. PICK j \in 1..6 : j = s + 1
  OBVIOUS
<1>3. Ladder[i] \in Int /\ Ladder[j] \in Int
  BY LadderAssumption
<1>4. Ladder[j] <= Ladder[i]
  <2>1. \A m, n \in 1..6 : m <= n => Ladder[n] <= Ladder[m]
    BY LadderAssumption
  <2> QED BY <1>1, <1>2, <2>1
<1> QED BY <1>1, <1>2, <1>3, <1>4 DEF BiasOfBand

\* With the bias of the rung that is used the farthest coordinate is in range, or where
\* it was.
Residual(reach, request) == reach + Addend(reach) - BiasOfBand(UsedBand(request, reach))
LEMMA BiasKeeps ==
  ASSUME NEW reach \in Nat, NEW request \in Nat
  PROVE  Residual(reach, request) <= Max({CoordMax, reach})
<1> DEFINE own == BandFor(reach)
           good == {r \in 0..5 : reach + Addend(reach) - BiasOfBand(r) <= CoordMax}
           rungs == {0} \cup good
           head == Headroom(reach)
           asked == Min({request - 1, head})
           used == UsedBand(request, reach)
           most == Max({CoordMax, reach})
<1> SUFFICES Residual(reach, request) <= most
  OBVIOUS
<1>1. own \in 0..5 /\ Addend(reach) = BiasOfBand(own) /\ BiasOfBand(own) \in Int
  <2>1. own \in 0..5
    BY BandIs
  <2> HIDE DEF own
  <2>2. BiasOfBand(own) \in Int
    BY <2>1, RungIs
  <2>3. Addend(reach) = BiasOfBand(own)
    BY DEF Addend, own
  <2> QED BY <2>1, <2>2, <2>3
<1>2. most \in Int /\ CoordMax <= most /\ reach <= most /\ CoordMax \in Int
  <2>1. PICK c \in Nat : c = CoordMax
    BY UnitsTyped
  <2> DEFINE S == {c, reach}
  <2>2. S \in SUBSET Int /\ S # {} /\ c + reach \in Int
    OBVIOUS
  <2>3. \A x \in S : x <= c + reach
    OBVIOUS
  <2>4. c \in S /\ reach \in S
    OBVIOUS
  <2> HIDE DEF S
  <2>5. PICK n \in Int : n = c + reach
    BY <2>2
  <2>6. Max(S) \in S /\ \A x \in S : x <= Max(S)
    <3>1. \A x \in S : x <= n
      BY <2>3, <2>5
    <3> QED BY <2>2, <3>1, GreatestOf
  <2>7. most = Max(S)
    BY <2>1 DEF S
  <2> HIDE DEF most
  <2> QED BY <2>1, <2>2, <2>4, <2>6, <2>7
<1>3. head \in rungs
  <2>0. PICK n \in Int : n = 5
    OBVIOUS
  <2>1. rungs \in SUBSET Int /\ rungs # {} /\ \A x \in rungs : x <= n
    BY <2>0
  <2>2. head = Max(rungs)
    BY DEF Headroom
  <2> HIDE DEF rungs, head
  <2> QED BY <2>1, <2>2, GreatestOf
<1>4. head \in 0..5
  <2> HIDE DEF head
  <2> QED BY <1>3
<1>5. asked \in Int /\ asked <= head /\ asked <= request - 1
  <2>1. PICK c \in Int : c = request - 1
    OBVIOUS
  <2>2. PICK h \in 0..5 : h = head
    BY <1>4
  <2> DEFINE S == {c, h}
  <2>3. PICK n \in Int : n <= c /\ n <= h
    <3>1. CASE c <= h
      BY <3>1
    <3>2. CASE h <= c
      BY <3>2
    <3> QED BY <3>1, <3>2
  <2>4. S \in SUBSET Int /\ S # {} /\ (\A x \in S : n <= x) /\ c \in S /\ h \in S
    BY <2>3
  <2>5. asked = Min(S)
    BY <2>1, <2>2
  <2> HIDE DEF S, asked, head
  <2>6. Min(S) \in S /\ \A x \in S : Min(S) <= x
    BY <2>4, LeastOf
  <2> QED BY <2>1, <2>2, <2>4, <2>5, <2>6
<1>6. used = own \/ (used = asked /\ used > own)
  <2>1. CASE request = 0
    BY <2>1 DEF UsedBand
  <2>2. CASE request # 0
    <3>1. used = Max({own, asked})
      BY <2>2 DEF UsedBand
    <3>2. PICK o \in Int : o = own
      BY <1>1
    <3>3. PICK a \in Int : a = asked
      BY <1>5
    <3> DEFINE S == {o, a}
    <3>4. PICK n \in Int : o <= n /\ a <= n
      <4>1. CASE o <= a
        BY <4>1
      <4>2. CASE a <= o
        BY <4>2
      <4> QED BY <4>1, <4>2
    <3>5. S \in SUBSET Int /\ S # {} /\ (\A x \in S : x <= n) /\ o \in S /\ a \in S
      BY <3>4
    <3>6. used = Max(S)
      BY <3>1, <3>2, <3>3
    <3>7. \A x \in S : x = o \/ x = a
      OBVIOUS
    <3> HIDE DEF S, used, own, asked
    <3>8. Max(S) \in S /\ \A x \in S : x <= Max(S)
      BY <3>5, GreatestOf
    <3>9. (used = o \/ used = a) /\ o <= used
      BY <3>5, <3>6, <3>7, <3>8
    <3> QED BY <3>2, <3>3, <3>9
  <2> QED BY <2>1, <2>2
<1>7. Residual(reach, request) = reach + Addend(reach) - BiasOfBand(used)
  BY DEF Residual
<1>8. CASE used = own
  <2> HIDE DEF used, own, most
  <2> QED BY <1>1, <1>2, <1>7, <1>8
<1>9. CASE used = asked /\ used > own
  <2>1. used \in 0..5 /\ used <= head /\ head > 0
    <3> HIDE DEF used, asked, head, own
    <3> QED BY <1>1, <1>4, <1>5, <1>9
  <2>2. head \in good
    <3> HIDE DEF head, good
    <3> QED BY <1>3, <2>1
  <2>3. reach + Addend(reach) - BiasOfBand(head) <= CoordMax
    <3> HIDE DEF head
    <3> QED BY <2>2
  <2>4. BiasOfBand(head) \in Int /\ BiasOfBand(used) \in Int /\ BiasOfBand(head) <= BiasOfBand(used)
    <3> HIDE DEF head, used
    <3> QED BY <1>4, <2>1, RungIs
  <2> HIDE DEF used, own, most, head
  <2> QED BY <1>1, <1>2, <1>7, <2>3, <2>4
<1> QED BY <1>6, <1>8, <1>9

(* The places of a trapezoid.                                                *)

\* A place of a trapezoid: a column of its box, off the anchor, and a row.
Places(t) == {x \in Int : x + t.left \in BoxLeft(t)..BoxRight(t)} \X Rows(t)

\* The ends of a row, where the validator looks, and the pixels drawn between them are
\* places of the trapezoid.
LEMMA EndsArePlaces ==
  ASSUME NEW t, IsTri(t), t.h > 0, NEW n \in Nat, OnRows(t, n)
  PROVE  /\ Ends(t) \subseteq Places(t)
         /\ \A k \in DrawnRows(t) : \A x \in LeftAt(t, k)..(RightAt(t, k) - 1) :
              <<x - t.left, k>> \in Places(t)
<1>1. t.left \in Int
  BY DEF IsTri
<1>2. ASSUME NEW k \in DrawnRows(t), NEW x \in LeftAt(t, k)..(RightAt(t, k) - 1)
      PROVE  <<x - t.left, k>> \in Places(t)
  <2>1. k \in Rows(t)
    BY DEF DrawnRows
  <2>2. LeftAt(t, k) \in Int /\ RightAt(t, k) \in Int
    BY <2>1 DEF OnRows
  <2>3. /\ BoxLeft(t) \in Int /\ BoxRight(t) \in Int
        /\ BoxLeft(t) <= LeftAt(t, k) /\ RightAt(t, k) - 1 <= BoxRight(t)
    BY <2>1, ColumnsInBox
  <2>4. x \in Int /\ x \in BoxLeft(t)..BoxRight(t) /\ x - t.left \in Int /\ (x - t.left) + t.left = x
    BY <1>1, <2>2, <2>3
  <2> QED BY <2>1, <2>4 DEF Places
<1>3. ASSUME NEW e \in Ends(t) PROVE e \in Places(t)
  <2>1. PICK k \in DrawnRows(t) :
          e \in {<<LeftAt(t, k) - t.left, k>>, <<RightAt(t, k) - 1 - t.left, k>>}
    BY DEF Ends
  <2>2. k \in Rows(t) /\ LeftAt(t, k) < RightAt(t, k)
    BY DEF DrawnRows
  <2>3. LeftAt(t, k) \in Int /\ RightAt(t, k) \in Int
    BY <2>2 DEF OnRows
  <2>4. LeftAt(t, k) \in LeftAt(t, k)..(RightAt(t, k) - 1)
        /\ RightAt(t, k) - 1 \in LeftAt(t, k)..(RightAt(t, k) - 1)
    BY <2>2, <2>3
  <2>5. <<LeftAt(t, k) - t.left, k>> \in Places(t) /\ <<(RightAt(t, k) - 1) - t.left, k>> \in Places(t)
    BY <1>2, <2>4
  <2> QED BY <2>1, <2>5
<1> QED BY <1>2, <1>3

\* At a place the slopes have added no more than their room.
GainsHold(st, x, k) ==
  /\ Abs(st.tmr[1] * x) <= SlopeRoom /\ Abs(st.tmr[2] * k) <= SlopeRoom
  /\ Abs(st.tmr[3] * x) <= SlopeRoom /\ Abs(st.tmr[4] * k) <= SlopeRoom
LEMMA PlaceTyped ==
  ASSUME NEW t, IsTri(t), t.h > 0, NEW n \in Nat, OnRows(t, n), NEW e \in Places(t)
  PROVE  /\ e[1] \in Int /\ e[2] \in 0..(t.h - 1) /\ e = <<e[1], e[2]>>
         /\ e[1] >= BoxLeft(t) - t.left /\ e[1] <= BoxRight(t) - t.left
         /\ BoxLeft(t) <= t.left /\ t.left <= BoxRight(t)
         /\ BoxLeft(t) \in Int /\ BoxRight(t) \in Int /\ t.left \in Int /\ t.h \in Int
<1>1. t.left \in Int /\ t.h \in Int
  BY DEF IsTri
<1>2. BoxLeft(t) \in Int /\ BoxRight(t) \in Int
  BY ColumnsInBox
<1>3. e[1] \in Int /\ e[1] + t.left \in BoxLeft(t)..BoxRight(t) /\ e[2] \in Rows(t) /\ e = <<e[1], e[2]>>
  BY DEF Places
<1>4. 0 \in Rows(t) /\ LeftAt(t, 0) = t.left
  BY <1>1 DEF Rows, LeftAt, Columns, Toward
<1>5. BoxLeft(t) <= t.left /\ t.left <= BoxRight(t)
  BY <1>4, ColumnsInBox
<1> QED BY <1>1, <1>2, <1>3, <1>5 DEF Rows

\* The slopes' check at the corners holds at every place.
LEMMA PlaceGains ==
  ASSUME NEW st, IsState(st), NEW t, IsTri(t), t.h > 0, NEW n \in Nat, OnRows(t, n),
         SlopesOK(st, t), NEW e \in Places(t)
  PROVE  GainsHold(st, e[1], e[2])
<1>1. /\ e[1] \in Int /\ e[2] \in 0..(t.h - 1)
      /\ e[1] >= BoxLeft(t) - t.left /\ e[1] <= BoxRight(t) - t.left
      /\ BoxLeft(t) <= t.left /\ t.left <= BoxRight(t)
      /\ BoxLeft(t) \in Int /\ BoxRight(t) \in Int /\ t.left \in Int /\ t.h \in Int
  BY PlaceTyped
<1>2. PICK x \in Int : x = e[1]
  BY <1>1
<1>3. PICK k \in Nat : k = e[2]
  BY <1>1
<1>4. PICK ex \in Nat : ex = Width(t)
  BY <1>1 DEF Width
<1>5. PICK ey \in Nat : ey = t.h - 1
  BY <1>1
<1>6. Abs(x) <= ex /\ Abs(k) <= ey
  BY <1>1, <1>2, <1>3, <1>4, <1>5 DEF Abs, Width
<1>7. PICK room \in Nat : room = SlopeRoom
  BY WordHas, UnitsTyped
<1>8. /\ st.tmr[1] \in Int /\ st.tmr[2] \in Int /\ st.tmr[3] \in Int /\ st.tmr[4] \in Int
  <2>1. \A i \in 1..6 : st.tmr[i] \in Int
    BY DEF IsState
  <2> QED BY <2>1
<1>9. ASSUME NEW d \in Int, ex > 0 => Abs(d) <= room \div ex
      PROVE  Abs(d * x) <= room
  <2>1. CASE ex = 0
    <3>1. d * x = 0
      BY <1>6, <2>1 DEF Abs
    <3> QED BY <3>1 DEF Abs
  <2>2. CASE ex > 0
    BY <1>6, <1>9, <2>2, SlopeAdds
  <2> QED BY <2>1, <2>2
<1>10. ASSUME NEW d \in Int, ey > 0 => Abs(d) <= room \div ey
       PROVE  Abs(d * k) <= room
  <2>1. CASE ey = 0
    <3>1. d * k = 0
      BY <1>6, <2>1 DEF Abs
    <3> QED BY <3>1 DEF Abs
  <2>2. CASE ey > 0
    BY <1>6, <1>10, <2>2, SlopeAdds
  <2> QED BY <2>1, <2>2
<1>11. /\ ex > 0 => Abs(st.tmr[1]) <= room \div ex /\ Abs(st.tmr[3]) <= room \div ex
       /\ ey > 0 => Abs(st.tmr[2]) <= room \div ey /\ Abs(st.tmr[4]) <= room \div ey
  BY <1>4, <1>5, <1>7 DEF SlopesOK
<1>12. /\ Abs(st.tmr[1] * x) <= room /\ Abs(st.tmr[3] * x) <= room
  BY <1>8, <1>9, <1>11
<1>13. /\ Abs(st.tmr[2] * k) <= room /\ Abs(st.tmr[4] * k) <= room
  BY <1>8, <1>10, <1>11
<1> QED BY <1>2, <1>3, <1>7, <1>12, <1>13 DEF GainsHold

\* Nor has the denominator gained more than its budget.
LEMMA PlaceBudget ==
  ASSUME NEW st, IsState(st), st.persp, NEW t, IsTri(t), t.h > 0, NEW n \in Nat, OnRows(t, n),
         BudgetOK(st, t), NEW e \in Places(t)
  PROVE  /\ QOK(t.tq0) /\ Budget \in Nat
         /\ Abs(st.tmr[5] * e[1]) <= Budget /\ Abs(st.tmr[6] * e[2]) <= Budget
<1>1. /\ e[1] \in Int /\ e[2] \in 0..(t.h - 1)
      /\ e[1] >= BoxLeft(t) - t.left /\ e[1] <= BoxRight(t) - t.left
      /\ BoxLeft(t) <= t.left /\ t.left <= BoxRight(t)
      /\ BoxLeft(t) \in Int /\ BoxRight(t) \in Int /\ t.left \in Int /\ t.h \in Int
  BY PlaceTyped
<1>2. PICK x \in Int : x = e[1]
  BY <1>1
<1>3. PICK k \in Nat : k = e[2]
  BY <1>1
<1>4. PICK a \in Nat : a = Abs(BoxLeft(t) - t.left)
  BY <1>1 DEF Abs
<1>5. PICK b \in Nat : b = Abs(BoxRight(t) - t.left)
  BY <1>1 DEF Abs
<1>6. PICK c \in Nat : c = t.h - 1
  BY <1>1
<1>7. \A u, v, w \in Nat : /\ Max({u, v, w}) \in {u, v, w}
                           /\ \A y \in {u, v, w} : y <= Max({u, v, w})
  <2>1. TAKE u, v, w \in Nat
  <2> DEFINE S == {u, v, w}
  <2>2. PICK s \in Int : s = u + v + w
    OBVIOUS
  <2>3. S \in SUBSET Int /\ S # {}
    OBVIOUS
  <2>4. \A y \in S : y <= s
    BY <2>2
  <2> HIDE DEF S
  <2>5. Max(S) \in S /\ \A y \in S : y <= Max(S)
    BY <2>3, <2>4, GreatestOf
  <2> QED BY <2>5 DEF S
<1>8. PICK mdx \in Nat \ {0} : /\ mdx = Max({a, b, 1}) /\ a <= mdx /\ b <= mdx
  <2>1. 1 \in Nat
    OBVIOUS
  <2>2. Max({a, b, 1}) \in {a, b, 1} /\ \A y \in {a, b, 1} : y <= Max({a, b, 1})
    BY <1>7, <2>1
  <2>3. a <= Max({a, b, 1}) /\ b <= Max({a, b, 1}) /\ 1 <= Max({a, b, 1}) /\ Max({a, b, 1}) \in Nat
    BY <2>2
  <2> QED BY <2>3
<1>9. PICK mrow \in Nat \ {0} : mrow = Max({c, 1}) /\ c <= mrow
  <2>1. 1 \in Nat
    OBVIOUS
  <2>2. {c, 1, 1} = {c, 1}
    OBVIOUS
  <2>3. Max({c, 1, 1}) \in {c, 1, 1} /\ \A y \in {c, 1, 1} : y <= Max({c, 1, 1})
    BY <1>7, <2>1
  <2>4. Max({c, 1}) \in {c, 1} /\ \A y \in {c, 1} : y <= Max({c, 1})
    BY <2>2, <2>3
  <2>5. c <= Max({c, 1}) /\ 1 <= Max({c, 1}) /\ Max({c, 1}) \in Nat
    BY <2>4
  <2> QED BY <2>5
<1>10. Abs(x) <= mdx /\ Abs(k) <= mrow
  <2>1. Abs(x) <= a \/ Abs(x) <= b
    BY <1>1, <1>2, <1>4, <1>5 DEF Abs
  <2>2. Abs(k) <= c
    BY <1>1, <1>3, <1>6 DEF Abs
  <2>3. Abs(x) \in Int /\ Abs(k) \in Int
    BY DEF Abs
  <2> QED BY <1>8, <1>9, <2>1, <2>2, <2>3
<1>11. /\ QOK(t.tq0)
       /\ Abs(st.tmr[5]) <= Budget \div mdx /\ Abs(st.tmr[6]) <= Budget \div mrow
  BY <1>4, <1>5, <1>6, <1>8, <1>9 DEF BudgetOK
<1>12. st.tmr[5] \in Int /\ st.tmr[6] \in Int
  <2>1. \A i \in 1..6 : st.tmr[i] \in Int
    BY DEF IsState
  <2> QED BY <2>1
<1>13. PICK room \in Int : room = Budget
  BY WordHas
<1>14. Abs(st.tmr[5] * x) <= room /\ Abs(st.tmr[6] * k) <= room
  BY <1>10, <1>11, <1>12, <1>13, SlopeAdds
<1>15. room >= 0
  <2>1. st.tmr[5] * x \in Int
    BY <1>12
  <2>2. \A m \in Int : Abs(m) \in Int /\ Abs(m) >= 0
    BY DEF Abs
  <2>3. PICK m \in Int : m = Abs(st.tmr[5] * x) /\ m >= 0
    BY <2>1, <2>2
  <2> QED BY <1>14, <2>3
<1> QED BY <1>2, <1>3, <1>11, <1>13, <1>14, <1>15

\* What is said of a place: it samples in range, and every sum and product on the way to
\* it fits a long.
Fit(v) == Abs(v) <= WordMax \div 2
PlaceHolds(st, t, x, k) ==
  LET q == QAt(st, t, x, k)
  IN  /\ PointOK(st, t, x, k)
      /\ \A v \in Sums(t.tu0, st.tmr[1], st.tmr[2], x, k)
                  \cup Sums(t.tv0, st.tmr[3], st.tmr[4], x, k)
                  \cup {(CoordMax \div QOne) * q} : Fit(v)
      /\ st.persp => \A v \in Sums(t.tq0, st.tmr[5], st.tmr[6], x, k) : Fit(v)

\* At a place no partial sum of the three interpolators leaves the word.
LEMMA PlaceSums ==
  ASSUME NEW st, IsState(st), NEW t, IsTri(t), t.h > 0, NEW n \in Nat, OnRows(t, n),
         TexHolds(st, t), NEW e \in Places(t)
  PROVE  /\ \A v \in Sums(t.tu0, st.tmr[1], st.tmr[2], e[1], e[2]) : v \in Int /\ Fit(v)
         /\ \A v \in Sums(t.tv0, st.tmr[3], st.tmr[4], e[1], e[2]) : v \in Int /\ Fit(v)
         /\ st.persp => \A v \in Sums(t.tq0, st.tmr[5], st.tmr[6], e[1], e[2]) : Fit(v)
<1>1. PICK x \in Int : x = e[1]
  BY PlaceTyped
<1>2. PICK k \in Int : k = e[2]
  BY PlaceTyped
<1>3. \A i \in 1..6 : st.tmr[i] \in Int
  BY DEF IsState
<1>4. t.tu0 \in Int /\ t.tv0 \in Int /\ t.tq0 \in Int
  BY DEF IsTri
<1>5. GainsHold(st, x, k)
  BY <1>1, <1>2, PlaceGains DEF TexHolds
<1>6. PICK room \in Nat : room = SlopeRoom /\ room = CoordMax
  BY WordHas, UnitsTyped
<1>7. room + 2 * room <= LongMax /\ LongMax \in Int
  BY <1>6, WordHas
<1>8. Abs(t.tu0) <= room /\ Abs(t.tv0) <= room
  BY <1>6 DEF TexHolds, AnchorsOK
<1>9. \A v : Fit(v) <=> Abs(v) <= LongMax
  BY DEF Fit, LongMax
<1>10. \A v \in Sums(t.tu0, st.tmr[1], st.tmr[2], x, k) : v \in Int /\ Fit(v)
  <2>1. PICK a \in Int, b \in Int, c \in Int : a = t.tu0 /\ b = st.tmr[1] /\ c = st.tmr[2]
    <3>1. st.tmr[1] \in Int /\ st.tmr[2] \in Int
      BY <1>3
    <3> QED BY <1>4, <3>1
  <2>2. Abs(a) <= room /\ Abs(b * x) <= room /\ Abs(c * k) <= room
    BY <1>5, <1>6, <1>8, <2>1 DEF GainsHold
  <2>3. \A v \in Sums(a, b, c, x, k) : v \in Int /\ Abs(v) <= LongMax
    BY <1>7, <2>2, SumsFit
  <2> QED BY <1>9, <2>1, <2>3
<1>11. \A v \in Sums(t.tv0, st.tmr[3], st.tmr[4], x, k) : v \in Int /\ Fit(v)
  <2>1. PICK a \in Int, b \in Int, c \in Int : a = t.tv0 /\ b = st.tmr[3] /\ c = st.tmr[4]
    <3>1. st.tmr[3] \in Int /\ st.tmr[4] \in Int
      BY <1>3
    <3> QED BY <1>4, <3>1
  <2>2. Abs(a) <= room /\ Abs(b * x) <= room /\ Abs(c * k) <= room
    BY <1>5, <1>6, <1>8, <2>1 DEF GainsHold
  <2>3. \A v \in Sums(a, b, c, x, k) : v \in Int /\ Abs(v) <= LongMax
    BY <1>7, <2>2, SumsFit
  <2> QED BY <1>9, <2>1, <2>3
<1>12. ASSUME st.persp
       PROVE  \A v \in Sums(t.tq0, st.tmr[5], st.tmr[6], x, k) : Fit(v)
  <2>1. PICK a \in Int, b \in Int, c \in Int : a = t.tq0 /\ b = st.tmr[5] /\ c = st.tmr[6]
    <3>1. st.tmr[5] \in Int /\ st.tmr[6] \in Int
      BY <1>3
    <3> QED BY <1>4, <3>1
  <2>2. QOK(a) /\ Budget \in Nat /\ Abs(b * x) <= Budget /\ Abs(c * k) <= Budget
    BY <1>1, <1>2, <1>12, <2>1, PlaceBudget DEF TexHolds
  <2>3. PICK most \in Nat : most = QMax
    BY CoordAssumption
  <2>4. PICK gain \in Nat : gain = Budget
    BY <2>2
  <2>5. Abs(a) <= most
    BY <2>2, <2>3, CoordAssumption DEF QOK, Abs
  <2>6. most + 2 * gain <= LongMax
    <3>1. (WordMax + 1) \div 4 \in Int
      BY WordAssumption
    <3> QED BY <1>7, <2>3, <2>4, <3>1, WordHas
  <2>7. \A v \in Sums(a, b, c, x, k) : v \in Int /\ Abs(v) <= LongMax
    BY <1>7, <2>2, <2>4, <2>5, <2>6, SumsFit
  <2> QED BY <1>9, <2>1, <2>7
<1> QED BY <1>1, <1>2, <1>10, <1>11, <1>12

\* The pixels of a row lie between its ends, and so do their coordinates.
LEMMA PixelHolds ==
  ASSUME NEW st, IsState(st), NEW t, IsTri(t), t.h > 0, NEW n \in Nat, OnRows(t, n),
         TexHolds(st, t), NEW k \in DrawnRows(t), NEW c \in LeftAt(t, k)..(RightAt(t, k) - 1)
  PROVE  PlaceHolds(st, t, c - t.left, k)
<1>1. t.left \in Int /\ t.h \in Int /\ k \in Rows(t) /\ k \in Int
  BY DEF IsTri, DrawnRows, Rows
<1>2. PICK l \in Int, r \in Int : l = LeftAt(t, k) - t.left /\ r = RightAt(t, k) - 1 - t.left
  <2>1. LeftAt(t, k) \in Int /\ RightAt(t, k) \in Int
    BY <1>1 DEF OnRows
  <2> QED BY <1>1, <2>1
<1>3. PICK x \in l..r : x = c - t.left
  <2>1. LeftAt(t, k) \in Int /\ RightAt(t, k) \in Int
    BY <1>1 DEF OnRows
  <2> QED BY <1>1, <1>2, <2>1
<1>4. PointOK(st, t, l, k) /\ PointOK(st, t, r, k)
  <2>1. <<l, k>> \in Ends(t) /\ <<r, k>> \in Ends(t)
    BY <1>2 DEF Ends
  <2>2. \A e \in Ends(t) : PointOK(st, t, e[1], e[2])
    BY DEF TexHolds, RowEndsOK
  <2>3. <<l, k>>[1] = l /\ <<l, k>>[2] = k /\ <<r, k>>[1] = r /\ <<r, k>>[2] = k
    OBVIOUS
  <2> QED BY <2>1, <2>2, <2>3
<1>5. PointOK(st, t, x, k)
  <2>1. OKAtCorners(st, t, l, r, k, k)
    <3>1. \A e \in {l, r} \X {k, k} : PointOK(st, t, e[1], e[2])
      <4>1. TAKE e \in {l, r} \X {k, k}
      <4>2. (e[1] = l \/ e[1] = r) /\ e[2] = k
        OBVIOUS
      <4> QED BY <1>4, <4>2
    <3> QED BY <3>1 DEF OKAtCorners
  <2>2. k \in k..k
    BY <1>1
  <2> QED BY <1>1, <2>1, <2>2, PointBetween
<1>6. <<x, k>> \in Places(t)
  BY <1>3, EndsArePlaces
<1>7. /\ \A v \in Sums(t.tu0, st.tmr[1], st.tmr[2], x, k) : Fit(v)
      /\ \A v \in Sums(t.tv0, st.tmr[3], st.tmr[4], x, k) : Fit(v)
      /\ st.persp => \A v \in Sums(t.tq0, st.tmr[5], st.tmr[6], x, k) : Fit(v)
  <2>1. PICK e \in Places(t) : e = <<x, k>>
    BY <1>6
  <2>2. e[1] = x /\ e[2] = k
    BY <2>1
  <2> QED BY <2>2, PlaceSums
<1>8. Fit((CoordMax \div QOne) * QAt(st, t, x, k))
  <2>1. QOK(QAt(st, t, x, k))
    BY <1>5 DEF PointOK, RatioOK
  <2>2. PICK q \in Int : q = QAt(st, t, x, k) /\ q >= 0 /\ q <= QMax
    BY <2>1, CoordAssumption DEF QOK
  <2>3. PICK C \in Int : C = CoordMax \div QOne /\ C >= 0
    <3>1. \A m \in Nat, d \in Nat \ {0} : m \div d \in Int /\ m \div d >= 0
      OBVIOUS
    <3> QED BY <3>1, UnitsTyped, CoordAssumption
  <2>4. PICK M \in Nat : M = QMax
    BY CoordAssumption
  <2>5. C * q <= C * M
    BY <2>2, <2>3, <2>4, SMTT(30)
  <2>6. C * M <= WordMax \div 2
    BY <2>3, <2>4, CoordAssumption
  <2>7. C * q \in Int /\ C * q >= 0 /\ C * M \in Int
    BY <2>2, <2>3
  <2>8. WordMax \div 2 \in Int
    BY WordAssumption
  <2> QED BY <2>2, <2>3, <2>5, <2>6, <2>7, <2>8 DEF Fit, Abs
<1> QED BY <1>3, <1>5, <1>7, <1>8 DEF PlaceHolds

\* The farthest coordinate of a trapezoid is a number.
Farthest(S) == Max({0} \cup S)
LEMMA FarthestIs ==
  ASSUME NEW S \in SUBSET Int, NEW n \in Int, \A x \in S : x <= n
  PROVE  Farthest(S) \in Nat
<1> DEFINE T == {0} \cup S
<1>1. PICK m \in Int : n <= m /\ 0 <= m
  <2>1. CASE n >= 0
    BY <2>1
  <2>2. CASE n < 0
    BY <2>2
  <2> QED BY <2>1, <2>2
<1>2. T \in SUBSET Int /\ T # {} /\ 0 \in T
  OBVIOUS
<1>3. \A x \in T : x <= m
  BY <1>1
<1> HIDE DEF T
<1>4. Max(T) \in T /\ \A x \in T : x <= Max(T)
  BY <1>2, <1>3, GreatestOf
<1>5. Max(T) \in Int /\ 0 <= Max(T)
  BY <1>2, <1>4
<1> QED BY <1>5 DEF Farthest, T

\* The reach of a trapezoid, which chooses its rung, is a natural number.
LEMMA ReachesAre ==
  ASSUME NEW st, IsState(st), NEW t, IsTri(t), t.h > 0, NEW n \in Nat, OnRows(t, n),
         TexHolds(st, t)
  PROVE  ReachU(st, t) \in Nat /\ ReachV(st, t) \in Nat
<1>1. \A e \in Ends(t) : /\ UAt(st, t, e[1], e[2]) \in Int /\ Fit(UAt(st, t, e[1], e[2]))
                         /\ VAt(st, t, e[1], e[2]) \in Int /\ Fit(VAt(st, t, e[1], e[2]))
  <2>1. TAKE e \in Ends(t)
  <2>2. e \in Places(t)
    BY EndsArePlaces
  <2>3. /\ UAt(st, t, e[1], e[2]) \in Sums(t.tu0, st.tmr[1], st.tmr[2], e[1], e[2])
        /\ VAt(st, t, e[1], e[2]) \in Sums(t.tv0, st.tmr[3], st.tmr[4], e[1], e[2])
    BY DEF UAt, VAt, Sums
  <2> QED BY <2>2, <2>3, PlaceSums
<1>2. PICK w \in Int : w = WordMax \div 2
  BY WordAssumption
<1>3. \A v \in Int : Fit(v) => Abs(v) \in Int /\ Abs(v) <= w
  BY <1>2 DEF Fit, Abs
<1> DEFINE U == {Abs(UAt(st, t, e[1], e[2])) : e \in Ends(t)}
           V == {Abs(VAt(st, t, e[1], e[2])) : e \in Ends(t)}
<1>4. (\A u \in U : u \in Int /\ u <= w) /\ (\A v \in V : v \in Int /\ v <= w)
  BY <1>1, <1>3
<1>5. ReachU(st, t) = Farthest(U) /\ ReachV(st, t) = Farthest(V)
  BY DEF ReachU, ReachV, Farthest
<1> HIDE DEF U, V
<1>6. U \in SUBSET Int /\ V \in SUBSET Int /\ (\A u \in U : u <= w) /\ (\A v \in V : v <= w)
  BY <1>4
<1>7. Farthest(U) \in Nat
  <2>1. \A u \in U : u <= w
    BY <1>6
  <2> QED BY <1>6, <2>1, FarthestIs
<1>8. Farthest(V) \in Nat
  <2>1. \A v \in V : v <= w
    BY <1>6
  <2> QED BY <1>6, <2>1, FarthestIs
<1> QED BY <1>5, <1>7, <1>8
-----------------------------------------------------------------------------
(* The builder: what its trapezoids are made of.                             *)

\* A power of two, as far as subpixels go.
LEMMA PowerIs ==
  ASSUME NEW n \in 0..8
  PROVE  2^n \in Nat \ {0}
<1>1. n = 0 \/ n = 1 \/ n = 2 \/ n = 3 \/ n = 4 \/ n = 5 \/ n = 6 \/ n = 7 \/ n = 8
  OBVIOUS
<1>2. {2^0, 2^1, 2^2, 2^3, 2^4, 2^5, 2^6, 2^7, 2^8} \subseteq Nat \ {0}
  OBVIOUS
<1> QED BY <1>1, <1>2

\* The powers of two that the builder scales by are positive.
LEMMA PowersAre ==
  ASSUME NEW s \in 0..SubBits
  PROVE  2^s \in Nat \ {0} /\ 2^(SubBits - s) \in Nat \ {0} /\ SubOne \in Nat \ {0}
<1>1. SubBits \in 0..8
  BY SubBitsAssumption
<1>2. PICK m \in 0..8 : m = SubBits - s
  BY <1>1
<1>3. s \in 0..8
  BY <1>1
<1>4. 2^s \in Nat \ {0} /\ 2^m \in Nat \ {0} /\ 2^SubBits \in Nat \ {0}
  BY <1>1, <1>3, PowerIs
<1> QED BY <1>2, <1>4 DEF SubOne

\* The builder's divisions give integers.
LEMMA CeilDivTyped ==
  ASSUME NEW a \in Int, NEW b \in Nat \ {0}
  PROVE  CeilDiv(a, b) \in Int /\ FloorDiv(a, b) \in Int
<1>1. -a \in Int
  OBVIOUS
<1> QED BY <1>1, DivisionIs DEF CeilDiv, FloorDiv

\* The corners in order down the screen.
IsCorners(v) == \A i \in 1..3 : {v[i].x, v[i].y} \subseteq Int
LEMMA ByYSorts ==
  ASSUME NEW tri, IsTriangle(tri)
  PROVE  /\ IsCorners(ByY(tri))
         /\ ByY(tri)[1].y <= ByY(tri)[2].y /\ ByY(tri)[2].y <= ByY(tri)[3].y
<1> DEFINE one == IF tri[1].y > tri[2].y THEN <<tri[2], tri[1], tri[3]>> ELSE tri
           two == IF one[2].y > one[3].y THEN <<one[1], one[3], one[2]>> ELSE one
           three == IF two[1].y > two[2].y THEN <<two[2], two[1], two[3]>> ELSE two
           Has(v) == /\ v[1].x \in Int /\ v[1].y \in Int /\ v[2].x \in Int /\ v[2].y \in Int
                     /\ v[3].x \in Int /\ v[3].y \in Int
<1>1. Has(tri)
  <2>1. \A i \in 1..3 : {tri[i].x, tri[i].y} \subseteq Int
    BY DEF IsTriangle
  <2> QED BY <2>1
<1>2. Has(one) /\ one[1].y <= one[2].y
  <2>1. CASE tri[1].y > tri[2].y
    BY <1>1, <2>1
  <2>2. CASE ~(tri[1].y > tri[2].y)
    BY <1>1, <2>2
  <2> QED BY <2>1, <2>2
<1> HIDE DEF one
<1>3. Has(two) /\ two[1].y <= two[3].y /\ two[2].y <= two[3].y
  <2>1. CASE one[2].y > one[3].y
    BY <1>2, <2>1
  <2>2. CASE ~(one[2].y > one[3].y)
    BY <1>2, <2>2
  <2> QED BY <2>1, <2>2
<1> HIDE DEF two
<1>4. Has(three) /\ three[1].y <= three[2].y /\ three[2].y <= three[3].y
  <2>1. CASE two[1].y > two[2].y
    BY <1>3, <2>1
  <2>2. CASE ~(two[1].y > two[2].y)
    BY <1>3, <2>2
  <2> QED BY <2>1, <2>2
<1>5. ByY(tri) = three
  BY DEF ByY, one, two
<1> HIDE DEF three
<1>6. \A i \in 1..3 : i = 1 \/ i = 2 \/ i = 3
  OBVIOUS
<1>7. IsCorners(three)
  BY <1>4, <1>6 DEF IsCorners
<1> QED BY <1>4, <1>5, <1>7

\* The registers of an edge with height left to walk are integers.
LEMMA RegsTyped ==
  ASSUME NEW e, {e.xa, e.ya, e.dee, e.height} \subseteq Int, NEW r0 \in Int,
         NEW s \in 0..SubBits, FloorDiv(e.height, 2^(SubBits - s)) > 0
  PROVE  LET g == EdgeRegs(e, r0, s)
         IN  {g.x0, g.mag, g.dy, g.err} \subseteq Int
<1> DEFINE step == 2^(SubBits - s)
           M == 2^s
           XA == FloorDiv(e.xa, step)
           YA == FloorDiv(e.ya, step)
           DD == FloorDiv(e.dee, step)
           HH == FloorDiv(e.height, step)
           Q2 == 2 * M * HH
           P0 == 2 * XA * HH - M * HH + ((2 * r0 + 1) * M - 2 * YA) * DD
           x0 == CeilDiv(P0, Q2)
           r == P0 - x0 * Q2
           e2 == IF DD >= 0 THEN r ELSE -r - Q2 + 1
           err == CeilDiv(e2, M)
<1>1. step \in Nat \ {0} /\ M \in Nat \ {0}
  BY PowersAre
<1>2. EdgeRegs(e, r0, s) = [x0 |-> x0, mag |-> 2 * Abs(DD), dy |-> 2 * HH, sgn |-> Sign(DD), err |-> err]
  BY DEF EdgeRegs
<1> HIDE DEF step, M
<1>3. XA \in Int /\ YA \in Int /\ DD \in Int /\ HH \in Int /\ HH > 0
  <2>1. XA \in Int /\ YA \in Int
    BY <1>1, CeilDivTyped
  <2>2. DD \in Int /\ HH \in Int
    BY <1>1, CeilDivTyped
  <2>3. HH > 0
    BY DEF step
  <2> QED BY <2>1, <2>2, <2>3
<1> HIDE DEF XA, YA, DD, HH
<1>4. Q2 \in Nat \ {0}
  BY <1>1, <1>3, SMTT(30)
<1>5. P0 \in Int
  <2>1. 2 * XA * HH \in Int /\ M * HH \in Int /\ (2 * r0 + 1) * M - 2 * YA \in Int
    BY <1>1, <1>3
  <2>2. ((2 * r0 + 1) * M - 2 * YA) * DD \in Int
    BY <1>3, <2>1
  <2> QED BY <2>1, <2>2
<1> HIDE DEF P0, Q2
<1>6. x0 \in Int
  BY <1>4, <1>5, CeilDivTyped
<1> HIDE DEF x0
<1>7. e2 \in Int
  <2>1. r \in Int
    BY <1>4, <1>5, <1>6
  <2> HIDE DEF r
  <2> QED BY <1>4, <2>1
<1> HIDE DEF e2
<1>8. err \in Int
  BY <1>1, <1>7, CeilDivTyped
<1>9. 2 * Abs(DD) \in Int /\ 2 * HH \in Int
  BY <1>3 DEF Abs
<1> HIDE DEF err
<1> QED BY <1>2, <1>6, <1>8, <1>9

\* A trapezoid with integers for its row, its height, its columns and its registers.
IsTrap(t) ==
  {t.y, t.h, t.left, t.right, t.ar0, t.ar1, t.ar2, t.ar4, t.ar5, t.ar6} \subseteq Int
IsEdge(e, s) ==
  /\ {e.xa, e.ya, e.dee, e.height} \subseteq Int
  /\ FloorDiv(e.height, 2^(SubBits - s)) > 0
LEMMA WalkedTyped ==
  ASSUME NEW s \in 0..SubBits, NEW le, IsEdge(le, s), NEW re, IsEdge(re, s),
         NEW y \in Int, NEW h \in Int
  PROVE  IsTrap(Walked(le, re, y, h, s)) /\ Walked(le, re, y, h, s).h = h
<1> DEFINE l == EdgeRegs(le, y, s)
           r == EdgeRegs(re, y, s)
<1>1. {l.x0, l.mag, l.dy, l.err} \subseteq Int
  BY RegsTyped DEF IsEdge
<1>2. {r.x0, r.mag, r.dy, r.err} \subseteq Int
  BY RegsTyped DEF IsEdge
<1>3. Walked(le, re, y, h, s) = Registers(l, r, y, h)
  BY DEF Walked
<1> HIDE DEF l, r
<1>4. IsTrap(Registers(l, r, y, h)) /\ Registers(l, r, y, h).h = h
  BY <1>1, <1>2 DEF Registers, IsTrap
<1> QED BY <1>3, <1>4

\* What is drawn between two edges is one trapezoid, or none.
LEMMA DrawnPartIs ==
  ASSUME NEW s \in 0..SubBits, NEW le, NEW re,
         NEW first \in Int, NEW rows \in Int, rows > 0 => IsEdge(le, s) /\ IsEdge(re, s)
  PROVE  \/ DrawnPart(le, re, first, rows, s) = <<>>
         \/ \E t : IsTrap(t) /\ DrawnPart(le, re, first, rows, s) = <<t>>
<1> DEFINE skip == FirstDrawn(le, re, first, rows, s)
<1>1. DrawnPart(le, re, first, rows, s) =
        IF rows <= 0 \/ skip >= rows THEN <<>> ELSE <<Walked(le, re, first + skip, rows - skip, s)>>
  BY DEF DrawnPart, Between
<1>2. CASE rows <= 0
  BY <1>1, <1>2
<1>3. CASE rows > 0
  <2>1. IsEdge(le, s) /\ IsEdge(re, s)
    BY <1>3
  <2>2. PICK t : t = Walked(le, re, first, rows, s) /\ IsTrap(t) /\ t.h = rows
    BY <2>1, WalkedTyped
  <2>3. skip \in Int
    <3> DEFINE S == {rows} \cup DrawnRows(t)
    <3>1. skip = Min(S)
      BY <2>2 DEF FirstDrawn
    <3>2. DrawnRows(t) \subseteq Nat
      BY <2>2 DEF DrawnRows, Rows
    <3>3. S \in SUBSET Nat /\ S # {}
      BY <1>3, <3>2
    <3> HIDE DEF S
    <3>4. Min(S) \in S
      BY <3>3, LeastNatural
    <3>5. Min(S) \in Nat
      BY <3>3, <3>4
    <3> HIDE DEF skip
    <3> QED BY <3>1, <3>5
  <2> HIDE DEF skip
  <2>4. first + skip \in Int /\ rows - skip \in Int
    BY <2>3
  <2>5. IsTrap(Walked(le, re, first + skip, rows - skip, s))
    BY <2>1, <2>4, WalkedTyped
  <2> QED BY <1>1, <2>5
<1> QED BY <1>2, <1>3

\* The row of a vertex is an integer.
LEMMA RowOfTyped ==
  ASSUME NEW y \in Int
  PROVE  RowOf(y) \in Int
<1>1. SubOne \in Nat \ {0}
  <2>1. PICK s \in 0..SubBits : s = 0
    BY SubBitsAssumption
  <2> QED BY PowersAre
<1>2. y - SubOne \div 2 \in Int
  <2>1. PICK n \in Nat : n = SubOne
    BY <1>1
  <2>2. n \div 2 \in Int
    OBVIOUS
  <2> QED BY <2>1, <2>2
<1> QED BY <1>1, <1>2, CeilDivTyped DEF RowOf

\* An edge that does not vanish at a precision is one with height left to walk.
LEMMA EdgeStands ==
  ASSUME NEW s \in 0..SubBits, NEW p, NEW q, {p.x, p.y, q.x, q.y} \subseteq Int,
         q.y > p.y, ~EdgeVanishes(q.y - p.y, s)
  PROVE  IsEdge(Edge(p, q), s)
<1>1. PICK h \in Nat \ {0} : h = q.y - p.y
  OBVIOUS
<1>2. PICK d \in Nat \ {0} : d = 2^(SubBits - s)
  BY PowersAre
<1>3. Abs(h) = h
  BY DEF Abs
<1>4. h \div d # 0
  BY <1>1, <1>2, <1>3 DEF EdgeVanishes
<1>5. h \div d > 0
  BY <1>4
<1>6. /\ Edge(p, q).xa = p.x /\ Edge(p, q).ya = p.y /\ Edge(p, q).dee = q.x - p.x
      /\ Edge(p, q).height = h
  BY <1>1 DEF Edge
<1>7. {Edge(p, q).xa, Edge(p, q).ya, Edge(p, q).dee, Edge(p, q).height} \subseteq Int
  BY <1>6
<1> QED BY <1>2, <1>5, <1>6, <1>7 DEF IsEdge, FloorDiv

\* A half of the triangle is one trapezoid, or none.
LEMMA HalfIs ==
  ASSUME NEW s \in 0..SubBits, NEW v, IsCorners(v),
         v[1].y <= v[2].y, v[2].y <= v[3].y,
         NEW from \in {1, 2}, NEW to, to = from + 1, ~HalfVanishes(v, from, to, s)
  PROVE  \/ Half(v, from, to, s) = <<>>
         \/ \E t : IsTrap(t) /\ Half(v, from, to, s) = <<t>>
<1> DEFINE long == Edge(v[1], v[3])
           short == Edge(v[from], v[to])
           le == IF LongIsLeft(v) THEN long ELSE short
           re == IF LongIsLeft(v) THEN short ELSE long
           first == RowOf(v[from].y)
           rows == HalfRows(v, from, to)
<1>1. /\ {v[1].x, v[1].y, v[2].x, v[2].y, v[3].x, v[3].y} \subseteq Int
      /\ {v[from].x, v[from].y, v[to].x, v[to].y} \subseteq Int
  <2>1. \A i \in 1..3 : {v[i].x, v[i].y} \subseteq Int
    BY DEF IsCorners
  <2> QED BY <2>1
<1>2. first \in Int /\ rows \in Int
  <2>1. RowOf(v[from].y) \in Int /\ RowOf(v[to].y) \in Int
    BY <1>1, RowOfTyped
  <2> QED BY <2>1 DEF HalfRows
<1>3. ASSUME rows > 0 PROVE IsEdge(long, s) /\ IsEdge(short, s)
  <2>1. v[to].y > v[from].y
    BY <1>3 DEF HalfRows
  <2>2. v[3].y > v[1].y
    BY <1>1, <2>1
  <2>3. ~EdgeVanishes(v[3].y - v[1].y, s) /\ ~EdgeVanishes(v[to].y - v[from].y, s)
    BY <1>3 DEF HalfVanishes
  <2> QED BY <1>1, <2>1, <2>2, <2>3, EdgeStands
<1>4. rows > 0 => IsEdge(le, s) /\ IsEdge(re, s)
  <2> HIDE DEF long, short, rows
  <2> QED BY <1>3
<1>5. Half(v, from, to, s) = DrawnPart(le, re, first, rows, s)
  BY DEF Half
<1> HIDE DEF le, re, first, rows
<1> QED BY <1>2, <1>4, <1>5, DrawnPartIs

\* The precision is one of those there are.
LEMMA PrecisionIs ==
  ASSUME NEW v
  PROVE  Precision(v) \in 0..SubBits
<1> DEFINE S == {0} \cup {s \in 1..SubBits : Worst(v, s) <= EdgeWalk}
<1>1. S \in SUBSET Int /\ S # {} /\ (\A s \in S : s \in 0..SubBits) /\ SubBits \in Int
  BY SubBitsAssumption
<1>2. Precision(v) = Max(S)
  BY DEF Precision
<1> HIDE DEF S
<1>3. \A s \in S : s <= SubBits
  BY <1>1
<1>4. Max(S) \in S
  BY <1>1, <1>3, GreatestOf
<1> QED BY <1>1, <1>2, <1>4

\* One or none, and one or none after it, are as many trapezoids.
IsPart(s) == s = <<>> \/ \E t : IsTrap(t) /\ s = <<t>>
LEMMA PartsAre ==
  ASSUME NEW a, IsPart(a), NEW b, IsPart(b)
  PROVE  \E n \in 0..2 : DOMAIN (a \o b) = 1..n /\ \A i \in 1..n : IsTrap((a \o b)[i])
<1>1. PICK U : a \in Seq(U) /\ b \in Seq(U)
  <2>1. PICK x : a = <<>> \/ a = <<x>>
    BY DEF IsPart
  <2>2. PICK y : b = <<>> \/ b = <<y>>
    BY DEF IsPart
  <2>3. <<x>> \in Seq({x, y}) /\ <<y>> \in Seq({x, y})
    OBVIOUS
  <2>4. a \in Seq({x, y}) /\ b \in Seq({x, y})
    <3>1. <<>> \in Seq({x, y})
      BY EmptySeq
    <3> QED BY <2>1, <2>2, <2>3, <3>1
  <2> QED BY <2>4
<1>2. /\ a \o b \in Seq(U) /\ Len(a \o b) = Len(a) + Len(b)
      /\ \A i \in 1..(Len(a) + Len(b)) :
           (a \o b)[i] = IF i <= Len(a) THEN a[i] ELSE b[i - Len(a)]
  BY <1>1, ConcatProperties
<1>3. (Len(a) = 0 \/ Len(a) = 1) /\ (Len(b) = 0 \/ Len(b) = 1)
  BY DEF IsPart
<1>4. (Len(a) = 1 => IsTrap(a[1])) /\ (Len(b) = 1 => IsTrap(b[1]))
  BY DEF IsPart
<1>5. PICK c : c = a \o b
  OBVIOUS
<1>6. PICK n \in Nat : n = Len(a) + Len(b)
  BY <1>3
<1>7. DOMAIN c = 1..n
  BY <1>2, <1>5, <1>6
<1>8. ASSUME NEW i \in 1..n PROVE IsTrap(c[i])
  <2>1. c[i] = IF i <= Len(a) THEN a[i] ELSE b[i - Len(a)]
    BY <1>2, <1>5, <1>6
  <2>2. CASE i <= Len(a)
    <3>1. i = 1 /\ Len(a) = 1
      <4>1. i \in Int /\ i >= 1
        OBVIOUS
      <4> QED BY ONLY <1>3, <2>2, <4>1
    <3> QED BY <1>4, <2>1, <2>2, <3>1
  <2>3. CASE ~(i <= Len(a))
    <3>1. i - Len(a) = 1 /\ Len(b) = 1
      <4>1. i \in Int /\ i >= 1 /\ i <= Len(a) + Len(b)
        BY <1>6
      <4>2. PICK l \in {0, 1}, m \in {0, 1} : l = Len(a) /\ m = Len(b)
        BY <1>3
      <4>3. i > l /\ i <= l + m
        BY <2>3, <4>1, <4>2
      <4>4. m = 1 /\ i - l = 1
        BY ONLY <4>1, <4>3, l \in {0, 1}, m \in {0, 1}
      <4> QED BY <4>2, <4>4
    <3> QED BY <1>4, <2>1, <2>3, <3>1
  <2> QED BY <2>2, <2>3
<1>9. n \in 0..2
  <2>1. PICK l \in {0, 1}, m \in {0, 1} : l = Len(a) /\ m = Len(b)
    BY <1>3
  <2>2. n = l + m
    BY <1>6, <2>1
  <2> QED BY ONLY <2>2, l \in {0, 1}, m \in {0, 1}
<1>10. \E m \in 0..2 : DOMAIN c = 1..m /\ \A i \in 1..m : IsTrap(c[i])
  BY <1>7, <1>8, <1>9
<1> QED BY <1>5, <1>10

\* Rounding gives an integer.
LEMMA RoundTyped ==
  ASSUME NEW n \in Int, NEW d \in Nat \ {0}
  PROVE  RoundHalfUp(n, d) \in Int
<1>1. 2 * n + d \in Int /\ 2 * d \in Nat \ {0}
  OBVIOUS
<1> QED BY <1>1, DivisionIs DEF RoundHalfUp

\* A plane over a triangle of some area, its value at a pixel's centre.
LEMMA PlaneTyped ==
  ASSUME NEW tri, IsTriangle(tri), Doubled(tri) # 0,
         NEW a \in Int, NEW b \in Int, NEW c \in Int
  PROVE  LET p == Plane(tri, a, b, c)
         IN  p.at = a /\ p.den \in Nat \ {0} /\ p.dx \in Int /\ p.dy \in Int
<1>1. /\ tri[1].x \in Int /\ tri[1].y \in Int /\ tri[2].x \in Int /\ tri[2].y \in Int
      /\ tri[3].x \in Int /\ tri[3].y \in Int
  <2>1. \A i \in 1..3 : {tri[i].x, tri[i].y} \subseteq Int
    BY DEF IsTriangle
  <2> QED BY <2>1
<1>2. PICK x2 \in Int, x3 \in Int, y2 \in Int, y3 \in Int :
        /\ x2 = tri[2].x - tri[1].x /\ x3 = tri[3].x - tri[1].x
        /\ y2 = tri[2].y - tri[1].y /\ y3 = tri[3].y - tri[1].y
  BY <1>1
<1>3. PICK D \in Int : D = Doubled(tri)
  <2>1. x2 * y3 - x3 * y2 \in Int
    OBVIOUS
  <2> QED BY <1>2, <2>1 DEF Doubled
<1>4. PICK s \in {-1, 1} : s = Sign(Doubled(tri))
  BY DEF Sign
<1>5. Abs(D) \in Nat \ {0}
  BY <1>3 DEF Abs
<1>6. s * ((b - a) * y3 - (c - a) * y2) \in Int /\ s * ((c - a) * x2 - (b - a) * x3) \in Int
  <2>1. /\ (b - a) * y3 \in Int /\ (c - a) * y2 \in Int
        /\ (c - a) * x2 \in Int /\ (b - a) * x3 \in Int
    OBVIOUS
  <2> QED BY <2>1
<1>7. Plane(tri, a, b, c) = [at |-> a, den |-> Abs(D), dx |-> s * ((b - a) * y3 - (c - a) * y2),
                             dy |-> s * ((c - a) * x2 - (b - a) * x3)]
  BY <1>2, <1>3, <1>4 DEF Plane
<1> QED BY <1>5, <1>6, <1>7

\* The anchor of a texture plane is an integer.
LEMMA AnchorTyped ==
  ASSUME NEW tri, IsTriangle(tri), Doubled(tri) # 0, NEW u, {u[1], u[2], u[3]} \subseteq Int,
         NEW t, IsTrap(t)
  PROVE  AnchorOf(t, tri, u) \in Int
<1>1. PICK p : p = Plane(tri, u[1], u[2], u[3])
  OBVIOUS
<1>2. p.at \in Int /\ p.den \in Nat \ {0} /\ p.dx \in Int /\ p.dy \in Int
  BY <1>1, PlaneTyped
<1>3. t.left \in Int /\ t.y \in Int
  BY DEF IsTrap
<1>4. tri[1].x \in Int /\ tri[1].y \in Int
  <2>1. \A i \in 1..3 : {tri[i].x, tri[i].y} \subseteq Int
    BY DEF IsTriangle
  <2> QED BY <2>1
<1>5. PICK one \in Nat : one = SubOne
  <2>1. PICK s \in 0..SubBits : s = 0
    BY SubBitsAssumption
  <2> QED BY PowersAre
<1>6. 2 * one * t.left + one - 2 * tri[1].x \in Int /\ 2 * one * t.y + one - 2 * tri[1].y \in Int
  BY <1>3, <1>4
<1>7. AtCentre(p, tri[1], t.left, t.y) \in Int
  <2>1. PICK m \in Int, n \in Int : /\ m = 2 * one * t.left + one - 2 * tri[1].x
                                    /\ n = 2 * one * t.y + one - 2 * tri[1].y
    BY <1>6
  <2>2. 2 * p.at * p.den \in Int /\ p.dx * m \in Int /\ p.dy * n \in Int
    BY <1>2
  <2>3. AtCentre(p, tri[1], t.left, t.y) = 2 * p.at * p.den + p.dx * m + p.dy * n
    BY <1>5, <2>1 DEF AtCentre
  <2> QED BY <2>2, <2>3
<1>8. 2 * p.den \in Nat \ {0}
  BY <1>2
<1> QED BY <1>1, <1>7, <1>8, RoundTyped DEF AnchorOf

\* So are its slopes.
LEMMA SlopesTyped ==
  ASSUME NEW tri, IsTriangle(tri), Doubled(tri) # 0, NEW u, {u[1], u[2], u[3]} \subseteq Int
  PROVE  \A i \in 1..6 : TmrOf(tri, u)[i] \in Int
<1>1. PICK p : p = Plane(tri, u[1], u[2], u[3])
  OBVIOUS
<1>2. p.den \in Nat \ {0} /\ p.dx \in Int /\ p.dy \in Int
  BY <1>1, PlaneTyped
<1>3. PICK one \in Nat : one = SubOne
  <2>1. PICK s \in 0..SubBits : s = 0
    BY SubBitsAssumption
  <2> QED BY PowersAre
<1>4. p.dx * one \in Int /\ p.dy * one \in Int
  BY <1>2
<1>5. PICK x \in Int, y \in Int : /\ x = RoundHalfUp(p.dx * SubOne, p.den)
                                  /\ y = RoundHalfUp(p.dy * SubOne, p.den)
  BY <1>2, <1>3, <1>4, RoundTyped
<1>6. TmrOf(tri, u) = <<x, y, 0, 0, 0, 0>>
  BY <1>1, <1>5 DEF TmrOf
<1>7. \A i \in 1..6 : i = 1 \/ i = 2 \/ i = 3 \/ i = 4 \/ i = 5 \/ i = 6
  OBVIOUS
<1> QED BY <1>6, <1>7

\* The whole repeats taken off a coordinate leave it an integer.
LEMMA HeldTyped ==
  ASSUME NEW v \in Int, NEW lo \in Int, NEW hi \in Int
  PROVE  Clamped(v, lo, hi) \in Int
<1> DEFINE S == {v, hi}
           T(m) == {lo, m}
<1>1. PICK n \in Int : n <= v /\ n <= hi /\ n <= lo
  <2>1. \A x, y \in Int : \E z \in Int : z <= x /\ z <= y
    <3>1. TAKE x, y \in Int
    <3>2. CASE x <= y
      BY <3>2
    <3>3. CASE y <= x
      BY <3>3
    <3> QED BY <3>2, <3>3
  <2>2. PICK z \in Int : z <= v /\ z <= hi
    BY <2>1
  <2>3. PICK w \in Int : w <= z /\ w <= lo
    BY <2>1
  <2> QED BY <2>2, <2>3
<1>2. S \in SUBSET Int /\ S # {} /\ (\A x \in S : n <= x) /\ v \in S
  BY <1>1
<1> HIDE DEF S
<1>3. PICK m \in Int : m = Min(S)
  BY <1>2, LeastOf
<1>4. PICK g \in Int : lo <= g /\ m <= g
  <2>1. CASE lo <= m
    BY <2>1
  <2>2. CASE m <= lo
    BY <2>2
  <2> QED BY <2>1, <2>2
<1>5. T(m) \in SUBSET Int /\ T(m) # {} /\ \A x \in T(m) : x <= g
  BY <1>4
<1>6. Clamped(v, lo, hi) = Max(T(m))
  BY <1>3 DEF Clamped, S
<1> HIDE DEF T
<1>7. Max(T(m)) \in T(m)
  BY <1>5, GreatestOf
<1> QED BY <1>5, <1>6, <1>7

\* And the coordinates taken to the origin of a repeat.
LEMMA RebasedTyped ==
  ASSUME NEW u, {u[1], u[2], u[3]} \subseteq Int, NEW repeats
  PROVE  {Rebased(u, repeats)[1], Rebased(u, repeats)[2], Rebased(u, repeats)[3]} \subseteq Int
<1> DEFINE S == {u[1], u[2], u[3]}
           lo == Min(S)
           hi == Max(S)
           taken == repeats /\ (lo < 0 \/ hi > 8 * Span) /\ RebaseKs(lo, hi) # {}
<1>1. PICK n \in Int, g \in Int : \A x \in S : n <= x /\ x <= g
  <2>1. \A x, y \in Int : \E z \in Int : z <= x /\ z <= y
    <3>1. TAKE x, y \in Int
    <3>2. CASE x <= y
      BY <3>2
    <3>3. CASE y <= x
      BY <3>3
    <3> QED BY <3>2, <3>3
  <2>2. \A x, y \in Int : \E z \in Int : x <= z /\ y <= z
    <3>1. TAKE x, y \in Int
    <3>2. CASE x <= y
      BY <3>2
    <3>3. CASE y <= x
      BY <3>3
    <3> QED BY <3>2, <3>3
  <2>3. PICK z \in Int : z <= u[1] /\ z <= u[2]
    BY <2>1
  <2>4. PICK w \in Int : w <= z /\ w <= u[3]
    BY <2>1
  <2>5. PICK a \in Int : u[1] <= a /\ u[2] <= a
    BY <2>2
  <2>6. PICK b \in Int : a <= b /\ u[3] <= b
    BY <2>2
  <2> QED BY <2>3, <2>4, <2>5, <2>6
<1>2. lo \in Int /\ hi \in Int
  <2>1. S # {} /\ S \in SUBSET Int
    OBVIOUS
  <2> HIDE DEF S
  <2>2. \A x \in S : n <= x
    BY <1>1
  <2>3. \A x \in S : x <= g
    BY <1>1
  <2>4. Min(S) \in S /\ Max(S) \in S
    BY <2>1, <2>2, <2>3, LeastOf, GreatestOf
  <2> QED BY <2>1, <2>4
<1>3. Rebased(u, repeats) = IF taken THEN [i \in 1..3 |-> u[i] - RebaseK(lo, hi) * Span] ELSE u
  BY DEF Rebased
<1> HIDE DEF lo, hi
<1>4. ASSUME RebaseKs(lo, hi) # {} PROVE RebaseK(lo, hi) \in Int
  <2>1. PICK m \in Nat \ {0} : m = Span
    BY CoordAssumption
  <2>2. PICK a \in Int : a = CeilDiv(hi - 8 * m, m)
    BY <1>2, CeilDivTyped
  <2>3. PICK b \in Int : b = FloorDiv(lo + m, m)
    BY <1>2, CeilDivTyped
  <2>4. RebaseKs(lo, hi) = a..b
    BY <2>1, <2>2, <2>3 DEF RebaseKs
  <2> DEFINE K == a..b
  <2>5. K \in SUBSET Int /\ K # {}
    BY <1>4, <2>4
  <2>6. (\A x \in K : a <= x) /\ (\A x \in K : x <= b)
    OBVIOUS
  <2> HIDE DEF K
  <2>7. Min(K) \in Int /\ Max(K) \in Int
    <3>1. Min(K) \in K /\ Max(K) \in K
      BY <2>5, <2>6, LeastOf, GreatestOf
    <3> QED BY <2>5, <3>1
  <2>8. FloorDiv(lo + hi - 6 * m, 2 * m) \in Int
    <3>1. lo + hi - 6 * m \in Int /\ 2 * m \in Nat \ {0}
      BY <1>2
    <3> QED BY <3>1, CeilDivTyped
  <2>9. RebaseK(lo, hi) = Clamped(FloorDiv(lo + hi - 6 * m, 2 * m), Min(K), Max(K))
    BY <2>1, <2>4 DEF RebaseK, K
  <2> QED BY <2>7, <2>8, <2>9, HeldTyped
<1>5. CASE taken
  <2>1. PICK k \in Int : k = RebaseK(lo, hi) * Span
    <3>1. RebaseK(lo, hi) \in Int /\ Span \in Int
      BY <1>4, <1>5, CoordAssumption
    <3> QED BY <3>1
  <2>2. Rebased(u, repeats) = [i \in 1..3 |-> u[i] - k]
    BY <1>3, <1>5, <2>1
  <2>3. u[1] - k \in Int /\ u[2] - k \in Int /\ u[3] - k \in Int
    OBVIOUS
  <2> QED BY <2>2, <2>3
<1>6. CASE ~taken
  <2> HIDE DEF taken
  <2> QED BY <1>3, <1>6
<1> QED BY <1>5, <1>6

\* What a trapezoid becomes with its words, colour and anchors.
LEMMA DressedTyped ==
  ASSUME NEW tri, IsTriangle(tri), Doubled(tri) # 0, NEW u, {u[1], u[2], u[3]} \subseteq Int,
         NEW t, IsTrap(t), NEW prim, NEW offset
  PROVE  IsTri(Dressed(t, tri, u, prim, offset))
<1>1. PICK n \in Int : n = AnchorOf(t, tri, u)
  BY AnchorTyped
<1>2. PICK m \in Int : m = IF prim.opcode = OpTex THEN n ELSE 0
  OBVIOUS
<1>3. PICK colour : colour = ColourOf(t, tri)
  OBVIOUS
<1>4. PICK depth, dr : depth = DepthOf(t, tri, offset) /\ dr = {colour[i] : i \in 1..3}
  OBVIOUS
<1>5. PICK d : d = Dressed(t, tri, u, prim, offset)
  OBVIOUS
<1>6. d = [y |-> t.y, h |-> t.h, left |-> t.left % 65536, right |-> t.right % 65536, sgn |-> t.sgn,
           ar0 |-> t.ar0, ar1 |-> t.ar1, ar2 |-> t.ar2, ar4 |-> t.ar4, ar5 |-> t.ar5, ar6 |-> t.ar6,
           prim |-> prim, colour |-> colour, dr |-> dr, depth |-> depth,
           tu0 |-> m, tv0 |-> 0, tq0 |-> QOne]
  BY <1>1, <1>2, <1>3, <1>4, <1>5 DEF Dressed
<1>7. DOMAIN d = TriFields
  BY <1>6 DEF TriFields
<1>8. t.left % 65536 \in Nat /\ t.right % 65536 \in Nat
  BY DEF IsTrap
<1>9. {d.left, d.right} \subseteq Nat
  BY <1>6, <1>8
<1>10. {d.y, d.h, d.ar0, d.ar1, d.ar2, d.ar4, d.ar5, d.ar6, d.tu0, d.tv0, d.tq0} \subseteq Int
  BY <1>6, UnitsTyped DEF IsTrap
<1> QED BY <1>5, <1>7, <1>9, <1>10 DEF IsTri

\* Its words are those it was given.
LEMMA DressedPrim ==
  ASSUME NEW t, NEW tri, NEW u, NEW prim, NEW offset
  PROVE  Dressed(t, tri, u, prim, offset).prim = prim
<1>1. PICK colour, depth, dr, anchor :
        /\ colour = ColourOf(t, tri) /\ depth = DepthOf(t, tri, offset)
        /\ dr = {colour[i] : i \in 1..3}
        /\ anchor = IF prim.opcode = OpTex THEN AnchorOf(t, tri, u) ELSE 0
  OBVIOUS
<1>2. PICK left, right : left = t.left % 65536 /\ right = t.right % 65536
  OBVIOUS
<1>3. Dressed(t, tri, u, prim, offset) =
        [y |-> t.y, h |-> t.h, left |-> left, right |-> right, sgn |-> t.sgn,
         ar0 |-> t.ar0, ar1 |-> t.ar1, ar2 |-> t.ar2, ar4 |-> t.ar4, ar5 |-> t.ar5, ar6 |-> t.ar6,
         prim |-> prim, colour |-> colour, dr |-> dr, depth |-> depth,
         tu0 |-> anchor, tv0 |-> 0, tq0 |-> QOne]
  BY <1>1, <1>2 DEF Dressed
<1> QED BY <1>3

\* What the builder hands on is made of trapezoids the driver can read, of the words it was
\* given and no more than two.
Worded(tris, prim) ==
  \E n \in 1..2 : DOMAIN tris = 1..n /\ \A i \in 1..n : tris[i].prim = prim
LEMMA BuiltIs ==
  ASSUME NEW tri, IsTriangle(tri), NEW prim, NEW repeats, NEW offset,
         BuildTriangle(tri, prim, repeats, offset).tris # <<>>
  PROVE  /\ IsTris(BuildTriangle(tri, prim, repeats, offset).tris)
         /\ Worded(BuildTriangle(tri, prim, repeats, offset).tris, prim)
         /\ \A i \in 1..6 : BuildTriangle(tri, prim, repeats, offset).tmr[i] \in Int
<1> DEFINE v == ByY(tri)
           s == Precision(v)
           given == <<tri[1].u, tri[2].u, tri[3].u>>
           u == Rebased(given, repeats)
           upper == Half(v, 1, 2, s)
           lower == Half(v, 2, 3, s)
           halves == upper \o lower
           dressed == [i \in DOMAIN halves |-> Dressed(halves[i], tri, u, prim, offset)]
           no == [ok |-> FALSE, tris |-> <<>>, tmr |-> <<0, 0, 0, 0, 0, 0>>]
           far == \E i \in 1..3 : ~CoordOK(tri[i])
           offsets == ~OffsetOK(tri, offset)
           texture == prim.opcode = OpTex /\ ~TexInRange(u)
           vanishes == HalfVanishes(v, 1, 2, s) \/ HalfVanishes(v, 2, 3, s)
           built == BuildTriangle(tri, prim, repeats, offset)
<1>1. built = IF far THEN no
              ELSE IF Doubled(tri) = 0 THEN [no EXCEPT !.ok = TRUE]
              ELSE IF offsets THEN no
              ELSE IF texture THEN no
              ELSE IF vanishes THEN no
              ELSE [ok |-> TRUE, tmr |-> TmrOf(tri, u), tris |-> dressed]
  BY DEF BuildTriangle
<1>2. Doubled(tri) # 0 /\ ~vanishes /\ built = [ok |-> TRUE, tmr |-> TmrOf(tri, u), tris |-> dressed]
  <2>1. built.tris # <<>>
    OBVIOUS
  <2>2. no.tris = <<>> /\ [no EXCEPT !.ok = TRUE].tris = <<>>
    OBVIOUS
  <2> DEFINE done == [ok |-> TRUE, tmr |-> TmrOf(tri, u), tris |-> dressed]
             flat == [no EXCEPT !.ok = TRUE]
  <2> HIDE DEF built, far, offsets, texture, vanishes, no, flat, done
  <2>3. built # no /\ built # flat
    BY <2>1, <2>2 DEF flat
  <2> QED BY <1>1, <2>3 DEF done, flat
<1>3. \A i \in 1..3 : {tri[i].x, tri[i].y, tri[i].u} \subseteq Int
  BY DEF IsTriangle
<1>4. {u[1], u[2], u[3]} \subseteq Int
  <2>1. {given[1], given[2], given[3]} \subseteq Int
    BY <1>3
  <2> HIDE DEF given
  <2> QED BY <2>1, RebasedTyped
<1>5. IsCorners(v) /\ v[1].y <= v[2].y /\ v[2].y <= v[3].y
  BY ByYSorts
<1> HIDE DEF v, u, dressed
<1>6. s \in 0..SubBits
  BY PrecisionIs
<1> HIDE DEF s
<1>7. IsPart(upper) /\ IsPart(lower)
  <2>1. 2 = 1 + 1 /\ 3 = 2 + 1 /\ 1 \in {1, 2} /\ 2 \in {1, 2}
    OBVIOUS
  <2>2. IsPart(upper)
    BY <1>2, <1>5, <1>6, <2>1, HalfIs DEF IsPart
  <2>3. IsPart(lower)
    BY <1>2, <1>5, <1>6, <2>1, HalfIs DEF IsPart
  <2> QED BY <2>2, <2>3
<1> HIDE DEF upper, lower
<1>8. PICK n \in 0..2 : DOMAIN halves = 1..n /\ \A i \in 1..n : IsTrap(halves[i])
  BY <1>7, PartsAre
<1> HIDE DEF halves
<1>9. DOMAIN dressed = 1..n /\ \A i \in 1..n : IsTri(dressed[i]) /\ dressed[i].prim = prim
  <2>1. dressed = [i \in 1..n |-> Dressed(halves[i], tri, u, prim, offset)]
    BY <1>8 DEF dressed
  <2>2. \A i \in 1..n : /\ IsTri(Dressed(halves[i], tri, u, prim, offset))
                         /\ Dressed(halves[i], tri, u, prim, offset).prim = prim
    BY <1>2, <1>4, <1>8, DressedTyped, DressedPrim
  <2> QED BY <2>1, <2>2
<1>10. IsTris(dressed)
  <2>1. dressed \in [1..n -> Range(dressed)]
    <3>1. dressed = [i \in 1..n |-> dressed[i]]
      BY <1>8 DEF dressed
    <3>2. \A i \in 1..n : dressed[i] \in Range(dressed)
      BY <1>9 DEF Range
    <3> HIDE DEF dressed
    <3> QED BY <3>1, <3>2
  <2>2. dressed \in Seq(Range(dressed))
    BY <2>1, SeqDef
  <2> QED BY <1>9, <2>2 DEF IsTris
<1>11. \A i \in 1..6 : TmrOf(tri, u)[i] \in Int
  BY <1>2, <1>4, SlopesTyped
<1>12. Worded(dressed, prim)
  <2>1. built.tris = dressed /\ built.tris # <<>>
    BY <1>2
  <2> HIDE DEF dressed, built
  <2>2. n # 0
    <3>1. SUFFICES ASSUME n = 0 PROVE FALSE
      OBVIOUS
    <3>2. Len(dressed) = 0 /\ dressed \in Seq(Range(dressed))
      BY <1>9, <1>10, <3>1 DEF IsTris
    <3> QED BY <2>1, <3>2, EmptySeq
  <2>3. n \in 1..2
    BY <2>2
  <2> QED BY <1>9, <2>3 DEF Worded
<1> HIDE DEF built
<1> QED BY <1>2, <1>10, <1>11, <1>12 DEF built
-----------------------------------------------------------------------------
(* The induction over the path.                                              *)

\* Where the engine stands is where the closed forms say it does.
WalkHolds ==
  /\ at.tri \in DOMAIN batch.tris /\ at.row \in 0..(Tri.h - 1)
  /\ at.lx = LeftAt(Tri, at.row) /\ at.lacc = ErrorAt(Tri.ar1, Tri.ar2, Tri.ar0, at.row)
  /\ at.rx = RightAt(Tri, at.row) /\ at.racc = ErrorAt(Tri.ar4, Tri.ar5, Tri.ar6, at.row)
Trapezoids == source.kind \in {"triangle", "batch"}
Accepted ==
  phase = "drawing" => /\ Trapezoids /\ WalkHolds
                       /\ BatchHolds(batch.state, batch.tris) /\ SamplesHold(batch.state, batch.tris)
MeshSource(s) ==
  \E c, l, t, d : s = [kind |-> "mesh", caps |-> c, left |-> l, taken |-> t, declined |-> d]
Sources ==
  /\ phase = "assembling" \/ source.kind = "mesh" => MeshSource(source)
  /\ Trapezoids /\ phase # "done" => IsState(batch.state) /\ IsTris(batch.tris)
Inv == Sources /\ Accepted

\* A trapezoid starts with its edges and errors as the closed forms have them.
LEMMA StartHolds ==
  ASSUME NEW i, i \in DOMAIN batch.tris, IsTris(batch.tris),
         BatchHolds(batch.state, batch.tris), at' = Start(i), UNCHANGED batch
  PROVE  WalkHolds'
<1> DEFINE t == batch.tris[i]
<1>1. IsTri(t) /\ t.h > 0 /\ t.h \in Int /\ t.left \in Int /\ t.right \in Int
  BY DEF IsTris, IsTri, BatchHolds, GeometryHolds
<1>2. {t.ar0, t.ar1, t.ar2, t.ar4, t.ar5, t.ar6} \subseteq Int
  BY <1>1 DEF IsTri
<1>3. LeftAt(t, 0) = t.left /\ RightAt(t, 0) = t.right
  BY <1>1 DEF LeftAt, RightAt, Columns, Toward
<1>4. /\ ErrorAt(t.ar1, t.ar2, t.ar0, 0) = t.ar1 - t.ar2
      /\ ErrorAt(t.ar4, t.ar5, t.ar6, 0) = t.ar4 - t.ar5
  BY <1>2 DEF ErrorAt, Columns
<1>5. at' = [tri |-> i, row |-> 0, lx |-> t.left, rx |-> t.right,
             lacc |-> t.ar1 - t.ar2, racc |-> t.ar4 - t.ar5]
  BY DEF Start
<1> HIDE DEF t
<1>6. at'.tri = i /\ at'.row = 0 /\ at'.lx = t.left /\ at'.rx = t.right
      /\ at'.lacc = t.ar1 - t.ar2 /\ at'.racc = t.ar4 - t.ar5
  BY <1>5
<1>7. Tri' = t
  BY <1>6 DEF Tri, t
<1> QED BY <1>1, <1>3, <1>4, <1>6, <1>7 DEF WalkHolds

\* A row further on they still are.
LEMMA StepHolds ==
  ASSUME IsTris(batch.tris), BatchHolds(batch.state, batch.tris), WalkHolds,
         at.row + 1 # Tri.h, at' = Stepped, UNCHANGED batch
  PROVE  WalkHolds'
<1> DEFINE t == Tri
           k == at.row
           l == at.lacc + t.ar2
           r == at.racc + t.ar5
<1>1. IsTri(t) /\ GeometryHolds(t, Limits(batch.state, Window))
  BY DEF WalkHolds, IsTris, BatchHolds, Tri
<1>2. /\ t.ar0 \in Nat \ {0} /\ t.ar6 \in Nat \ {0} /\ t.ar2 <= 0 /\ t.ar5 <= 0
      /\ t.ar1 \in Int /\ t.ar2 \in Int /\ t.ar4 \in Int /\ t.ar5 \in Int
      /\ t.left \in Int /\ t.right \in Int /\ t.h \in Int
  BY <1>1 DEF IsTri, GeometryHolds
<1>3. k \in Nat /\ k + 1 \in 0..(t.h - 1)
  BY <1>2 DEF WalkHolds
<1>4. /\ at'.tri = at.tri /\ at'.row = k + 1
      /\ at'.lx = at.lx + Toward(t.sgn, "left") * ShortBy(l, t.ar0)
      /\ at'.rx = at.rx + Toward(t.sgn, "right") * ShortBy(r, t.ar6)
      /\ at'.lacc = l + ShortBy(l, t.ar0) * t.ar0 /\ at'.racc = r + ShortBy(r, t.ar6) * t.ar6
  BY DEF Stepped
<1>5. Tri' = t
  BY <1>4 DEF Tri
<1>6. l = ErrorAt(t.ar1, t.ar2, t.ar0, k) + t.ar2 /\ r = ErrorAt(t.ar4, t.ar5, t.ar6, k) + t.ar5
  BY DEF WalkHolds
<1>7. at.lx = LeftAt(t, k) /\ at.rx = RightAt(t, k) /\ at.tri \in DOMAIN batch.tris
  BY DEF WalkHolds
<1> HIDE DEF t, k, l, r
<1>8. /\ LeftAt(t, k + 1) = LeftAt(t, k) + Toward(t.sgn, "left") * ShortBy(l, t.ar0)
      /\ ErrorAt(t.ar1, t.ar2, t.ar0, k + 1) = l + ShortBy(l, t.ar0) * t.ar0
  <2> DEFINE start == t.left
             sign == Toward(t.sgn, "left")
             error == t.ar1
             slope == t.ar2
             div == t.ar0
  <2>1. start \in Int /\ error \in Int /\ slope \in Int /\ slope <= 0 /\ div \in Nat \ {0} /\ k \in Nat
    BY <1>2, <1>3
  <2>2. sign \in {-1, 1} /\ l = ErrorAt(error, slope, div, k) + slope
    BY <1>6 DEF Toward
  <2>3. /\ LeftAt(t, k) = start + sign * Columns(error, slope, div, k)
        /\ LeftAt(t, k + 1) = start + sign * Columns(error, slope, div, k + 1)
    BY DEF LeftAt
  <2> HIDE DEF start, sign, error, slope, div
  <2>4. /\ Columns(error, slope, div, k + 1) = Columns(error, slope, div, k) + ShortBy(l, div)
        /\ ErrorAt(error, slope, div, k + 1) = l + ShortBy(l, div) * div
    BY <2>1, <2>2, ColumnsStep
  <2> DEFINE C == Columns(error, slope, div, k)
             S == ShortBy(l, div)
  <2>5. C \in Int
    BY <2>1, ColumnsInt
  <2>6. l \in Int
    BY <2>1, <2>2, <2>5 DEF ErrorAt
  <2>7. S \in Int
    BY <2>1, <2>6, DivisionIs DEF ShortBy
  <2> HIDE DEF C, S
  <2>8. start + sign * (C + S) = start + sign * C + sign * S
    BY <2>1, <2>2, <2>5, <2>7
  <2> QED BY <2>3, <2>4, <2>8 DEF C, S, start, sign, error, slope, div
<1>9. /\ RightAt(t, k + 1) = RightAt(t, k) + Toward(t.sgn, "right") * ShortBy(r, t.ar6)
      /\ ErrorAt(t.ar4, t.ar5, t.ar6, k + 1) = r + ShortBy(r, t.ar6) * t.ar6
  <2> DEFINE start == t.right
             sign == Toward(t.sgn, "right")
             error == t.ar4
             slope == t.ar5
             div == t.ar6
  <2>1. start \in Int /\ error \in Int /\ slope \in Int /\ slope <= 0 /\ div \in Nat \ {0} /\ k \in Nat
    BY <1>2, <1>3
  <2>2. sign \in {-1, 1} /\ r = ErrorAt(error, slope, div, k) + slope
    BY <1>6 DEF Toward
  <2>3. /\ RightAt(t, k) = start + sign * Columns(error, slope, div, k)
        /\ RightAt(t, k + 1) = start + sign * Columns(error, slope, div, k + 1)
    BY DEF RightAt
  <2> HIDE DEF start, sign, error, slope, div
  <2>4. /\ Columns(error, slope, div, k + 1) = Columns(error, slope, div, k) + ShortBy(r, div)
        /\ ErrorAt(error, slope, div, k + 1) = r + ShortBy(r, div) * div
    BY <2>1, <2>2, ColumnsStep
  <2> DEFINE C == Columns(error, slope, div, k)
             S == ShortBy(r, div)
  <2>5. C \in Int
    BY <2>1, ColumnsInt
  <2>6. r \in Int
    BY <2>1, <2>2, <2>5 DEF ErrorAt
  <2>7. S \in Int
    BY <2>1, <2>6, DivisionIs DEF ShortBy
  <2> HIDE DEF C, S
  <2>8. start + sign * (C + S) = start + sign * C + sign * S
    BY <2>1, <2>2, <2>5, <2>7
  <2> QED BY <2>3, <2>4, <2>8 DEF C, S, start, sign, error, slope, div
<1> QED BY <1>3, <1>4, <1>5, <1>7, <1>8, <1>9 DEF WalkHolds

\* The engine takes a row: the next one, the next trapezoid's first, or none.
LEMMA RowHolds ==
  ASSUME Inv, Row
  PROVE  Inv'
<1>1. UNCHANGED <<source, batch>> /\ phase = "drawing" /\ phase' \in {"drawing", "done"}
  BY DEF Row
<1>2. /\ Trapezoids /\ IsState(batch.state) /\ IsTris(batch.tris) /\ WalkHolds
      /\ BatchHolds(batch.state, batch.tris) /\ SamplesHold(batch.state, batch.tris)
  BY <1>1 DEF Inv, Sources, Accepted
<1>3. Sources'
  BY <1>1, <1>2 DEF Inv, Sources, Trapezoids
<1>4. ASSUME phase' = "drawing" PROVE WalkHolds'
  <2>1. CASE at.row + 1 # Tri.h
    <3>1. at' = Stepped
      BY <2>1 DEF Row
    <3> QED BY <1>1, <1>2, <2>1, <3>1, StepHolds
  <2>2. CASE at.row + 1 = Tri.h
    <3>1. at.tri # Len(batch.tris) /\ at' = Start(at.tri + 1)
      BY <1>4, <2>2 DEF Row
    <3>2. at.tri + 1 \in DOMAIN batch.tris
      <4>1. DOMAIN batch.tris = 1..Len(batch.tris) /\ Len(batch.tris) \in Nat
        BY <1>2 DEF IsTris
      <4>2. at.tri \in 1..Len(batch.tris)
        BY <1>2, <4>1 DEF WalkHolds
      <4> QED BY <3>1, <4>1, <4>2
    <3> QED BY <1>1, <1>2, <3>1, <3>2, StartHolds
  <2> QED BY <2>1, <2>2
<1>5. Accepted'
  BY <1>1, <1>2, <1>4 DEF Accepted, Trapezoids
<1> QED BY <1>3, <1>5 DEF Inv

\* What the driver answers to a submission.
Answer ==
  IF Destination(batch.state, FALSE) # "OK" THEN Destination(batch.state, FALSE)
  ELSE Validate(batch.state, batch.tris, Limits(batch.state, Window), TRUE)

\* The driver starts the engine on a batch only when it has accepted it.
LEMMA SubmitHolds ==
  ASSUME Inv, Submit
  PROVE  Inv'
<1>1. /\ UNCHANGED <<source, batch>> /\ phase = "submitted" /\ phase' \in {"drawing", "done"}
      /\ Trapezoids /\ verdict' = [by |-> "kernel", is |-> Answer]
  BY DEF Submit, Answer, Trapezoids
<1>2. IsState(batch.state) /\ IsTris(batch.tris)
  BY <1>1 DEF Inv, Sources
<1>3. Sources'
  BY <1>1, <1>2 DEF Inv, Sources, Trapezoids
<1>4. ASSUME phase' = "drawing"
      PROVE  /\ WalkHolds' /\ BatchHolds(batch.state, batch.tris)
             /\ SamplesHold(batch.state, batch.tris)
  <2> DEFINE empty == ClipEmpty(ClipBox(batch.state))
  <2>1. verdict'.is = Answer
    BY <1>1
  <2>2. /\ phase' = IF Answer = "OK" /\ ~empty /\ batch.tris # <<>> THEN "drawing" ELSE "done"
        /\ at' = IF Answer = "OK" /\ ~empty /\ batch.tris # <<>> THEN Start(1) ELSE at
    BY <2>1 DEF Submit
  <2>3. Answer = "OK" /\ batch.tris # <<>> /\ at' = Start(1)
    <3> HIDE DEF empty
    <3> QED BY <1>4, <2>2
  <2>4. Validate(batch.state, batch.tris, Limits(batch.state, Window), TRUE) = "OK"
    BY <2>3 DEF Answer
  <2>5. BatchHolds(batch.state, batch.tris) /\ SamplesHold(batch.state, batch.tris)
    BY <1>2, <2>4, BatchAccepted, SamplesAccepted
  <2>6. 1 \in DOMAIN batch.tris
    BY <1>2, <2>3 DEF IsTris
  <2> QED BY <1>1, <1>2, <2>3, <2>5, <2>6, StartHolds
<1>5. Accepted'
  BY <1>1, <1>4 DEF Accepted, Trapezoids
<1> QED BY <1>3, <1>5 DEF Inv

\* The triangle the driver of Mesa builds, and the batch it is asked as.
LEMMA TriangleIs ==
  ASSUME AskForTriangle
  PROVE  \E job :
           /\ AskTriangle(job) /\ source'.kind = "triangle"
           /\ IsState(job.state) /\ IsTriangle(job.tri)
<1>1. PICK f \in Triangles : \E tri \in f.tris, prim \in f.prims, r \in f.repeats, o \in f.offsets,
                                st \in f.states :
        AskTriangle([tri |-> tri, prim |-> prim, repeats |-> r, offset |-> o, state |-> st])
  BY DEF AskForTriangle
<1>2. PICK tri \in f.tris, prim \in f.prims, r \in f.repeats, o \in f.offsets, st \in f.states :
        AskTriangle([tri |-> tri, prim |-> prim, repeats |-> r, offset |-> o, state |-> st])
  BY <1>1
<1>3. IsState(st) /\ IsTriangle(tri)
  BY BatchAssumption
<1>4. PICK job : job = [tri |-> tri, prim |-> prim, repeats |-> r, offset |-> o, state |-> st]
  OBVIOUS
<1>5. job.state = st /\ job.tri = tri /\ AskTriangle(job)
  BY <1>2, <1>4
<1>6. source' = [kind |-> "triangle", job |-> job]
  BY <1>5 DEF AskTriangle
<1>7. source'.kind = "triangle"
  BY <1>6
<1> QED BY <1>3, <1>5, <1>7

\* It is built of trapezoids the driver can read, or the builder has the last word.
LEMMA TriangleAsked ==
  ASSUME NEW job, AskTriangle(job), IsState(job.state), IsTriangle(job.tri)
  PROVE  \/ phase' = "done" /\ verdict'.by = "builder"
         \/ phase' = "built" /\ UNCHANGED verdict /\ IsState(batch'.state) /\ IsTris(batch'.tris)
<1>1. PICK built : built = BuildTriangle(job.tri, job.prim, job.repeats, job.offset)
  OBVIOUS
<1>2. IF built.tris # <<>>
      THEN /\ phase' = "built" /\ UNCHANGED verdict
           /\ batch' = [state |-> [job.state EXCEPT !.tmr = built.tmr], tris |-> built.tris]
      ELSE /\ phase' = "done" /\ UNCHANGED batch
           /\ verdict' = [by |-> "builder", is |-> IF built.ok THEN "OK" ELSE "UNSUPPORTED"]
  BY <1>1 DEF AskTriangle
<1>3. CASE built.tris # <<>>
  <2>1. IsTris(built.tris) /\ \A i \in 1..6 : built.tmr[i] \in Int
    BY <1>1, <1>3, BuiltIs
  <2>2. PICK st : st = [job.state EXCEPT !.tmr = built.tmr]
    OBVIOUS
  <2>3. DOMAIN job.state = StateFields
    BY DEF IsState
  <2>4. IsState(st)
    <3>1. /\ DOMAIN st = StateFields /\ st.tmr = built.tmr
          /\ st.dstorg = job.state.dstorg /\ st.dstWidth = job.state.dstWidth
          /\ st.dstHeight = job.state.dstHeight /\ st.dstPitch = job.state.dstPitch
          /\ st.zorg = job.state.zorg /\ st.scissorW = job.state.scissorW
          /\ st.scissorH = job.state.scissorH /\ st.biasU = job.state.biasU
          /\ st.biasV = job.state.biasV /\ st.scissorX = job.state.scissorX
          /\ st.scissorY = job.state.scissorY
      BY <2>2, <2>3 DEF StateFields
    <3>2. {st.tmr[i] : i \in 1..6} \subseteq Int
      BY <2>1, <3>1
    <3> QED BY <3>1, <3>2 DEF IsState
  <2>5. batch'.state = st /\ batch'.tris = built.tris
    BY <1>2, <1>3, <2>2
  <2> QED BY <1>2, <1>3, <2>1, <2>4, <2>5
<1>4. CASE built.tris = <<>>
  <2>1. phase' = "done" /\ verdict' = [by |-> "builder", is |-> IF built.ok THEN "OK" ELSE "UNSUPPORTED"]
    BY <1>2, <1>4
  <2> QED BY <2>1
<1> QED BY <1>3, <1>4

\* A batch that is asked is one of those declared.
LEMMA BatchAsked ==
  ASSUME AskForBatch
  PROVE  /\ source'.kind = "batch" /\ phase' = "built" /\ UNCHANGED verdict
         /\ IsState(batch'.state) /\ IsTris(batch'.tris)
<1>1. PICK f \in Batches : \E st \in f.states, tris \in f.tris :
        AskBatch([state |-> st, tris |-> tris])
  BY DEF AskForBatch
<1>2. PICK st \in f.states, tris \in f.tris : AskBatch([state |-> st, tris |-> tris])
  BY <1>1
<1>3. IsState(st) /\ IsTris(tris)
  BY BatchAssumption DEF IsTris
<1>4. /\ source' = [kind |-> "batch"] /\ phase' = "built" /\ UNCHANGED verdict
      /\ batch' = [state |-> st, tris |-> tris]
  BY <1>2 DEF AskBatch
<1>5. source'.kind = "batch" /\ batch'.state = st /\ batch'.tris = tris
  BY <1>4
<1> QED BY <1>3, <1>4, <1>5

\* The invariant holds of a triangle,
LEMMA TriangleHolds ==
  ASSUME Inv, NEW job, AskTriangle(job), IsState(job.state), IsTriangle(job.tri)
  PROVE  Inv'
<1>1. source' = [kind |-> "triangle", job |-> job]
  BY DEF AskTriangle
<1>2. source'.kind = "triangle"
  BY <1>1
<1> QED BY <1>2, TriangleAsked DEF Inv, Sources, Accepted

\* whatever is asked for,
LEMMA AskHolds ==
  ASSUME Inv, AskForTriangle \/ AskForBatch \/ AskForWarp \/ AskForMesh
  PROVE  Inv'
<1>1. CASE AskForBatch
  BY <1>1, BatchAsked DEF Inv, Sources, Accepted
<1>2. CASE AskForTriangle
  <2>1. PICK job : /\ AskTriangle(job) /\ source'.kind = "triangle"
                   /\ IsState(job.state) /\ IsTriangle(job.tri)
    BY <1>2, TriangleIs
  <2> QED BY <2>1, TriangleHolds
<1>3. CASE AskForWarp
  <2>1. PICK b : AskWarp(b)
    BY <1>3 DEF AskForWarp
  <2>2. source'.kind = "warp" /\ phase' = "submitted"
    BY <2>1 DEF AskWarp
  <2> QED BY <2>2 DEF Inv, Sources, Accepted, Trapezoids
<1>4. CASE AskForMesh
  <2>1. PICK st, caps, job : AskMesh(st, caps, job)
    BY <1>4 DEF AskForMesh
  <2>2. MeshSource(source') /\ source'.kind = "mesh" /\ phase' = "assembling"
    BY <2>1 DEF AskMesh, MeshSource
  <2> QED BY <2>2 DEF Inv, Sources, Accepted, MeshSource, Trapezoids
<1> QED BY <1>1, <1>2, <1>3, <1>4

\* Assembling a mesh leaves it a mesh.
LEMMA MeshStays ==
  ASSUME Inv, AddTriangle \/ EndMesh \/ Continue
  PROVE  MeshSource(source') /\ source'.kind = "mesh"
<1>1. MeshSource(source)
  BY DEF Inv, Sources, AddTriangle, EndMesh, Continue
<1>2. MeshSource(source')
  <2>1. PICK c, l, t, d :
          source = [kind |-> "mesh", caps |-> c, left |-> l, taken |-> t, declined |-> d]
    BY <1>1 DEF MeshSource
  <2>2. CASE AddTriangle
    <3>1. \/ source' = source
          \/ \E x, y : source' = [source EXCEPT !.left = x, !.declined = y]
          \/ \E x, y : source' = [source EXCEPT !.left = x, !.taken = y]
      BY <2>2, Zenon DEF AddTriangle
    <3> QED BY <2>1, <3>1 DEF MeshSource
  <2>3. CASE EndMesh
    BY <1>1, <2>3 DEF EndMesh
  <2>4. CASE Continue
    BY <2>1, <2>4 DEF Continue, MeshSource
  <2> QED BY <2>2, <2>3, <2>4
<1>3. source'.kind = "mesh"
  BY <1>2 DEF MeshSource
<1> QED BY <1>2, <1>3

\* while a mesh is assembled,
LEMMA MeshHolds ==
  ASSUME Inv, AddTriangle \/ EndMesh \/ Continue
  PROVE  Inv'
<1>1. phase' # "drawing"
  BY DEF AddTriangle, EndMesh, Continue
<1> QED BY <1>1, MeshStays DEF Inv, Sources, Accepted, Trapezoids

\* The remaining steps neither change what was asked nor start the engine.
LEMMA OtherHolds ==
  ASSUME Inv, Prevalidate \/ SubmitWarp \/ Return
  PROVE  Inv'
<1>1. CASE Return
  <2>1. source'.kind = "none" /\ phase' = "idle"
    BY <1>1 DEF Return, NoSource
  <2> QED BY <2>1 DEF Inv, Sources, Accepted, Trapezoids
<1>2. CASE Prevalidate \/ SubmitWarp
  <2>1. UNCHANGED <<source, batch>> /\ phase # "done" /\ phase' \in {"done", "submitted"}
    BY <1>2 DEF Prevalidate, SubmitWarp
  <2> QED BY <2>1 DEF Inv, Sources, Accepted, Trapezoids
<1> QED BY <1>1, <1>2

\* from step to step,
LEMMA InvariantStep ==
  ASSUME Inv, [Next]_vars
  PROVE  Inv'
<1>1. CASE UNCHANGED vars
  <2>1. UNCHANGED <<phase, source, batch, at>>
    BY <1>1 DEF vars
  <2> QED BY <2>1 DEF Inv, Sources, Accepted, WalkHolds, Tri, Trapezoids
<1> QED BY <1>1, AskHolds, MeshHolds, OtherHolds, SubmitHolds, RowHolds DEF Next, Ask

\* and so throughout.
LEMMA InvariantStart == Init => Inv
BY DEF Init, Inv, Sources, Accepted, NoSource, Trapezoids
LEMMA Invariance == Spec => []Inv
BY InvariantStart, InvariantStep, PTL DEF Spec
-----------------------------------------------------------------------------
(* What the invariant is for.                                                *)

\* The pixels of an accepted surface lie in the window, and their depth does where
\* the surface has one.
LEMMA PixelsInside ==
  ASSUME NEW st, IsState(st), NEW deep, SurfaceHolds(st, deep), NEW z \in BOOLEAN, z => deep,
         NEW x \in Int, NEW y \in Int, x >= 0, x < st.dstWidth, y >= 0, y < st.dstHeight
  PROVE  PixelInside(st, <<x, y>>, z)
<1> DEFINE P == st.dstPitch
           H == st.dstHeight
           i == y * P + x
<1>1. /\ st.dstorg \in Nat /\ st.zorg \in Nat /\ P \in Nat /\ H \in Nat /\ st.dstWidth \in Nat
      /\ Window.start \in Int /\ Window.end \in Int
  BY WordAssumption, WindowAssumption DEF IsState
<1>2. x < P /\ x \in Nat /\ y \in Nat /\ y < H
  BY <1>1 DEF SurfaceHolds
<1>3. i + 1 <= H * P /\ i \in Nat /\ H * P \in Nat
  <2>1. y * P + x + 1 <= H * P
    BY <1>1, <1>2, PixelBeforeEnd
  <2>2. y * P \in Nat /\ H * P \in Nat
    BY <1>1, <1>2
  <2> QED BY <1>2, <2>1, <2>2
<1>4. H * (4 * P) = 4 * (H * P) /\ H * (2 * P) = 2 * (H * P)
  BY <1>1
<1>5. /\ st.dstorg >= Window.start /\ st.dstorg + 4 * (H * P) <= Window.end
      /\ deep => st.zorg >= Window.start /\ st.zorg + 2 * (H * P) <= Window.end
  BY <1>4 DEF SurfaceHolds
<1>6. PixelInside(st, <<x, y>>, z) =
        (/\ {st.dstorg + 4 * i, st.dstorg + 4 * i + 3} \subseteq Window.start..(Window.end - 1)
         /\ z => {st.zorg + 2 * i, st.zorg + 2 * i + 1} \subseteq Window.start..(Window.end - 1))
  BY DEF PixelInside
<1> HIDE DEF i, P, H
<1>7. {st.dstorg + 4 * i, st.dstorg + 4 * i + 3} \subseteq Window.start..(Window.end - 1)
  BY <1>1, <1>3, <1>5
<1>8. deep => {st.zorg + 2 * i, st.zorg + 2 * i + 1} \subseteq Window.start..(Window.end - 1)
  BY <1>1, <1>3, <1>5
<1> QED BY <1>6, <1>7, <1>8

\* From the invariant: a row the engine is on lies within the surface and the window.
LEMMA RowInside ==
  ASSUME Inv
  PROVE  RowsStayInside
<1> SUFFICES ASSUME phase = "drawing", NEW p \in RowPixels
             PROVE  /\ p[1] \in 0..(batch.state.dstWidth - 1)
                    /\ p[2] \in 0..(batch.state.dstHeight - 1)
                    /\ PixelInside(batch.state, p, AddressesDepth(Tri.prim))
  BY DEF RowsStayInside
<1> DEFINE st == batch.state
           lim == Limits(st, Window)
           k == at.row
           deep == \E i \in DOMAIN batch.tris : AddressesDepth(batch.tris[i].prim)
           z == AddressesDepth(Tri.prim)
<1>1. IsState(st) /\ IsTris(batch.tris) /\ BatchHolds(st, batch.tris) /\ WalkHolds
  BY DEF Inv, Sources, Accepted
<1>2. /\ at.tri \in DOMAIN batch.tris /\ k \in 0..(Tri.h - 1)
      /\ at.lx = LeftAt(Tri, k) /\ at.rx = RightAt(Tri, k)
  BY <1>1 DEF WalkHolds
<1>3. IsTri(Tri) /\ GeometryHolds(Tri, lim) /\ ~EdgesCross(Tri, lim) /\ SurfaceHolds(st, deep)
  BY <1>1, <1>2 DEF BatchHolds, IsTris, Tri
<1>4. z \in BOOLEAN /\ (z => deep)
  BY <1>2 DEF Tri, AddressesDepth
<1>5. lim.clipX1 = st.dstWidth - 1 /\ lim.clipY1 = st.dstHeight - 1
  BY DEF Limits
<1>6. st.dstWidth \in Nat /\ st.dstHeight \in Nat
  BY <1>1, WordAssumption DEF IsState
<1>7. /\ Tri.y \in Int /\ Tri.h \in Int /\ Tri.left \in Nat /\ Tri.right \in Nat
      /\ Tri.ar0 \in Nat \ {0} /\ Tri.ar6 \in Nat \ {0}
      /\ {Tri.ar1, Tri.ar2, Tri.ar4, Tri.ar5} \subseteq Int
  BY <1>3 DEF IsTri, GeometryHolds
<1> HIDE DEF lim, k, st, deep, z
<1>8. at.lx \in Int /\ at.rx \in Int /\ at.lx >= 0 /\ at.rx <= lim.clipX1 + 1
  <2>1. CASE k = 0
    <3>1. at.lx = Tri.left /\ at.rx = Tri.right
      BY <1>2, <1>7, <2>1 DEF LeftAt, RightAt, Columns, Toward
    <3> QED BY <1>3, <1>7, <3>1 DEF GeometryHolds
  <2>2. CASE k # 0
    <3>1. k > 0 /\ k \in Rows(Tri)
      BY <1>2, <1>7, <2>2 DEF Rows
    <3>2. {LeftAt(Tri, k), RightAt(Tri, k)} \ (0..(lim.clipX1 + 1)) = {}
      BY <1>3, <3>1 DEF EdgesCross
    <3> QED BY <1>2, <1>5, <1>6, <3>2
  <2> QED BY <2>1, <2>2
<1>9. PICK x \in at.lx..(at.rx - 1) : p = <<x, Tri.y + k>>
  BY DEF RowPixels, k
<1>10. x \in Int /\ x >= 0 /\ x < st.dstWidth
  BY <1>5, <1>6, <1>8, <1>9
<1>11. Tri.y + k \in Int /\ Tri.y + k >= 0 /\ Tri.y + k < st.dstHeight
  BY <1>2, <1>3, <1>5, <1>6, <1>7 DEF GeometryHolds
<1>12. PixelInside(st, <<x, Tri.y + k>>, z)
  BY <1>1, <1>3, <1>4, <1>10, <1>11, PixelsInside
<1> QED BY <1>6, <1>9, <1>10, <1>11, <1>12 DEF st, z

\* The engine steps the edges; the validator asks a closed form about them.  On every
\* row of an accepted batch the two are the same (osmgaHW3DStep).
THEOREM EngineWalksWhatWasChecked ==
  Spec => [](phase = "drawing" => at.lx = LeftAt(Tri, at.row) /\ at.rx = RightAt(Tri, at.row))
<1>1. Inv => (phase = "drawing" => at.lx = LeftAt(Tri, at.row) /\ at.rx = RightAt(Tri, at.row))
  BY DEF Inv, Accepted, WalkHolds
<1> QED BY <1>1, Invariance, PTL

\* From the invariant: the pixels of a textured row are places the validator's argument
\* covers.
LEMMA SamplesInside ==
  ASSUME Inv
  PROVE  AcceptedSamplesInRange
<1> SUFFICES ASSUME phase = "drawing", Textured(Tri) PROVE AcceptedSamplesInRange
  BY DEF AcceptedSamplesInRange
<1>1. PICK st : st = batch.state
  OBVIOUS
<1>2. PICK t : t = Tri
  OBVIOUS
<1>3. PICK k : k = at.row
  OBVIOUS
<1>4. /\ IsState(st) /\ IsTris(batch.tris) /\ BatchHolds(st, batch.tris)
      /\ SamplesHold(st, batch.tris) /\ WalkHolds
  BY <1>1 DEF Inv, Sources, Accepted
<1>5. /\ IsTri(t) /\ TexHolds(st, t) /\ GeometryHolds(t, Limits(st, Window))
      /\ ~EdgesCross(t, Limits(st, Window))
  BY <1>2, <1>4 DEF WalkHolds, IsTris, BatchHolds, SamplesHold, Tri
<1>6. PICK n \in Nat : n = st.dstWidth
  BY <1>4, WordAssumption DEF IsState
<1>7. t.h > 0 /\ t.h \in Int /\ OnRows(t, n)
  <2>1. Limits(st, Window).clipX1 = n - 1
    BY <1>6 DEF Limits
  <2>2. n = Limits(st, Window).clipX1 + 1 /\ Limits(st, Window).clipX1 \in Int
    BY <2>1
  <2> QED BY <1>5, <2>2, ColumnsOnSurface DEF GeometryHolds, IsTri
<1>8. ASSUME NEW p \in RowPixels PROVE PlaceHolds(st, t, p[1] - t.left, k)
  <2>1. PICK c \in at.lx..(at.rx - 1) : p = <<c, Tri.y + at.row>>
    BY DEF RowPixels
  <2>2. p[1] = c
    BY <2>1
  <2>3. k \in Rows(t) /\ at.lx = LeftAt(t, k) /\ at.rx = RightAt(t, k)
    BY <1>2, <1>3, <1>4 DEF WalkHolds, Rows
  <2>4. c \in LeftAt(t, k)..(RightAt(t, k) - 1)
    BY <2>1, <2>3
  <2>5. k \in DrawnRows(t)
    <3>1. LeftAt(t, k) \in Int /\ RightAt(t, k) \in Int
      BY <1>7, <2>3 DEF OnRows
    <3> QED BY <2>3, <2>4, <3>1 DEF DrawnRows
  <2> QED BY <1>4, <1>5, <1>7, <2>2, <2>4, <2>5, PixelHolds
<1>9. ReachU(st, t) \in Nat /\ ReachV(st, t) \in Nat /\ st.biasU \in Nat /\ st.biasV \in Nat
  <2>1. st.biasU \in Nat /\ st.biasV \in Nat
    BY <1>4, WordAssumption DEF IsState
  <2> QED BY <1>4, <1>5, <1>7, <2>1, ReachesAre
<1>10. /\ Residual(ReachU(st, t), st.biasU) <= Max({CoordMax, ReachU(st, t)})
       /\ Residual(ReachV(st, t), st.biasV) <= Max({CoordMax, ReachV(st, t)})
  BY <1>9, BiasKeeps
<1> QED BY <1>1, <1>2, <1>3, <1>8, <1>10 DEF AcceptedSamplesInRange, PlaceHolds, Residual, Fit

\* Every pixel of an accepted textured trapezoid samples in range, nothing the check or the
\* engine forms on the way leaves a long, and the bias the driver takes off leaves the
\* farthest coordinate in range, or where it was (osmgaHW3DValidateReachSite, from its
\* texture coordinates on).
THEOREM SamplesStayInRange == Spec => []AcceptedSamplesInRange
<1>1. Inv => AcceptedSamplesInRange
  BY SamplesInside
<1> QED BY <1>1, Invariance, PTL
-----------------------------------------------------------------------------
(* The client's verdict and the driver's.                                    *)

\* Until the driver has answered nobody has its verdict; what has been submitted has been
\* through the client's dry run; and the driver's answer names no trapezoid and is what it
\* would have been without the reach.
Unanswered == phase \notin {"drawing", "done"} => verdict.by # "kernel"
Rehearsed ==
  Trapezoids /\ phase = "submitted" => ~NamesTriangle(DryRun(batch.state, batch.tris))
Verdicts == Unanswered /\ Rehearsed /\ OneVerdict

\* The driver's answer is the rehearsed one.
LEMMA VerdictsSubmit ==
  ASSUME Inv, Verdicts, Submit
  PROVE  Verdicts'
<1>1. /\ UNCHANGED <<source, batch>> /\ phase = "submitted" /\ phase' \in {"drawing", "done"}
      /\ Trapezoids
  BY DEF Submit, Trapezoids
<1>2. verdict' = [by |-> "kernel", is |-> Answer]
  BY DEF Submit, Answer
<1>3. verdict'.by = "kernel" /\ verdict'.is = Answer
  BY <1>2
<1>4. IsState(batch.state) /\ IsTris(batch.tris) /\ WordsState(batch.state)
  BY <1>1 DEF Inv, Sources, IsState, WordsState
<1>5. ~NamesTriangle(Answer)
  <2>1. CASE Destination(batch.state, FALSE) # "OK"
    BY <2>1, DestinationNames DEF Answer
  <2>2. CASE Destination(batch.state, FALSE) = "OK"
    <3>1. DestFits(batch.state, Window) = "OK"
      BY <2>2 DEF Destination
    <3>2. Answer = Validate(batch.state, batch.tris, Limits(batch.state, Window), TRUE)
      BY <2>2 DEF Answer
    <3>3. ~NamesTriangle(DryRun(batch.state, batch.tris))
      BY <1>1 DEF Verdicts, Rehearsed
    <3> QED BY <1>4, <3>1, <3>2, <3>3, DryRunAnswers
  <2> QED BY <2>1, <2>2
<1>6. ASSUME Destination(batch.state, FALSE) = "OK"
      PROVE  Answer = Validate(batch.state, batch.tris, Limits(batch.state, Window), FALSE)
  BY <1>4, <1>6, AskedIsSame DEF Answer
<1>7. Unanswered' /\ Rehearsed'
  BY <1>1 DEF Unanswered, Rehearsed
<1>8. OneVerdict'
  BY <1>1, <1>3, <1>5, <1>6 DEF OneVerdict
<1> QED BY <1>7, <1>8 DEF Verdicts

\* A new question has no answer yet.
LEMMA VerdictsAsk ==
  ASSUME Inv, Verdicts, Ask
  PROVE  Verdicts'
<1>1. phase = "idle" /\ verdict.by # "kernel"
  BY DEF Ask, Verdicts, Unanswered
<1>2. SUFFICES verdict'.by # "kernel" /\ Rehearsed'
  BY DEF Verdicts, Unanswered, OneVerdict
<1>3. CASE AskForBatch
  BY <1>1, <1>3, BatchAsked DEF Rehearsed
<1>4. CASE AskForTriangle
  <2>1. PICK job : AskTriangle(job) /\ IsState(job.state) /\ IsTriangle(job.tri)
    BY <1>4, TriangleIs
  <2> QED BY <1>1, <2>1, TriangleAsked DEF Rehearsed
<1>5. CASE AskForWarp
  BY <1>1, <1>5 DEF AskForWarp, AskWarp, Rehearsed, Trapezoids
<1>6. CASE AskForMesh
  BY <1>1, <1>6 DEF AskForMesh, AskMesh, Rehearsed, Trapezoids
<1> QED BY <1>3, <1>4, <1>5, <1>6 DEF Ask

\* The client's and the driver's answers stay as rehearsed.
LEMMA VerdictsStep ==
  ASSUME Inv, Verdicts, [Next]_vars
  PROVE  Verdicts'
<1>1. CASE UNCHANGED vars
  <2>1. UNCHANGED <<phase, source, batch, verdict>>
    BY <1>1 DEF vars
  <2> QED BY <2>1 DEF Verdicts, Unanswered, Rehearsed, OneVerdict, Trapezoids
<1>2. CASE AddTriangle \/ EndMesh \/ Continue
  <2>1. source'.kind = "mesh"
    BY <1>2, MeshStays
  <2>2. verdict'.by # "kernel"
    BY <1>2 DEF AddTriangle, EndMesh, Continue, NoVerdict, Verdicts, Unanswered
  <2> QED BY <2>1, <2>2 DEF Verdicts, Unanswered, Rehearsed, OneVerdict, Trapezoids
<1>3. CASE Return
  <2>1. source'.kind = "none" /\ verdict'.by = "nobody"
    BY <1>3 DEF Return, NoSource, NoVerdict
  <2> QED BY <2>1 DEF Verdicts, Unanswered, Rehearsed, OneVerdict, Trapezoids
<1>4. CASE SubmitWarp
  <2>1. UNCHANGED source /\ ~Trapezoids /\ phase' = "done"
    BY <1>4 DEF SubmitWarp, Trapezoids
  <2> QED BY <2>1 DEF Verdicts, Unanswered, Rehearsed, OneVerdict, Trapezoids
<1>5. CASE Row
  <2>1. UNCHANGED <<source, batch, verdict>> /\ phase = "drawing" /\ phase' \in {"drawing", "done"}
    BY <1>5 DEF Row
  <2> QED BY <2>1 DEF Verdicts, Unanswered, Rehearsed, OneVerdict, Trapezoids
<1>6. CASE Prevalidate
  <2> DEFINE local == DryRun(batch.state, batch.tris)
  <2>1. /\ UNCHANGED <<source, batch>> /\ phase = "built"
        /\ IF NamesTriangle(local)
           THEN phase' = "done" /\ verdict' = [by |-> "client", is |-> local]
           ELSE phase' = "submitted" /\ UNCHANGED verdict
    BY <1>6 DEF Prevalidate, DryRun
  <2> HIDE DEF local
  <2>2. verdict'.by # "kernel" /\ (phase' = "done" \/ (phase' = "submitted" /\ ~NamesTriangle(local)))
    BY <2>1 DEF Verdicts, Unanswered
  <2>3. Rehearsed'
    BY <2>1, <2>2 DEF Rehearsed, Trapezoids, local
  <2> QED BY <2>2, <2>3 DEF Verdicts, Unanswered, OneVerdict
<1> QED BY <1>1, <1>2, <1>3, <1>4, <1>5, <1>6, VerdictsAsk, VerdictsSubmit DEF Next
LEMMA VerdictsStart == Init => Verdicts
BY DEF Init, Verdicts, Unanswered, Rehearsed, OneVerdict, Trapezoids, NoSource, NoVerdict
LEMMA VerdictInvariance == Spec => [](Inv /\ Verdicts)
<1>1. Inv /\ Verdicts /\ [Next]_vars => Verdicts'
  BY VerdictsStep
<1> QED BY <1>1, VerdictsStart, Invariance, PTL DEF Spec

\* The client's dry run, with its windows open, leaves the kernel no trapezoid to name, and
\* the kernel says what it would have said had nobody asked for the reach of a batch's
\* coordinates (osmgaMesaPrevalidate, OSMGAHW3DValidateReachSite).
THEOREM OneVerdictForAll == Spec => []OneVerdict
<1>1. Verdicts => OneVerdict
  BY DEF Verdicts
<1> QED BY <1>1, VerdictInvariance, PTL
-----------------------------------------------------------------------------
(* Floats: the powers of two.                                                *)

\* A set of naturals has a least element.
LEMMA SomeLeast ==
  ASSUME NEW S \in SUBSET Nat, S # {}
  PROVE  \E m \in S : \A n \in S : m <= n
<1>1. S \in SUBSET Int /\ 0 \in Int /\ \A n \in S : 0 <= n
  OBVIOUS
<1> QED BY ONLY <1>1, S # {}, LeastOf

\* The first powers, as far as the recursion has come.
Doubles(g, n) == \A k \in 0..n : g[k] = IF k = 0 THEN 1 ELSE 2 * g[k - 1]
SomeDoubles(n) == \E g \in [0..n -> Nat] : Doubles(g, n)

\* At the start,
LEMMA DoublesStart == SomeDoubles(0)
<1>1. PICK g : g = [k \in 0..0 |-> 1]
  OBVIOUS
<1>2. g \in [0..0 -> Nat] /\ Doubles(g, 0)
  BY <1>1 DEF Doubles
<1> QED BY <1>2 DEF SomeDoubles

\* a step further,
LEMMA DoublesStep ==
  ASSUME NEW n \in Nat, SomeDoubles(n)
  PROVE  SomeDoubles(n + 1)
<1>1. PICK g \in [0..n -> Nat] : Doubles(g, n)
  BY DEF SomeDoubles
<1>2. PICK h : h = [k \in 0..(n + 1) |-> IF k = n + 1 THEN 2 * g[n] ELSE g[k]]
  OBVIOUS
<1>3. h \in [0..(n + 1) -> Nat]
  BY <1>1, <1>2
<1>4. ASSUME NEW k \in 0..(n + 1) PROVE h[k] = IF k = 0 THEN 1 ELSE 2 * h[k - 1]
  <2>1. CASE k = n + 1
    BY <1>2, <2>1
  <2>2. CASE k \in 0..n
    <3>1. h[k] = g[k] /\ (k # 0 => h[k - 1] = g[k - 1])
      BY <1>2, <2>2
    <3>2. g[k] = IF k = 0 THEN 1 ELSE 2 * g[k - 1]
      BY <1>1, <2>2 DEF Doubles
    <3> QED BY <3>1, <3>2
  <2> QED BY <2>1, <2>2
<1> QED BY <1>3, <1>4 DEF SomeDoubles, Doubles

\* and so for as long as one likes.
LEMMA DoublesAll == \A n \in Nat : SomeDoubles(n)
<1> DEFINE S == {n \in Nat : ~SomeDoubles(n)}
<1>1. SUFFICES ASSUME S # {} PROVE FALSE
  OBVIOUS
<1>2. S \in SUBSET Nat
  OBVIOUS
<1>3. PICK m \in S : \A n \in S : m <= n
  <2> HIDE DEF S
  <2> QED BY <1>1, <1>2, SomeLeast
<1>4. m # 0
  BY <1>3, DoublesStart
<1>5. m - 1 \in Nat /\ m - 1 \notin S
  BY <1>3, <1>4
<1>6. SomeDoubles((m - 1) + 1)
  BY <1>5, DoublesStep
<1> QED BY <1>3, <1>6

\* The recursion has a solution.
LEMMA DoublesAgree ==
  ASSUME NEW n \in Nat, NEW g, Doubles(g, n), NEW m \in Nat, m <= n, NEW h, Doubles(h, m)
  PROVE  g[m] = h[m]
<1> DEFINE S == {k \in 0..m : g[k] # h[k]}
<1>1. SUFFICES ASSUME S # {} PROVE FALSE
  OBVIOUS
<1>2. S \in SUBSET Nat
  OBVIOUS
<1>3. PICK k \in S : \A j \in S : k <= j
  <2> HIDE DEF S
  <2> QED BY <1>1, <1>2, SomeLeast
<1>4. k \in 0..m /\ k \in 0..n /\ g[k] # h[k]
  BY <1>3
<1>5. g[k] = (IF k = 0 THEN 1 ELSE 2 * g[k - 1]) /\ h[k] = (IF k = 0 THEN 1 ELSE 2 * h[k - 1])
  BY <1>4 DEF Doubles
<1>6. k # 0
  BY <1>4, <1>5
<1>7. k - 1 \in 0..m /\ k - 1 \notin S
  BY <1>3, <1>4, <1>6
<1> QED BY <1>4, <1>5, <1>6, <1>7

\* Twos is that solution: one, and each twice the one before.
LEMMA TwosIs ==
  /\ Twos[0] = 1
  /\ \A n \in Nat : Twos[n] \in Nat \ {0} /\ Twos[n + 1] = 2 * Twos[n]
<1> DEFINE G(n) == CHOOSE g \in [0..n -> Nat] : Doubles(g, n)
           F == [n \in Nat |-> G(n)[n]]
<1>1. \A n \in Nat : G(n) \in [0..n -> Nat] /\ Doubles(G(n), n)
  BY DoublesAll DEF SomeDoubles
<1>2. ASSUME NEW n \in Nat PROVE F[n] = IF n = 0 THEN 1 ELSE 2 * F[n - 1]
  <2>1. F[n] = G(n)[n] /\ (n # 0 => F[n - 1] = G(n - 1)[n - 1])
    OBVIOUS
  <2> HIDE DEF G, F
  <2>2. G(n)[n] = IF n = 0 THEN 1 ELSE 2 * G(n)[n - 1]
    BY <1>1 DEF Doubles
  <2>3. n # 0 => G(n)[n - 1] = G(n - 1)[n - 1]
    <3>1. SUFFICES ASSUME n # 0 PROVE G(n)[n - 1] = G(n - 1)[n - 1]
      OBVIOUS
    <3>2. n - 1 \in Nat /\ n - 1 <= n
      BY <3>1
    <3> QED BY <1>1, <3>2, DoublesAgree
  <2> QED BY <2>1, <2>2, <2>3
<1>3. F = [n \in Nat |-> IF n = 0 THEN 1 ELSE 2 * F[n - 1]]
  <2>1. DOMAIN F = Nat /\ F = [n \in Nat |-> F[n]]
    OBVIOUS
  <2> HIDE DEF F
  <2> QED BY <1>2, <2>1
<1>4. Twos = [n \in Nat |-> IF n = 0 THEN 1 ELSE 2 * Twos[n - 1]]
  <2> HIDE DEF F
  <2> QED BY <1>3 DEF Twos
<1>5. ASSUME NEW n \in Nat PROVE Twos[n] = IF n = 0 THEN 1 ELSE 2 * Twos[n - 1]
  BY <1>4
<1>6. Twos[0] = 1 /\ \A n \in Nat : Twos[n + 1] = 2 * Twos[n]
  <2>1. Twos[0] = 1
    BY <1>5
  <2>2. ASSUME NEW n \in Nat PROVE Twos[n + 1] = 2 * Twos[n]
    <3>1. n + 1 \in Nat /\ n + 1 # 0 /\ (n + 1) - 1 = n
      OBVIOUS
    <3> QED BY <1>5, <3>1
  <2> QED BY <2>1, <2>2
<1>7. \A n \in Nat : Twos[n] \in Nat \ {0}
  <2> DEFINE S == {n \in Nat : Twos[n] \notin Nat \ {0}}
  <2>1. SUFFICES ASSUME S # {} PROVE FALSE
    OBVIOUS
  <2>2. S \in SUBSET Nat
    OBVIOUS
  <2>3. PICK k \in S : \A j \in S : k <= j
    <3> HIDE DEF S
    <3> QED BY <2>1, <2>2, SomeLeast
  <2>4. k # 0
    BY <1>6, <2>3
  <2>5. k - 1 \in Nat /\ k - 1 \notin S
    BY <2>3, <2>4
  <2>6. Twos[(k - 1) + 1] = 2 * Twos[k - 1]
    BY <1>6, <2>5
  <2> QED BY <2>3, <2>5, <2>6
<1> QED BY <1>6, <1>7

\* Each power is twice the one before.
LEMMA PowersDouble ==
  ASSUME NEW k \in 0..31
  PROVE  Power(k) \in Nat \ {0} /\ Power(k + 1) = 2 * Power(k)
<1>1. /\ Power(0) = 1 /\ Power(1) = 2 /\ Power(2) = 4 /\ Power(3) = 8
      /\ Power(4) = 16 /\ Power(5) = 32 /\ Power(6) = 64 /\ Power(7) = 128
      /\ Power(8) = 256 /\ Power(9) = 512 /\ Power(10) = 1024 /\ Power(11) = 2048
      /\ Power(12) = 4096 /\ Power(13) = 8192 /\ Power(14) = 16384 /\ Power(15) = 32768
      /\ Power(16) = 65536 /\ Power(17) = 131072 /\ Power(18) = 262144 /\ Power(19) = 524288
      /\ Power(20) = 1048576 /\ Power(21) = 2097152 /\ Power(22) = 4194304 /\ Power(23) = 8388608
      /\ Power(24) = 16777216 /\ Power(25) = 33554432 /\ Power(26) = 67108864 /\ Power(27) = 134217728
      /\ Power(28) = 268435456 /\ Power(29) = 536870912 /\ Power(30) = 1073741824
      /\ Power(31) = 2147483648 /\ Power(32) = 4294967296
  BY DEF Power
<1>2. \/ k = 0 \/ k = 1 \/ k = 2 \/ k = 3 \/ k = 4 \/ k = 5 \/ k = 6 \/ k = 7
      \/ k = 8 \/ k = 9 \/ k = 10 \/ k = 11 \/ k = 12 \/ k = 13 \/ k = 14 \/ k = 15
      \/ k = 16 \/ k = 17 \/ k = 18 \/ k = 19 \/ k = 20 \/ k = 21 \/ k = 22 \/ k = 23
      \/ k = 24 \/ k = 25 \/ k = 26 \/ k = 27 \/ k = 28 \/ k = 29 \/ k = 30 \/ k = 31
  OBVIOUS
<1> QED
  BY <1>1, <1>2

\* Powers of a sum.
LEMMA PowersMultiply ==
  ASSUME NEW e \in 0..8, NEW m \in 0..23
  PROVE  Power(e + m) = Power(e) * Power(m)
<1>1. \A k \in 0..31 : Power(k) \in Nat \ {0} /\ Power(k + 1) = 2 * Power(k)
  BY PowersDouble
<1>2. /\ Power(0) = 1 /\ Power(1) = 2 /\ Power(2) = 4 /\ Power(3) = 8
      /\ Power(4) = 16 /\ Power(5) = 32 /\ Power(6) = 64 /\ Power(7) = 128
      /\ Power(8) = 256
  BY DEF Power
<1>3. /\ m \in 0..31 /\ m + 1 \in 0..31 /\ m + 2 \in 0..31 /\ m + 3 \in 0..31
      /\ m + 4 \in 0..31 /\ m + 5 \in 0..31 /\ m + 6 \in 0..31 /\ m + 7 \in 0..31
  OBVIOUS
<1>4. /\ Power(m + 1) = 2 * Power(m) /\ Power(m + 2) = 2 * Power(m + 1)
      /\ Power(m + 3) = 2 * Power(m + 2) /\ Power(m + 4) = 2 * Power(m + 3)
      /\ Power(m + 5) = 2 * Power(m + 4) /\ Power(m + 6) = 2 * Power(m + 5)
      /\ Power(m + 7) = 2 * Power(m + 6) /\ Power(m + 8) = 2 * Power(m + 7)
  <2>1. /\ (m + 1) + 1 = m + 2 /\ (m + 2) + 1 = m + 3 /\ (m + 3) + 1 = m + 4
        /\ (m + 4) + 1 = m + 5 /\ (m + 5) + 1 = m + 6 /\ (m + 6) + 1 = m + 7 /\ (m + 7) + 1 = m + 8
    OBVIOUS
  <2> QED BY <1>1, <1>3, <2>1
<1>5. Power(m) \in Nat
  BY <1>1, <1>3
<1>6. \/ e = 0 \/ e = 1 \/ e = 2 \/ e = 3 \/ e = 4 \/ e = 5 \/ e = 6 \/ e = 7 \/ e = 8
  OBVIOUS
<1>7. /\ 0 + m = m /\ 1 + m = m + 1 /\ 2 + m = m + 2 /\ 3 + m = m + 3 /\ 4 + m = m + 4
      /\ 5 + m = m + 5 /\ 6 + m = m + 6 /\ 7 + m = m + 7 /\ 8 + m = m + 8
  OBVIOUS
<1> QED BY <1>2, <1>4, <1>5, <1>6, <1>7

Mantissas == 2^ManBits
Exponents == 2^ExpBits

\* The shape of a float's pattern.
LEMMA FloatShape ==
  /\ Mantissas \in Nat /\ Mantissas >= 2 /\ Exponents \in Nat /\ Exponents >= 4
  /\ Negative = Exponents * Mantissas /\ 2^(ExpBits + ManBits) = Exponents * Mantissas
  /\ Infinity = (Exponents - 1) * Mantissas /\ Infinity \in Nat /\ Negative = Infinity + Mantissas
  /\ 2^(ManBits + 1) = 2 * Mantissas
<1>1. PICK m \in 1..23 : m = ManBits
  BY FloatAssumption
<1>2. PICK e \in 2..8 : e = ExpBits
  BY FloatAssumption
<1>3. /\ m \in 0..31 /\ m \in 0..23 /\ e \in 0..8 /\ e \in 0..31 /\ m - 1 \in 0..31 /\ e - 1 \in 0..31
      /\ e - 2 \in 0..31
      /\ (m - 1) + 1 = m /\ (e - 1) + 1 = e /\ (e - 2) + 1 = e - 1
  OBVIOUS
<1>4. Power(e + m) = Power(e) * Power(m)
  BY <1>3, PowersMultiply
<1>5. /\ Power(m + 1) = 2 * Power(m) /\ Power(m) = 2 * Power(m - 1)
      /\ Power(e) = 2 * Power(e - 1) /\ Power(e - 1) = 2 * Power(e - 2)
      /\ Power(m - 1) \in Nat \ {0} /\ Power(e - 2) \in Nat \ {0}
  BY <1>3, PowersDouble
<1>6. /\ Mantissas = Power(m) /\ Exponents = Power(e) /\ Negative = Power(e + m)
      /\ 2^(ExpBits + ManBits) = Power(e + m) /\ 2^(ManBits + 1) = Power(m + 1)
      /\ Infinity = (Exponents - 1) * Mantissas
  BY <1>1, <1>2 DEF Mantissas, Exponents, Negative, Infinity, Power
<1>7. Mantissas \in Nat /\ Mantissas >= 2 /\ Exponents \in Nat /\ Exponents >= 4
  BY <1>5, <1>6
<1>8. Infinity \in Nat /\ Exponents * Mantissas = Infinity + Mantissas
  BY <1>6, <1>7
<1> QED BY <1>4, <1>5, <1>6, <1>7, <1>8

\* What a pattern's parts are.
LEMMA PatternIs ==
  ASSUME NEW p \in 0..(2 * Negative - 1)
  PROVE  /\ F32Sign(p) \in {0, 1} /\ F32Mag(p) \in 0..(Negative - 1)
         /\ p = F32Sign(p) * Negative + F32Mag(p)
<1>1. PICK n \in Nat \ {0} : n = Negative
  BY FloatShape
<1>2. F32Sign(p) = p \div n /\ F32Mag(p) = p % n
  BY <1>1, FloatShape DEF F32Sign, F32Mag
<1>3. p \div n \in {0, 1} /\ p % n \in 0..(n - 1) /\ p = (p \div n) * n + (p % n)
  BY <1>1
<1> QED BY <1>1, <1>2, <1>3

\* The exponent and the mantissa of a pattern without its sign.
Lead(p) == p \div Mantissas
Man(p) == p % Mantissas
LEMMA LeadAndMan ==
  ASSUME NEW p \in Nat
  PROVE  Lead(p) \in Nat /\ Man(p) \in 0..(Mantissas - 1) /\ p = Lead(p) * Mantissas + Man(p)
<1>0. Mantissas \in Nat \ {0}
  BY FloatShape
<1>1. PICK n \in Nat \ {0} : n = Mantissas
  BY ONLY <1>0
<1>2. p \div n \in Nat /\ p % n \in 0..(n - 1) /\ p = (p \div n) * n + (p % n)
  <2>1. p % n \in 0..(n - 1) /\ p = (p \div n) * n + (p % n) /\ p \div n \in Int
    BY <1>1
  <2>2. p \div n >= 0
    BY <1>1
  <2> QED BY <2>1, <2>2
<1> QED BY <1>1, <1>2 DEF Lead, Man

\* And they are all there is to it.
LEMMA LeadAndManUnique ==
  ASSUME NEW e \in Nat, NEW m \in 0..(Mantissas - 1)
  PROVE  Lead(e * Mantissas + m) = e /\ Man(e * Mantissas + m) = m
<1>1. PICK n \in Nat \ {0} : n = Mantissas
  BY FloatShape
<1>2. PICK p \in Nat : p = e * n + m
  <2>1. e * n + m \in Nat
    BY <1>1
  <2> QED BY <2>1
<1>3. p - e * n \in 0..(n - 1)
  BY <1>1, <1>2
<1>4. p \div n = e
  BY <1>1, <1>3, DivisionUnique
<1>5. Lead(p) = e /\ p = e * Mantissas + m
  BY <1>1, <1>2, <1>4 DEF Lead
<1>6. p = Lead(p) * Mantissas + Man(p) /\ Man(p) \in 0..(Mantissas - 1)
  BY ONLY p \in Nat, LeadAndMan
<1>7. Man(p) = m
  BY <1>1, <1>5, <1>6
<1> QED BY <1>5, <1>7

-----------------------------------------------------------------------------
(* What a float is worth.                                                    *)

\* The worth of a pattern without its sign, and the step to the next.
Size(p) == IF Lead(p) = 0 THEN Man(p) ELSE (Mantissas + Man(p)) * Twos[Lead(p) - 1]
Ulp(p) == IF Lead(p) = 0 THEN 1 ELSE Twos[Lead(p) - 1]

LEMMA SizeTyped ==
  ASSUME NEW p \in Nat
  PROVE  /\ Size(p) \in Nat /\ Ulp(p) \in Nat \ {0}
         /\ p < Mantissas => Lead(p) = 0 /\ Size(p) = p /\ Ulp(p) = 1
         /\ p >= Mantissas => Lead(p) # 0 /\ Size(p) = (Mantissas + Man(p)) * Ulp(p)
<1>1. Mantissas \in Nat \ {0}
  BY FloatShape
<1>2. Lead(p) \in Nat /\ Man(p) \in 0..(Mantissas - 1) /\ p = Lead(p) * Mantissas + Man(p)
  BY ONLY p \in Nat, LeadAndMan
<1>3. CASE Lead(p) = 0
  <2>1. p = Man(p) /\ p < Mantissas
    BY <1>1, <1>2, <1>3
  <2> QED BY <1>1, <1>2, <1>3, <2>1 DEF Size, Ulp
<1>4. CASE Lead(p) # 0
  <2>1. Lead(p) - 1 \in Nat
    BY <1>2, <1>4
  <2>2. Twos[Lead(p) - 1] \in Nat \ {0}
    BY <2>1, TwosIs
  <2>3. PICK u \in Nat \ {0} : u = Twos[Lead(p) - 1]
    BY <2>2
  <2>4. Ulp(p) = u /\ Size(p) = (Mantissas + Man(p)) * u
    BY <1>4, <2>3 DEF Size, Ulp
  <2>5. (Mantissas + Man(p)) * u \in Nat
    BY <1>1, <1>2
  <2>6. p >= Mantissas
    <3>1. PICK l \in Nat \ {0}, m \in 0..(Mantissas - 1) : l = Lead(p) /\ m = Man(p)
      BY <1>2, <1>4
    <3>2. l * Mantissas >= Mantissas
      BY <1>1
    <3> QED BY <1>1, <1>2, <3>1, <3>2
  <2> QED BY <1>1, <1>4, <2>4, <2>5, <2>6
<1> QED BY <1>3, <1>4

\* The next pattern is worth one step more.
LEMMA SizeSteps ==
  ASSUME NEW p \in Nat
  PROVE  Size(p + 1) = Size(p) + Ulp(p)
<1>1. PICK n \in Nat : n = Mantissas /\ n >= 2
  BY FloatShape
<1>2. Lead(p) \in Nat /\ Man(p) \in 0..(Mantissas - 1) /\ p = Lead(p) * Mantissas + Man(p)
  BY ONLY p \in Nat, LeadAndMan
<1>3. PICK l \in Nat, m \in 0..(n - 1) : l = Lead(p) /\ m = Man(p) /\ p = l * n + m
  BY <1>1, <1>2
<1>4. CASE m # n - 1
  <2>1. m + 1 \in 0..(Mantissas - 1) /\ p + 1 = l * Mantissas + (m + 1)
    <3>1. m + 1 \in 0..(n - 1)
      BY <1>4
    <3>2. PICK z \in Nat : z = l * n
      OBVIOUS
    <3>4. p = z + m
      BY <1>3, <3>2
    <3>3. p + 1 = z + (m + 1)
      BY <3>4
    <3> QED BY <1>1, <3>1, <3>2, <3>3
  <2>2. Lead(p + 1) = l /\ Man(p + 1) = m + 1
    <3>1. /\ Lead(l * Mantissas + (m + 1)) = l /\ Man(l * Mantissas + (m + 1)) = m + 1
      BY ONLY l \in Nat, <2>1, LeadAndManUnique
    <3> QED BY <2>1, <3>1
  <2>3. CASE l = 0
    BY <1>3, <2>2, <2>3 DEF Size, Ulp
  <2>4. CASE l # 0
    <3>1. l - 1 \in Nat
      BY <2>4
    <3>2. PICK u \in Nat : u = Twos[l - 1]
      BY <3>1, TwosIs
    <3>3. Size(p + 1) = (n + (m + 1)) * u /\ Size(p) = (n + m) * u /\ Ulp(p) = u
      BY <1>1, <1>3, <2>2, <2>4, <3>2 DEF Size, Ulp
    <3>4. (n + (m + 1)) * u = (n + m) * u + u
      OBVIOUS
    <3> QED BY <3>3, <3>4
  <2> QED BY <2>3, <2>4
<1>5. CASE m = n - 1
  <2>1. 0 \in 0..(Mantissas - 1) /\ p + 1 = (l + 1) * Mantissas + 0 /\ l + 1 \in Nat
    <3>1. (l + 1) * n = l * n + n
      OBVIOUS
    <3> QED BY <1>1, <1>3, <1>5, <3>1
  <2>2. Lead(p + 1) = l + 1 /\ Man(p + 1) = 0
    BY <2>1, LeadAndManUnique
  <2>3. PICK t \in Nat : t = Twos[l]
    BY TwosIs
  <2>4. Size(p + 1) = n * t
    <3>1. l + 1 # 0 /\ (l + 1) - 1 = l
      OBVIOUS
    <3> QED BY <1>1, <2>2, <2>3, <3>1 DEF Size
  <2>5. CASE l = 0
    <3>1. t = 1
      BY <2>3, <2>5, TwosIs
    <3> QED BY <1>1, <1>3, <1>5, <2>4, <2>5, <3>1 DEF Size, Ulp
  <2>6. CASE l # 0
    <3>1. l - 1 \in Nat /\ (l - 1) + 1 = l
      BY <2>6
    <3>2. Twos[l - 1] \in Nat /\ Twos[l] = 2 * Twos[l - 1]
      BY <3>1, TwosIs
    <3>3. PICK u \in Nat : u = Twos[l - 1] /\ t = 2 * u
      BY <2>3, <3>2
    <3>4. Size(p) = (n + (n - 1)) * u /\ Ulp(p) = u
      BY <1>1, <1>3, <1>5, <2>6, <3>3 DEF Size, Ulp
    <3>5. (n + (n - 1)) * u + u = n * (2 * u)
      OBVIOUS
    <3> QED BY <2>4, <3>3, <3>4, <3>5
  <2> QED BY <2>5, <2>6
<1> QED BY <1>4, <1>5

\* A larger pattern is worth more.
LEMMA SizeGrows ==
  ASSUME NEW p \in Nat, NEW q \in Nat, p < q
  PROVE  Size(p) < Size(q)
<1> DEFINE S == {r \in Nat : p < r /\ ~(Size(p) < Size(r))}
<1>1. SUFFICES ASSUME S # {} PROVE FALSE
  OBVIOUS
<1>2. S \in SUBSET Nat
  OBVIOUS
<1>3. PICK k \in S : \A r \in S : k <= r
  <2> HIDE DEF S
  <2> QED BY <1>1, <1>2, SomeLeast
<1>4. k \in Nat /\ p < k /\ ~(Size(p) < Size(k)) /\ k - 1 \in Nat /\ k - 1 \notin S /\ (k - 1) + 1 = k
  BY <1>3
<1>5. Size(k) = Size(k - 1) + Ulp(k - 1)
  BY <1>4, SizeSteps
<1>6. /\ Size(k - 1) \in Nat /\ Size(k) \in Nat /\ Size(p) \in Nat /\ Ulp(k - 1) \in Nat \ {0}
  BY <1>4, SizeTyped
<1>7. k - 1 = p \/ Size(p) < Size(k - 1)
  BY <1>4
<1> HIDE DEF S
<1> QED BY <1>4, <1>5, <1>6, <1>7

\* Patterns stand in the order of their worth.
LEMMA SizeOrder ==
  ASSUME NEW p \in Nat, NEW q \in Nat
  PROVE  Size(p) \in Nat /\ Size(q) \in Nat /\ (p <= q <=> Size(p) <= Size(q))
<1>1. Size(p) \in Nat /\ Size(q) \in Nat
  BY SizeTyped
<1>2. (p < q => Size(p) < Size(q)) /\ (q < p => Size(q) < Size(p))
  BY SizeGrows
<1> QED BY <1>1, <1>2

\* A step is no more than one part in as many as there are mantissas.
LEMMA StepIsSmall ==
  ASSUME NEW p \in Nat, NEW q \in Nat, q \in {p, p + 1}, q >= Mantissas
  PROVE  Mantissas * Ulp(p) <= Size(q)
<1>1. PICK n \in Nat : n = Mantissas /\ n >= 2
  BY FloatShape
<1>2. Size(p) \in Nat /\ Size(q) \in Nat /\ Ulp(p) \in Nat \ {0} /\ Size(p) <= Size(q)
  BY SizeTyped, SizeOrder
<1>3. CASE p >= n
  <2>1. Size(p) = (n + Man(p)) * Ulp(p) /\ Man(p) \in Nat
    BY <1>1, <1>3, SizeTyped, LeadAndMan
  <2>2. PICK u \in Nat, m \in Nat : u = Ulp(p) /\ m = Man(p)
    BY <1>2, <2>1
  <2>3. n * u <= (n + m) * u
    OBVIOUS
  <2> QED BY <1>1, <1>2, <2>1, <2>2, <2>3
<1>4. CASE p < n
  <2>1. Ulp(p) = 1 /\ Size(p) = p /\ p = n - 1 /\ q = p + 1
    BY <1>1, <1>4, SizeTyped
  <2>2. Size(q) = Size(p) + 1
    BY <2>1, SizeSteps
  <2> QED BY <1>1, <2>1, <2>2
<1> QED BY <1>3, <1>4

\* A float is worth its size, below nought when it has its sign.
LEMMA ValueIs ==
  ASSUME NEW p \in 0..(2 * Negative - 1)
  PROVE  /\ F32Exp(p) = Lead(F32Mag(p))
         /\ Value(p) = IF F32Sign(p) = 1 THEN -Size(F32Mag(p)) ELSE Size(F32Mag(p))
<1>1. PICK n \in Nat, g \in Nat : n = Mantissas /\ n >= 2 /\ g = Exponents /\ Negative = g * n
  BY FloatShape
<1>2. F32Sign(p) \in {0, 1} /\ F32Mag(p) \in 0..(Negative - 1) /\ p = F32Sign(p) * Negative + F32Mag(p)
  BY PatternIs
<1>3. PICK s \in {0, 1}, m \in Nat : s = F32Sign(p) /\ m = F32Mag(p) /\ p = s * Negative + m
  BY <1>1, <1>2
<1>4. Lead(m) \in Nat /\ Man(m) \in 0..(Mantissas - 1) /\ m = Lead(m) * Mantissas + Man(m)
  BY ONLY m \in Nat, LeadAndMan
<1>5. PICK l \in Nat, r \in 0..(n - 1) : l = Lead(m) /\ r = Man(m) /\ m = l * n + r
  BY <1>1, <1>4
<1>6. p = (s * g + l) * n + r /\ s * g + l \in Nat
  <2>1. (s * g + l) * n = s * (g * n) + l * n
    OBVIOUS
  <2>2. s * g + l \in Nat
    OBVIOUS
  <2> QED BY <1>1, <1>3, <1>5, <2>1, <2>2
<1>7. Man(p) = r
  BY <1>1, <1>6, LeadAndManUnique
<1>8. p % 2^ManBits = r /\ F32Exp(p) = l
  BY <1>3, <1>5, <1>7 DEF Man, Lead, Mantissas, F32Exp
<1>9. Size(m) \in Nat /\ Size(m) = IF l = 0 THEN r ELSE (n + r) * Twos[l - 1]
  BY <1>1, <1>5, SizeTyped DEF Size
<1>10. Value(p) = (IF s = 1 THEN -1 ELSE 1) * (IF l = 0 THEN r ELSE (n + r) * Twos[l - 1])
  BY <1>1, <1>3, <1>8 DEF Value, Mantissas
<1>11. Value(p) = (IF s = 1 THEN -1 ELSE 1) * Size(m)
  BY <1>9, <1>10
<1>12. Value(p) = IF s = 1 THEN -Size(m) ELSE Size(m)
  BY <1>9, <1>11
<1> QED BY <1>3, <1>5, <1>8, <1>12

\* A pattern without a sign is worth its size.
LEMMA PositiveIs ==
  ASSUME NEW p \in 0..Infinity
  PROVE  /\ p \in 0..(2 * Negative - 1) /\ F32Sign(p) = 0 /\ F32Mag(p) = p /\ F32Exp(p) = Lead(p)
         /\ Value(p) = Size(p) /\ Values[p] = Size(p)
<1>1. Infinity \in Nat /\ Negative \in Nat /\ Infinity < Negative
  BY FloatShape
<1>2. p \in 0..(2 * Negative - 1)
  BY <1>1
<1>3. F32Sign(p) \in {0, 1} /\ F32Mag(p) \in 0..(Negative - 1) /\ p = F32Sign(p) * Negative + F32Mag(p)
  BY <1>2, PatternIs
<1>4. F32Sign(p) = 0 /\ F32Mag(p) = p
  BY <1>1, <1>3
<1>5. F32Exp(p) = Lead(p) /\ Value(p) = Size(p)
  BY <1>2, <1>4, ValueIs
<1> QED BY <1>2, <1>4, <1>5 DEF Values

\* What rounding to the nearest does: b is the last float that is no more than n / d.
IsNearest(n, d, b, r) ==
  /\ b \in 0..Infinity /\ r \in 0..Infinity /\ d * Size(b) <= n
  /\ \A p \in 0..Infinity : d * Size(p) <= n => p <= b
  /\ \/ b = Infinity /\ r = Infinity
     \/ b < Infinity /\ r = b /\ 2 * n <= d * (Size(b) + Size(b + 1))
     \/ b < Infinity /\ r = b + 1 /\ 2 * n >= d * (Size(b) + Size(b + 1))

LEMMA NearestIs ==
  ASSUME NEW n \in Nat, NEW d \in Nat \ {0}
  PROVE  \E b \in 0..Infinity : IsNearest(n, d, b, Nearest(n, d))
<1> DEFINE S == {p \in 0..Infinity : d * Values[p] <= n}
           below == Max(S)
           past == 2 * n - d * (Values[below] + Values[below + 1])
<1>1. Infinity \in Nat
  BY FloatShape
<1>2. /\ 0 \in 0..Infinity /\ Size(0) = 0
  <2>1. 0 < Mantissas
    BY FloatShape
  <2> QED BY <1>1, <2>1, SizeTyped
<1>3. 0 \in S
  <2>1. Values[0] = 0
    BY <1>2, PositiveIs
  <2> QED BY <1>2, <2>1
<1>4. S \in SUBSET Int /\ S # {} /\ \A x \in S : x <= Infinity
  BY <1>1, <1>3
<1>5. below \in S /\ \A x \in S : x <= below
  <2> HIDE DEF S
  <2>1. S \in SUBSET Int /\ Infinity \in Int
    BY <1>1, <1>4
  <2> QED BY ONLY <1>4, <2>1, GreatestOf
<1>6. below \in 0..Infinity /\ d * Values[below] <= n
  BY <1>5
<1>7. \A p \in 0..Infinity : d * Values[p] <= n => p <= below
  BY <1>5
<1>8. Nearest(n, d) = IF below = Infinity THEN Infinity
                      ELSE IF past > 0 \/ (past = 0 /\ below % 2 = 1) THEN below + 1 ELSE below
  BY DEF Nearest
<1> HIDE DEF S, below, past
<1>9. d * Size(below) <= n
  BY <1>6, PositiveIs
<1>10. \A p \in 0..Infinity : d * Size(p) <= n => p <= below
  BY <1>7, PositiveIs
<1>11. CASE below = Infinity
  <2>1. Nearest(n, d) = Infinity /\ Infinity \in 0..Infinity
    BY <1>1, <1>8, <1>11
  <2> QED BY <1>6, <1>9, <1>10, <1>11, <2>1 DEF IsNearest
<1>12. CASE below # Infinity
  <2>1. below + 1 \in 0..Infinity /\ below < Infinity /\ below \in Nat
    BY <1>1, <1>6, <1>12
  <2>2. Values[below] = Size(below) /\ Values[below + 1] = Size(below + 1)
    BY <1>6, <2>1, PositiveIs
  <2>3. past = 2 * n - d * (Size(below) + Size(below + 1))
    BY <2>2 DEF past
  <2>4. d * (Size(below) + Size(below + 1)) \in Int
    <3>1. Size(below) \in Int /\ Size(below + 1) \in Int
      BY <2>1, SizeTyped
    <3> QED BY <3>1
  <2>5. \/ Nearest(n, d) = below + 1 /\ past >= 0
        \/ Nearest(n, d) = below /\ past <= 0
    BY <1>8, <1>12, <2>3, <2>4
  <2>6. CASE Nearest(n, d) = below + 1 /\ past >= 0
    <3>1. 2 * n >= d * (Size(below) + Size(below + 1))
      BY <2>3, <2>4, <2>6
    <3> QED BY <1>6, <1>9, <1>10, <2>1, <2>6, <3>1 DEF IsNearest
  <2>7. CASE Nearest(n, d) = below /\ past <= 0
    <3>1. 2 * n <= d * (Size(below) + Size(below + 1))
      BY <2>3, <2>4, <2>7
    <3> QED BY <1>6, <1>9, <1>10, <2>1, <2>7, <3>1 DEF IsNearest
  <2> QED BY <2>5, <2>6, <2>7
<1> QED BY <1>11, <1>12

\* Products in the order of their factors.
LEMMA Multiplied ==
  ASSUME NEW d \in Nat \ {0}, NEW a \in Int, NEW b \in Int
  PROVE  d * a \in Int /\ d * b \in Int /\ (a <= b <=> d * a <= d * b)
OBVIOUS

\* What is no less than a float is rounded to no less.
LEMMA NearestAtLeast ==
  ASSUME NEW n \in Nat, NEW d \in Nat \ {0}, NEW q \in 0..Infinity, d * Size(q) <= n
  PROVE  Nearest(n, d) \in 0..Infinity /\ q <= Nearest(n, d)
<1>1. PICK b \in 0..Infinity : IsNearest(n, d, b, Nearest(n, d))
  BY NearestIs
<1>2. q <= b /\ Nearest(n, d) \in 0..Infinity /\ Nearest(n, d) >= b
  BY <1>1 DEF IsNearest
<1> QED BY <1>2

\* What is no more than one is rounded to no more.
LEMMA NearestAtMost ==
  ASSUME NEW n \in Nat, NEW d \in Nat \ {0}, NEW q \in 0..(Infinity - 1), n <= d * Size(q)
  PROVE  Nearest(n, d) \in 0..q
<1>1. PICK b \in 0..Infinity : IsNearest(n, d, b, Nearest(n, d))
  BY NearestIs
<1>2. PICK r \in 0..Infinity : r = Nearest(n, d) /\ IsNearest(n, d, b, r)
  BY <1>1 DEF IsNearest
<1>3. Infinity \in Nat /\ q \in Nat /\ b \in Nat
  BY FloatShape
<1>4. d * Size(b) <= n /\ Size(b) \in Nat /\ Size(q) \in Nat
  BY <1>2, <1>3, SizeTyped DEF IsNearest
<1>5. b <= q
  <2>1. d * Size(b) <= d * Size(q)
    <3>1. d * Size(b) \in Int /\ d * Size(q) \in Int
      BY <1>4
    <3> QED BY <1>4, <3>1
  <2>2. Size(b) <= Size(q)
    BY <1>4, <2>1, Multiplied
  <2> QED BY <1>3, <2>2, SizeOrder
<1>6. CASE b < q
  BY <1>2, <1>3, <1>6 DEF IsNearest
<1>7. CASE b = q
  <2>1. b < Infinity
    BY <1>3, <1>7
  <2>2. Size(b + 1) = Size(b) + Ulp(b) /\ Ulp(b) \in Nat \ {0}
    BY <1>3, SizeSteps, SizeTyped
  <2>3. PICK s \in Nat, u \in Nat \ {0} : s = Size(b) /\ u = Ulp(b)
    BY <1>4, <2>2
  <2>4. n = d * s
    <3>1. d * s \in Int
      OBVIOUS
    <3> QED BY <1>4, <1>7, <2>3, <3>1
  <2>5. ~(2 * n >= d * (Size(b) + Size(b + 1)))
    <3>1. d * (s + (s + u)) = 2 * (d * s) + d * u /\ d * u > 0
      OBVIOUS
    <3>2. ~(2 * n >= d * (s + (s + u)))
      BY <2>4, <3>1
    <3> QED BY <2>2, <2>3, <3>2
  <2>6. r = b
    BY <1>2, <2>1, <2>5 DEF IsNearest
  <2> QED BY <1>2, <1>3, <1>7, <2>6
<1> QED BY <1>3, <1>5, <1>6, <1>7

\* How far a float in full precision is from what was rounded to it.
LEMMA HalfStep ==
  ASSUME NEW n \in Nat, NEW d \in Nat \ {0}, NEW s \in Nat, NEW u \in Nat, NEW k \in Nat,
         d * s <= n, n <= d * (s + u), 2 * n <= d * (s + (s + u)), k * u <= s
  PROVE  2 * k * (n - d * s) <= d * s /\ n - d * s >= 0
<1>1. 2 * (n - d * s) <= d * u /\ n - d * s >= 0
  OBVIOUS
<1>2. PICK e \in Nat : e = n - d * s
  BY <1>1
<1>3. PICK g \in Nat : g = d * u
  OBVIOUS
<1>4. k * (2 * e) <= k * g
  <2>1. 2 * e <= g
    BY <1>1, <1>2, <1>3
  <2> QED BY ONLY <2>1, e \in Nat, g \in Nat, k \in Nat
<1>5. k * g <= d * s
  <2>1. d * (k * u) <= d * s
    OBVIOUS
  <2>2. k * g = d * (k * u)
    BY <1>3
  <2> QED BY <2>1, <2>2
<1>6. 2 * k * e = k * (2 * e)
  OBVIOUS
<1> QED BY <1>1, <1>2, <1>4, <1>5, <1>6
LEMMA HalfStepBack ==
  ASSUME NEW n \in Nat, NEW d \in Nat \ {0}, NEW s \in Nat, NEW u \in Nat, NEW k \in Nat,
         n < d * (s + u), 2 * n >= d * (s + (s + u)), k * u <= s + u
  PROVE  2 * k * (d * (s + u) - n) <= d * (s + u) /\ d * (s + u) - n >= 0
<1>1. PICK t \in Nat : t = s + u
  OBVIOUS
<1>2. PICK g \in Nat : g = d * u
  OBVIOUS
<1>3. 2 * (d * t - n) <= g /\ d * t - n >= 0 /\ d * t - n \in Int
  <2>1. d * (s + (s + u)) = 2 * (d * t) - g
    BY <1>1, <1>2
  <2>2. d * t \in Int
    OBVIOUS
  <2> QED BY <1>1, <2>1, <2>2
<1>4. PICK e \in Nat : e = d * t - n
  BY <1>3
<1>5. k * (2 * e) <= k * g
  <2>1. 2 * e <= g
    BY <1>3, <1>4
  <2> QED BY ONLY <2>1, e \in Nat, g \in Nat, k \in Nat
<1>6. k * g <= d * t
  <2>1. d * (k * u) <= d * t
    BY <1>1
  <2>2. k * g = d * (k * u)
    BY <1>2
  <2> QED BY <2>1, <2>2
<1>7. 2 * k * e = k * (2 * e)
  OBVIOUS
<1> QED BY <1>1, <1>3, <1>4, <1>5, <1>6, <1>7

RoundedTo(n, d, r) ==
  /\ 2 * Mantissas * (n - d * Size(r)) <= d * Size(r)
  /\ 2 * Mantissas * (d * Size(r) - n) <= d * Size(r)
LEMMA NearestErr ==
  ASSUME NEW n \in Nat, NEW d \in Nat \ {0}, NEW r \in Mantissas..(Infinity - 1), r = Nearest(n, d)
  PROVE  RoundedTo(n, d, r)
<1>1. PICK b \in 0..Infinity : IsNearest(n, d, b, r)
  BY NearestIs
<1>2. PICK k \in Nat, i \in Nat : k = Mantissas /\ k >= 2 /\ i = Infinity
  BY FloatShape
<1>3. b \in Nat /\ r \in Nat /\ b < Infinity /\ b + 1 \in 0..Infinity /\ r \in {b, b + 1}
  BY <1>1, <1>2 DEF IsNearest
<1>4. Size(b) \in Nat /\ Ulp(b) \in Nat /\ Size(b + 1) = Size(b) + Ulp(b)
  BY <1>3, SizeTyped, SizeSteps
<1>5. PICK s \in Nat, u \in Nat : s = Size(b) /\ u = Ulp(b)
  BY <1>4
<1>6. k * u <= Size(r)
  BY <1>2, <1>3, <1>5, StepIsSmall
<1>7. d * s <= n /\ n < d * (s + u)
  <2>1. ~(d * Size(b + 1) <= n)
    <3>1. ~(b + 1 <= b)
      BY <1>3
    <3> QED BY <1>1, <1>3, <3>1 DEF IsNearest
  <2>2. d * (s + u) \in Int
    OBVIOUS
  <2>3. n < d * (s + u)
    BY <1>4, <1>5, <2>1, <2>2
  <2>4. d * s <= n
    BY <1>1, <1>5 DEF IsNearest
  <2> QED BY <2>3, <2>4
<1>8. CASE r = b
  <2>1. 2 * n <= d * (s + (s + u))
    <3>1. 2 * n <= d * (Size(b) + Size(b + 1))
      BY <1>1, <1>3, <1>8 DEF IsNearest
    <3> QED BY <1>4, <1>5, <3>1
  <2>2. k * u <= s
    BY <1>5, <1>6, <1>8
  <2>3. n <= d * (s + u)
    <3>1. d * (s + u) \in Int
      OBVIOUS
    <3> QED BY <1>7, <3>1
  <2>4. 2 * k * (n - d * s) <= d * s /\ n - d * s >= 0
    BY <1>7, <2>1, <2>2, <2>3, HalfStep
  <2>5. 2 * k * (d * s - n) <= d * s
    <3>1. PICK e \in Nat : e = n - d * s
      BY <2>4
    <3>2. d * s - n = -e /\ d * s \in Nat
      BY <3>1
    <3>3. 2 * k * (-e) <= 0
      OBVIOUS
    <3> QED BY <3>2, <3>3
  <2> QED BY <1>2, <1>5, <1>8, <2>4, <2>5 DEF RoundedTo
<1>9. CASE r = b + 1
  <2>1. 2 * n >= d * (s + (s + u))
    <3>1. 2 * n >= d * (Size(b) + Size(b + 1))
      BY <1>1, <1>3, <1>9 DEF IsNearest
    <3> QED BY <1>4, <1>5, <3>1
  <2>2. k * u <= s + u /\ Size(r) = s + u
    BY <1>4, <1>5, <1>6, <1>9
  <2>3. 2 * k * (d * (s + u) - n) <= d * (s + u) /\ d * (s + u) - n >= 0
    BY <1>7, <2>1, <2>2, HalfStepBack
  <2>4. PICK t \in Nat : t = s + u
    OBVIOUS
  <2>5. 2 * k * (n - d * t) <= d * t
    <3>1. PICK e \in Nat : e = d * t - n
      BY <2>3, <2>4
    <3>2. n - d * t = -e /\ d * t \in Nat
      BY <3>1
    <3>3. 2 * k * (-e) <= 0
      OBVIOUS
    <3> QED BY <3>2, <3>3
  <2> QED BY <1>2, <2>2, <2>3, <2>4, <2>5 DEF RoundedTo
<1> QED BY <1>3, <1>8, <1>9

-----------------------------------------------------------------------------
(* The slide of the weights.                                                 *)

\* The power of two a weight is multiplied by where the slide is upwards.
Up(n) == Twos[Max({n, 0})]

\* Those powers are positive.
LEMMA UpIs ==
  /\ \A n \in Nat : Up(n) = Twos[n] /\ Up(-n) = 1
  /\ \A n \in Int : Up(n) \in Nat \ {0}
<1>1. \A n \in Nat : Max({n, 0}) = n
  BY DEF Max
<1>2. \A n \in Nat : Max({-n, 0}) = 0
  BY DEF Max
<1>3. \A n \in Nat : Up(n) = Twos[n] /\ Up(-n) = 1
  BY <1>1, <1>2, TwosIs DEF Up
<1>4. ASSUME NEW n \in Int PROVE Up(n) \in Nat \ {0}
  <2>1. CASE n \in Nat
    BY <1>3, <2>1, TwosIs
  <2>2. CASE n \notin Nat
    <3>1. PICK k \in Nat : k = -n
      BY <2>2
    <3>2. n = -k
      BY <3>1
    <3> QED BY <1>3, <3>2
  <2> QED BY <2>1, <2>2
<1> QED BY <1>3, <1>4

\* A weight moved, in those powers.
LEMMA LdexpIs ==
  ASSUME NEW w \in Int, NEW n \in Int
  PROVE  /\ Ldexp(w, n).n = w * Up(n) /\ Ldexp(w, n).d = Up(-n)
         /\ Up(n) \in Nat \ {0} /\ Up(-n) \in Nat \ {0}
<1>1. -n \in Int
  OBVIOUS
<1> QED BY <1>1, UpIs DEF Ldexp, Up

\* Once a weight has reached a limit a further slide leaves it there, and twice what is
\* beyond the limit's half is beyond it.
Reaches(w, limit, n) == w * Up(n) >= limit * Up(-n)
Passes(w, limit, n) == w * Up(n) > limit * Up(-n)
LEMMA SlideStep ==
  ASSUME NEW w \in Nat, NEW limit \in Nat, NEW n \in Int
  PROVE  /\ Reaches(w, limit, n) => Reaches(w, limit, n + 1)
         /\ Passes(w, limit, n) => Passes(w, limit, n + 1)
         /\ 2 * (w * Up(n)) > limit * Up(-n) => Passes(w, limit, n + 1)
<1>1. CASE n \in Nat
  <2>1. /\ n + 1 \in Nat /\ Up(n) = Twos[n] /\ Up(-n) = 1
        /\ Up(n + 1) = Twos[n + 1] /\ Up(-(n + 1)) = 1
    BY <1>1, UpIs
  <2>2. PICK u \in Nat \ {0} : u = Twos[n] /\ Twos[n + 1] = 2 * u
    BY <1>1, TwosIs
  <2>3. w * (2 * u) = 2 * (w * u) /\ w * u \in Nat
    OBVIOUS
  <2> QED BY <2>1, <2>2, <2>3 DEF Reaches, Passes
<1>2. CASE n \notin Nat
  <2>1. PICK k \in Nat : k = -(n + 1)
    BY <1>2
  <2>2. n = -(k + 1) /\ n + 1 = -k /\ -n = k + 1 /\ -(n + 1) = k
    BY <2>1
  <2>3. k + 1 \in Nat
    OBVIOUS
  <2>4. Up(n) = 1 /\ Up(n + 1) = 1 /\ Up(-n) = Twos[k + 1] /\ Up(-(n + 1)) = Twos[k]
    BY <2>2, <2>3, UpIs
  <2>5. PICK u \in Nat \ {0} : u = Twos[k] /\ Twos[k + 1] = 2 * u
    BY TwosIs
  <2>6. limit * (2 * u) = 2 * (limit * u) /\ limit * u \in Nat
    OBVIOUS
  <2> QED BY <2>4, <2>5, <2>6 DEF Reaches, Passes
<1> QED BY <1>1, <1>2

\* and so for every further slide.
LEMMA SlideFurther ==
  ASSUME NEW w \in Nat, NEW limit \in Nat, NEW m \in Int, NEW n \in Int, m <= n
  PROVE  /\ Reaches(w, limit, m) => Reaches(w, limit, n)
         /\ Passes(w, limit, m) => Passes(w, limit, n)
<1> DEFINE Kept(k) == /\ Reaches(w, limit, m) => Reaches(w, limit, m + k)
                      /\ Passes(w, limit, m) => Passes(w, limit, m + k)
           S == {k \in Nat : ~Kept(k)}
<1>1. S = {}
  <2>1. SUFFICES ASSUME S # {} PROVE FALSE
    OBVIOUS
  <2>2. S \in SUBSET Nat
    OBVIOUS
  <2>3. PICK k \in S : \A r \in S : k <= r
    <3> HIDE DEF S
    <3> QED BY <2>1, <2>2, SomeLeast
  <2>4. k \in Nat /\ ~Kept(k)
    BY <2>3
  <2>5. m + 0 = m
    OBVIOUS
  <2>6. k # 0
    BY <2>4, <2>5
  <2>7. k - 1 \in Nat /\ Kept(k - 1) /\ (m + (k - 1)) + 1 = m + k /\ m + (k - 1) \in Int
    BY <2>3, <2>4, <2>6
  <2>8. /\ Reaches(w, limit, m + (k - 1)) => Reaches(w, limit, m + k)
        /\ Passes(w, limit, m + (k - 1)) => Passes(w, limit, m + k)
    BY <2>7, SlideStep
  <2> QED BY <2>4, <2>7, <2>8
<1>2. PICK k \in Nat : k = n - m
  OBVIOUS
<1>3. Kept(k)
  BY <1>1, <1>2
<1>4. m + k = n
  BY <1>2
<1> QED BY <1>3, <1>4

-----------------------------------------------------------------------------
(* What is sane is built.                                                    *)

\* A pattern with its sign.
LEMMA SignedIs ==
  ASSUME NEW r \in 0..Infinity, NEW s \in {0, 1}
  PROVE  /\ r + s * Negative \in 0..(2 * Negative - 1)
         /\ F32Sign(r + s * Negative) = s /\ F32Mag(r + s * Negative) = r
         /\ F32Exp(r + s * Negative) = Lead(r)
<1>1. Infinity \in Nat /\ Negative \in Nat /\ Infinity < Negative
  BY FloatShape
<1>2. PICK p \in Int : p = r + s * Negative
  BY <1>1
<1>3. p \in 0..(2 * Negative - 1)
  BY <1>1, <1>2
<1>4. F32Sign(p) \in {0, 1} /\ F32Mag(p) \in 0..(Negative - 1) /\ p = F32Sign(p) * Negative + F32Mag(p)
  BY <1>3, PatternIs
<1>5. F32Sign(p) = s /\ F32Mag(p) = r
  <2>0. PICK n \in Nat : n = Negative
    BY <1>1
  <2>5. PICK t \in {0, 1}, m \in 0..(n - 1) : t = F32Sign(p) /\ m = F32Mag(p)
    BY <1>4, <2>0
  <2>1. p = t * n + m /\ n = Negative
    BY <1>4, <2>0, <2>5
  <2>2. p = s * n + r /\ r < n
    BY <1>1, <1>2, <2>1
  <2>3. (s = 0 => s * n = 0) /\ (s = 1 => s * n = n) /\ (t = 0 => t * n = 0) /\ (t = 1 => t * n = n)
    BY <2>1
  <2>4. s = t /\ r = m
    BY <2>1, <2>2, <2>3
  <2> QED BY <2>5, <2>4
<1>6. F32Exp(p) = Lead(r)
  BY <1>3, <1>5, ValueIs
<1> QED BY <1>2, <1>3, <1>5, <1>6

\* A pattern before infinity is a number's.
LEMMA FiniteIs ==
  ASSUME NEW p \in 0..(Infinity - 1)
  PROVE  Lead(p) # 2^ExpBits - 1
<1>1. PICK n \in Nat, e \in Nat : /\ n = Mantissas /\ n >= 2 /\ e = Exponents /\ e >= 4
                                  /\ Infinity = (e - 1) * n
  BY FloatShape
<1>2. SUFFICES ASSUME Lead(p) = e - 1 PROVE FALSE
  BY <1>1 DEF Exponents
<1>3. p \in Nat
  OBVIOUS
<1>4. p = Lead(p) * Mantissas + Man(p) /\ Man(p) \in 0..(Mantissas - 1)
  BY ONLY <1>3, LeadAndMan
<1>5. PICK m \in Nat : m = Man(p)
  BY <1>1, <1>4
<1>6. p = (e - 1) * n + m
  BY <1>1, <1>2, <1>4, <1>5
<1>7. Infinity \in Nat /\ p = Infinity + m
  BY <1>1, <1>6
<1> QED BY <1>7

\* What the assumptions say of the limits.
LEMMA LimitsAre ==
  /\ \A p \in {Float.one, Float.coord, Float.rhwMin, Float.rhwMax} :
       /\ p \in 1..(Infinity - 1) /\ p \in 0..Infinity /\ F32Mag(p) = p /\ Value(p) = Size(p)
       /\ Size(p) \in Nat \ {0}
  /\ Size(Float.one) <= Size(Float.coord)
  /\ Size(Float.rhwMin) <= Size(Float.rhwMax)
<1>1. Infinity \in Nat
  BY FloatShape
<1>2. ASSUME NEW p \in {Float.one, Float.coord, Float.rhwMin, Float.rhwMax}
      PROVE  /\ p \in 1..(Infinity - 1) /\ p \in 0..Infinity /\ F32Mag(p) = p /\ Value(p) = Size(p)
             /\ Size(p) \in Nat \ {0}
  <2>1. p \in 1..(Infinity - 1)
    BY FloatAssumption
  <2>2. p \in 0..Infinity /\ p \in Nat /\ 0 \in Nat /\ 0 < p
    BY <1>1, <2>1
  <2>3. Size(0) < Size(p) /\ Size(0) \in Nat /\ Size(p) \in Nat
    BY <2>2, SizeGrows, SizeTyped
  <2> QED BY <2>1, <2>2, <2>3, PositiveIs
<1>3. /\ Float.one \in Nat /\ Float.coord \in Nat /\ Float.rhwMin \in Nat /\ Float.rhwMax \in Nat
      /\ Float.one <= Float.coord /\ Float.rhwMin <= Float.rhwMax
  <2>1. Float.one <= Float.coord /\ Float.rhwMin <= Float.rhwMax
    BY FloatAssumption
  <2> QED BY <1>1, <1>2, <2>1
<1>4. Size(Float.one) <= Size(Float.coord)
  BY <1>3, SizeOrder
<1>5. Size(Float.rhwMin) <= Size(Float.rhwMax)
  BY <1>3, SizeOrder
<1> QED BY <1>2, <1>4, <1>5

\* A number no farther than a limit is a float no farther than it.
LEMMA FloatWithin ==
  ASSUME NEW n \in Int, NEW d \in Nat \ {0}, NEW q \in 0..(Infinity - 1), Abs(n) <= d * Size(q)
  PROVE  F32Finite(F32Of(n, d)) /\ F32Mag(F32Of(n, d)) \in 0..q
<1>1. Abs(n) \in Nat /\ Infinity \in Nat /\ q \in Nat
  BY FloatShape DEF Abs
<1>2. PICK a \in Nat : a = Abs(n)
  BY <1>1
<1>3. Nearest(a, d) \in 0..q
  BY <1>2, NearestAtMost
<1>4. PICK r \in 0..q : r = Nearest(Abs(n), d)
  BY <1>2, <1>3
<1>5. r \in 0..Infinity /\ r \in 0..(Infinity - 1)
  BY <1>1
<1>6. PICK s \in {0, 1} : s = IF n < 0 THEN 1 ELSE 0
  OBVIOUS
<1>7. F32Of(n, d) = r + s * Negative
  <2>1. Negative \in Nat
    BY FloatShape
  <2> QED BY <1>4, <1>6, <2>1 DEF F32Of
<1>8. F32Mag(F32Of(n, d)) = r /\ F32Exp(F32Of(n, d)) = Lead(r)
  BY <1>5, <1>7, SignedIs
<1>9. Lead(r) # 2^ExpBits - 1
  BY <1>5, FiniteIs
<1> QED BY <1>8, <1>9 DEF F32Finite

\* A number that is not negative has no sign.
LEMMA PositiveFloat ==
  ASSUME NEW n \in Nat, NEW d
  PROVE  F32Of(n, d) = Nearest(n, d) + 0
BY DEF F32Of, Abs

\* Arithmetic of a coordinate, half a pixel low.
LEMMA HalfLow ==
  ASSUME NEW o \in Nat \ {0}, NEW c \in Nat, o <= c, NEW s \in Nat \ {0}, NEW v \in 0..(s * (c \div o))
  PROVE  /\ o * (v - (s \div 2)) \in Int /\ Abs(o * (v - (s \div 2))) <= s * c
<1>1. PICK R \in Int : R = c \div o
  BY DivisionIs
<1>2. c - R * o \in 0..(o - 1)
  BY <1>1, DivisionIs
<1>3. o * R <= c /\ R >= 1
  <2>1. o * R <= c
    BY <1>2
  <2>2. ~(R <= 0)
    <3>1. SUFFICES ASSUME R <= 0 PROVE FALSE
      OBVIOUS
    <3>2. R * o <= 0
      BY <3>1
    <3> QED BY <1>2, <3>2
  <2> QED BY <2>1, <2>2
<1>4. PICK h \in Int : h = s \div 2
  OBVIOUS
<1>5. 0 <= h /\ h <= s
  BY <1>4
<1>6. PICK R1 \in Nat : R1 = R
  BY <1>3
<1>7. s <= s * R1 /\ s * R1 \in Nat
  BY <1>3, <1>6
<1>8. PICK z \in Int : z = v - h
  OBVIOUS
<1>9. v <= s * R1 /\ v >= 0
  BY <1>1, <1>6, <1>7
<1>10. Abs(z) \in Nat /\ Abs(z) <= s * R1
  BY <1>5, <1>7, <1>8, <1>9 DEF Abs
<1>11. PICK a \in Nat, m \in Nat : a = Abs(z) /\ m = s * R1
  BY <1>7, <1>10
<1>12. o * a <= o * m
  BY <1>10, <1>11
<1>13. o * m <= s * c
  <2>1. o * m = s * (o * R1)
    BY <1>11
  <2>2. PICK b \in Nat : b = o * R1
    OBVIOUS
  <2>3. s * b <= s * c
    BY <1>3, <1>6, <2>2
  <2> QED BY <2>1, <2>2, <2>3
<1>14. o * z \in Int /\ Abs(o * z) = o * a
  <2>1. CASE z >= 0
    <3>1. a = z
      BY <1>11, <2>1 DEF Abs
    <3>2. o * z >= 0
      BY <2>1
    <3> QED BY <3>1, <3>2 DEF Abs
  <2>2. CASE z < 0
    <3>1. a = -z
      BY <1>11, <2>2 DEF Abs
    <3>2. o * z < 0 /\ o * (-z) = -(o * z)
      BY <2>2
    <3> QED BY <3>1, <3>2 DEF Abs
  <2> QED BY <2>1, <2>2
<1>15. Abs(o * z) <= s * c
  BY <1>12, <1>13, <1>14
<1> QED BY <1>4, <1>8, <1>14, <1>15

Far == SubOne * (Value(Float.coord) \div Value(Float.one))

\* A sane coordinate is a float in range,
LEMMA CoordinateSane ==
  ASSUME NEW v \in 0..Far
  PROVE  F32AbsAtMost(F32Of(Value(Float.one) * (v - SubOne \div 2), SubOne), Float.coord)
<1>1. PICK s \in Nat \ {0} : s = SubOne
  BY SubBitsAssumption, PowersAre
<1>2. PICK o \in Nat \ {0}, c \in Nat : o = Value(Float.one) /\ c = Size(Float.coord) /\ o <= c
                                     /\ c = Value(Float.coord)
  <2>1. /\ Size(Float.one) \in Nat \ {0} /\ Size(Float.coord) \in Nat
        /\ Value(Float.one) = Size(Float.one) /\ Value(Float.coord) = Size(Float.coord)
        /\ Size(Float.one) <= Size(Float.coord)
    BY LimitsAre
  <2> QED BY <2>1
<1>3. v \in 0..(s * (c \div o))
  BY <1>1, <1>2 DEF Far
<1>4. /\ o * (v - (s \div 2)) \in Int /\ Abs(o * (v - (s \div 2))) <= s * c
  BY <1>2, <1>3, HalfLow
<1>5. PICK n \in Int : n = Value(Float.one) * (v - SubOne \div 2) /\ Abs(n) <= SubOne * Size(Float.coord)
  BY <1>1, <1>2, <1>4
<1>6. Float.coord \in 0..(Infinity - 1) /\ F32Mag(Float.coord) = Float.coord
  <2>1. Float.coord \in 1..(Infinity - 1) /\ F32Mag(Float.coord) = Float.coord
    BY LimitsAre
  <2>2. Infinity \in Nat
    BY FloatShape
  <2> QED BY <2>1, <2>2
<1>7. F32Finite(F32Of(n, s)) /\ F32Mag(F32Of(n, s)) \in 0..Float.coord
  BY <1>1, <1>5, <1>6, FloatWithin
<1>8. F32AbsAtMost(F32Of(n, s), Float.coord)
  BY <1>6, <1>7 DEF F32AbsAtMost
<1> QED BY <1>1, <1>5, <1>8

\* A number that is not negative, and no more than a finite limit.
LEMMA FloatInside ==
  ASSUME NEW n \in Nat, NEW d \in Nat \ {0}, NEW q \in 0..(Infinity - 1), n <= d * Size(q)
  PROVE  /\ F32Of(n, d) = Nearest(n, d) /\ F32Of(n, d) \in 0..q /\ F32Sign(F32Of(n, d)) = 0
         /\ F32Finite(F32Of(n, d)) /\ F32Exp(F32Of(n, d)) = Lead(F32Of(n, d))
<1>1. Infinity \in Nat
  BY FloatShape
<1>2. Nearest(n, d) \in 0..q
  BY NearestAtMost
<1>3. PICK r \in 0..q : r = Nearest(n, d)
  BY <1>2
<1>4. F32Of(n, d) = r
  BY <1>3, PositiveFloat
<1>5. r \in 0..Infinity /\ r \in 0..(Infinity - 1)
  BY <1>1
<1>6. F32Sign(r) = 0 /\ F32Exp(r) = Lead(r)
  BY <1>5, PositiveIs
<1>7. Lead(r) # 2^ExpBits - 1
  BY <1>5, FiniteIs
<1> QED BY <1>3, <1>4, <1>6, <1>7 DEF F32Finite

\* a sane depth one from nought to one,
LEMMA DepthSane ==
  ASSUME NEW z \in 0..(SubOne * DepthMax)
  PROVE  F32InUnit(F32Of(Value(Float.one) * z, SubOne * (DepthMax + 1)))
<1>1. PICK s \in Nat \ {0} : s = SubOne
  BY SubBitsAssumption, PowersAre
<1>2. PICK o \in Nat \ {0} : o = Value(Float.one) /\ o = Size(Float.one)
  BY LimitsAre
<1>3. PICK m \in Nat : m = DepthMax
  BY FloatAssumption
<1>4. Float.one \in 0..(Infinity - 1)
  <2>1. Float.one \in 1..(Infinity - 1)
    BY LimitsAre
  <2>2. Infinity \in Nat
    BY FloatShape
  <2> QED BY <2>1, <2>2
<1>5. z \in 0..(s * m)
  BY <1>1, <1>3
<1>6. PICK n \in Nat, d \in Nat \ {0} : n = o * z /\ d = s * (m + 1)
  <2>1. z \in Nat
    BY <1>5
  <2>2. o * z \in Nat /\ s * (m + 1) \in Nat \ {0}
    BY <2>1
  <2> QED BY <2>2
<1>7. n <= d * Size(Float.one)
  <2>1. z <= d
    <3>1. s * (m + 1) = s * m + s
      OBVIOUS
    <3> QED BY <1>5, <1>6, <3>1
  <2>2. z \in Nat
    BY <1>5
  <2>3. o * z <= o * d /\ o * d = d * o
    BY <2>1, <2>2
  <2> QED BY <1>2, <1>6, <2>3
<1>8. F32Of(n, d) \in 0..Float.one /\ F32Sign(F32Of(n, d)) = 0 /\ F32Finite(F32Of(n, d))
  BY <1>4, <1>7, FloatInside
<1>9. F32InUnit(F32Of(n, d))
  BY <1>4, <1>8 DEF F32InUnit
<1> QED BY <1>1, <1>2, <1>3, <1>6, <1>9

\* a sane coordinate of a texture a number,
LEMMA TextureSane ==
  ASSUME NEW c \in 0..Value(Float.one), NEW q \in Nat \ {0}
  PROVE  F32Finite(F32Of(c, q))
<1>1. PICK o \in Nat \ {0} : o = Value(Float.one) /\ o = Size(Float.one)
  BY LimitsAre
<1>2. Float.one \in 0..(Infinity - 1)
  <2>1. Float.one \in 1..(Infinity - 1)
    BY LimitsAre
  <2>2. Infinity \in Nat
    BY FloatShape
  <2> QED BY <2>1, <2>2
<1>3. c \in Nat /\ c <= q * Size(Float.one)
  <2>1. c \in Nat /\ c <= o
    BY <1>1
  <2>2. o <= q * o
    OBVIOUS
  <2> QED BY <1>1, <2>1, <2>2
<1> QED BY <1>2, <1>3, FloatInside

\* A weight that the slide brings into its window.
Windowed(w, n) == Reaches(w, WeightMin, n) /\ w * Up(n) <= WeightMax * Up(-n)
LEMMA WeightSane ==
  ASSUME NEW w \in Nat, NEW n \in Int, Windowed(w, n)
  PROVE  LET p == F32Of(Ldexp(w, n).n, Ldexp(w, n).d)
         IN  F32PosNormal(p) /\ F32Between(p, Float.rhwMin, Float.rhwMax)
<1>1. PICK a \in Nat \ {0}, b \in Nat \ {0} : /\ a = Up(n) /\ b = Up(-n)
                                              /\ Ldexp(w, n).n = w * a /\ Ldexp(w, n).d = b
  <2>1. /\ Ldexp(w, n).n = w * Up(n) /\ Ldexp(w, n).d = Up(-n)
        /\ Up(n) \in Nat \ {0} /\ Up(-n) \in Nat \ {0}
    <3>1. w \in Int
      OBVIOUS
    <3> QED BY ONLY <3>1, n \in Int, LdexpIs
  <2> QED BY <2>1
<1>2. PICK lo \in Nat, hi \in Nat : /\ lo = Size(Float.rhwMin) /\ hi = Size(Float.rhwMax)
                                    /\ lo = WeightMin /\ hi = WeightMax
  <2>1. /\ Size(Float.rhwMin) \in Nat /\ Size(Float.rhwMax) \in Nat
        /\ Value(Float.rhwMin) = Size(Float.rhwMin) /\ Value(Float.rhwMax) = Size(Float.rhwMax)
    BY LimitsAre
  <2> QED BY <2>1 DEF WeightMin, WeightMax
<1>3. PICK m \in Nat : m = w * a
  OBVIOUS
<1>4. b * lo <= m /\ m <= b * hi
  <2>1. m >= lo * b /\ m <= hi * b
    BY <1>1, <1>2, <1>3 DEF Windowed, Reaches
  <2> QED BY <2>1
<1>5. /\ Float.rhwMin \in 0..Infinity /\ Float.rhwMax \in 0..(Infinity - 1) /\ Infinity \in Nat
      /\ Float.rhwMin \in Nat
  <2>1. Float.rhwMin \in 1..(Infinity - 1) /\ Float.rhwMax \in 1..(Infinity - 1)
    BY LimitsAre
  <2>2. Infinity \in Nat
    BY FloatShape
  <2> QED BY <2>1, <2>2
<1>6. Float.rhwMin <= Nearest(m, b)
  BY <1>2, <1>4, <1>5, NearestAtLeast
<1>7. /\ F32Of(m, b) = Nearest(m, b) /\ F32Of(m, b) \in 0..Float.rhwMax /\ F32Sign(F32Of(m, b)) = 0
      /\ F32Finite(F32Of(m, b)) /\ F32Exp(F32Of(m, b)) = Lead(F32Of(m, b))
  BY <1>2, <1>4, <1>5, FloatInside
<1>8. Lead(F32Of(m, b)) # 0
  <2>1. PICK r \in Nat : r = F32Of(m, b) /\ Float.rhwMin <= r
    BY <1>5, <1>6, <1>7
  <2>2. Mantissas \in Nat /\ Mantissas <= Float.rhwMin
    BY FloatAssumption, FloatShape DEF Mantissas
  <2>3. r >= Mantissas
    BY <1>5, <2>1, <2>2
  <2> QED BY <2>1, <2>3, SizeTyped
<1>9. F32PosNormal(F32Of(m, b))
  BY <1>7, <1>8 DEF F32PosNormal, F32Finite
<1>10. F32Between(F32Of(m, b), Float.rhwMin, Float.rhwMax)
  BY <1>5, <1>6, <1>7 DEF F32Between
<1> QED BY <1>1, <1>3, <1>9, <1>10

\* So a sane vertex is one the driver takes.
LEMMA VertexSane ==
  ASSUME NEW v, {v.x, v.y, v.z, v.qw, v.tq, v.s, v.t} \subseteq Int,
         NEW textured \in BOOLEAN, NEW offset \in Int, NEW slide \in Int,
         v.qw > 0, v.tq > 0, v.x \in 0..Far, v.y \in 0..Far,
         v.z + offset * SubOne \in 0..(SubOne * DepthMax),
         {v.s, v.t} \subseteq 0..Value(Float.one), Windowed(v.qw * v.tq, slide)
  PROVE  VertexOK(BuildVertex(v, textured, offset, slide))
<1> DEFINE b == BuildVertex(v, textured, offset, slide)
           w == v.qw * v.tq
<1>1. v.qw \in Nat \ {0} /\ v.tq \in Nat \ {0} /\ w \in Nat
  <2>1. PICK g \in Nat \ {0}, h \in Nat \ {0} : g = v.qw /\ h = v.tq
    OBVIOUS
  <2>2. g * h \in Nat
    OBVIOUS
  <2> QED BY <2>1, <2>2
<1>2. F32AbsAtMost(b.x, Float.coord) /\ F32AbsAtMost(b.y, Float.coord)
  <2>1. /\ b.x = F32Of(Value(Float.one) * (v.x - SubOne \div 2), SubOne)
        /\ b.y = F32Of(Value(Float.one) * (v.y - SubOne \div 2), SubOne)
    BY DEF BuildVertex
  <2> QED BY <2>1, CoordinateSane
<1>3. F32InUnit(b.z)
  <2>1. b.z = F32Of(Value(Float.one) * (v.z + offset * SubOne), SubOne * (DepthMax + 1))
    BY DEF BuildVertex
  <2> QED BY <2>1, DepthSane
<1>4. F32PosNormal(b.rhw) /\ F32Between(b.rhw, Float.rhwMin, Float.rhwMax)
  <2>1. b.rhw = F32Of(Ldexp(w, slide).n, Ldexp(w, slide).d)
    BY DEF BuildVertex
  <2>2. Windowed(w, slide)
    OBVIOUS
  <2> HIDE DEF w, b
  <2> QED BY <1>1, <2>1, <2>2, WeightSane
<1>5. F32Finite(b.tu0) /\ F32Finite(b.tv0)
  <2>1. b.tu0 = (IF textured THEN F32Of(v.s, v.tq) ELSE 0) /\ b.tv0 = (IF textured THEN F32Of(v.t, v.tq) ELSE 0)
    BY DEF BuildVertex
  <2>2. F32Finite(F32Of(v.s, v.tq)) /\ F32Finite(F32Of(v.t, v.tq))
    BY <1>1, TextureSane
  <2>3. F32Finite(0)
    <3>1. Infinity \in Nat /\ 0 \in 0..Infinity /\ 0 \in 0..(Infinity - 1)
      <4>1. Float.one \in 1..(Infinity - 1)
        BY LimitsAre
      <4>2. Infinity \in Nat
        BY FloatShape
      <4> QED BY <4>1, <4>2
    <3>2. F32Exp(0) = Lead(0) /\ Lead(0) # 2^ExpBits - 1
      BY <3>1, PositiveIs, FiniteIs
    <3> QED BY <3>2 DEF F32Finite
  <2> QED BY <2>1, <2>2, <2>3
<1> HIDE DEF b
<1>6. VertexOK(b)
  BY <1>2, <1>3, <1>4, <1>5 DEF VertexOK
<1> QED BY <1>6 DEF b

-----------------------------------------------------------------------------
(* The weights of a triangle.                                                *)

WeightOf(tri, i) == tri[i].qw * tri[i].tq
\* They are three, and have a largest and a least.
LEMMA WeightsAre ==
  ASSUME NEW t, IsAsk(t)
  PROVE  /\ Weights(t.tri) = {WeightOf(t.tri, i) : i \in 1..3}
         /\ Weights(t.tri) \in SUBSET Int /\ Weights(t.tri) # {}
         /\ Max(Weights(t.tri)) \in Weights(t.tri) /\ Min(Weights(t.tri)) \in Weights(t.tri)
         /\ \A w \in Weights(t.tri) : Min(Weights(t.tri)) <= w /\ w <= Max(Weights(t.tri))
<1> DEFINE ws == Weights(t.tri)
           W(i) == WeightOf(t.tri, i)
<1>1. \A i \in 1..3 : W(i) \in Int
  <2>1. \A i \in 1..3 : t.tri[i].qw \in Int /\ t.tri[i].tq \in Int
    BY DEF IsAsk
  <2> QED BY <2>1 DEF WeightOf
<1>2. ws = {W(1), W(2), W(3)}
  BY DEF Weights, WeightOf
<1>3. {W(i) : i \in 1..3} = {W(1), W(2), W(3)}
  <2> HIDE DEF W
  <2>1. 1..3 = {1, 2, 3}
    OBVIOUS
  <2> QED BY <2>1
<1>4. W(1) \in Int /\ W(2) \in Int /\ W(3) \in Int
  BY <1>1
<1>5. PICK a \in Int, b \in Int, c \in Int : a = W(1) /\ b = W(2) /\ c = W(3)
  BY <1>4
<1>6. ws \in SUBSET Int /\ ws # {}
  BY <1>2, <1>4
<1>7. PICK lo \in Int, hi \in Int : \A w \in {a, b, c} : lo <= w /\ w <= hi
  <2>1. PICK lo \in Int : lo <= a /\ lo <= b /\ lo <= c
    <3>1. \/ a <= b /\ a <= c
          \/ b <= a /\ b <= c
          \/ c <= a /\ c <= b
      OBVIOUS
    <3> QED BY <3>1
  <2>2. PICK hi \in Int : a <= hi /\ b <= hi /\ c <= hi
    <3>1. \/ b <= a /\ c <= a
          \/ a <= b /\ c <= b
          \/ a <= c /\ b <= c
      OBVIOUS
    <3> QED BY <3>1
  <2> QED BY <2>1, <2>2
<1>8. \A w \in ws : lo <= w /\ w <= hi
  BY <1>2, <1>5, <1>7
<1> HIDE DEF ws
<1>9. Min(ws) \in ws /\ \A w \in ws : Min(ws) <= w
  BY <1>6, <1>8, LeastOf
<1>10. Max(ws) \in ws /\ \A w \in ws : w <= Max(ws)
  BY <1>6, <1>8, GreatestOf
<1> QED BY <1>2, <1>3, <1>6, <1>9, <1>10 DEF ws

\* The slide is the one that brings a weight into the upper half of the window.
LEMMA SlideIs ==
  ASSUME NEW t, IsAsk(t), NEW w \in Weights(t.tri), w > 0
  PROVE  Slide(w) \in Int /\ UpperHalf(w, Slide(w))
<1>1. \E n \in -SlideMax..SlideMax : UpperHalf(w, n)
  BY DEF IsAsk
<1>2. Slide(w) \in -SlideMax..SlideMax /\ UpperHalf(w, Slide(w))
  BY <1>1 DEF Slide
<1> QED BY <1>2, SlideAssumption

\* The slide is a number.
LEMMA RebaseTyped ==
  ASSUME NEW t, IsAsk(t)
  PROVE  Rebase(t.tri).n \in Int
<1> DEFINE ws == Weights(t.tri)
           small == \/ \E w \in ws : w <= 0
                    \/ Min(ws) >= WeightMin /\ Max(ws) <= WeightMax
<1>1. CASE small
  <2>1. Rebase(t.tri).n = 0
    BY <1>1 DEF Rebase
  <2> QED BY <2>1
<1>2. CASE ~small
  <2>1. Rebase(t.tri).n = Slide(Max(ws))
    BY <1>2 DEF Rebase
  <2>2. Max(ws) \in ws /\ ws \in SUBSET Int
    BY WeightsAre
  <2>3. Max(ws) > 0
    BY <1>2, <2>2
  <2> QED BY <2>1, <2>2, <2>3, SlideIs
<1> QED BY <1>1, <1>2

\* The window and its upper half, in powers of two.
LEMMA WindowIs ==
  ASSUME NEW w \in Nat, NEW n \in Int
  PROVE  LET v == Ldexp(w, n) IN
         /\ Windowed(w, n) <=> v.n >= WeightMin * v.d /\ v.n <= WeightMax * v.d
         /\ UpperHalf(w, n) <=> 2 * (w * Up(n)) > WeightMax * Up(-n) /\ w * Up(n) <= WeightMax * Up(-n)
<1>1. /\ Ldexp(w, n).n = w * Up(n) /\ Ldexp(w, n).d = Up(-n)
  <2>1. w \in Int
    OBVIOUS
  <2> QED BY ONLY <2>1, n \in Int, LdexpIs
<1> QED BY <1>1 DEF Windowed, Reaches, UpperHalf

\* A limit that a smaller weight reaches a larger one reaches.
LEMMA ReachesMore ==
  ASSUME NEW w \in Nat, NEW v \in Nat, w <= v, NEW limit \in Nat, NEW n \in Int
  PROVE  /\ Reaches(w, limit, n) => Reaches(v, limit, n)
         /\ v * Up(n) <= limit * Up(-n) => w * Up(n) <= limit * Up(-n)
<1>1. PICK a \in Nat, b \in Nat : a = Up(n) /\ b = Up(-n)
  <2>1. -n \in Int
    OBVIOUS
  <2>2. Up(n) \in Nat \ {0} /\ Up(-n) \in Nat \ {0}
    BY <2>1, UpIs
  <2> QED BY <2>2
<1>2. w * a <= v * a /\ w * a \in Nat /\ v * a \in Nat /\ limit * b \in Nat
  OBVIOUS
<1> QED BY <1>1, <1>2 DEF Reaches

\* When some power of two fits all the weights, the code's does.
LEMMA RebaseFits ==
  ASSUME NEW t, IsAsk(t), \A w \in Weights(t.tri) : w > 0, NEW m \in Int,
         \A w \in Weights(t.tri) : Windowed(w, m)
  PROVE  /\ Rebase(t.tri).ok
         /\ \A w \in Weights(t.tri) : Windowed(w, Rebase(t.tri).n)
<1> DEFINE ws == Weights(t.tri)
           lo == Min(ws)
           hi == Max(ws)
<1>1. /\ ws \in SUBSET Int /\ lo \in ws /\ hi \in ws /\ \A w \in ws : lo <= w /\ w <= hi
  BY WeightsAre
<1>2. \A w \in ws : w \in Nat
  BY <1>1
<1>3. WeightMin \in Nat /\ WeightMax \in Nat
  <2>1. Value(Float.rhwMin) = Size(Float.rhwMin) /\ Value(Float.rhwMax) = Size(Float.rhwMax)
        /\ Size(Float.rhwMin) \in Nat /\ Size(Float.rhwMax) \in Nat
    BY LimitsAre
  <2> QED BY <2>1 DEF WeightMin, WeightMax
<1>4. CASE lo >= WeightMin /\ hi <= WeightMax
  <2>1. Rebase(t.tri).ok /\ Rebase(t.tri).n = 0
    BY <1>4 DEF Rebase
  <2>2. Up(0) = 1 /\ Up(-0) = 1
    BY UpIs, TwosIs
  <2>3. ASSUME NEW w \in ws PROVE Windowed(w, 0)
    <3>1. w \in Nat /\ w >= WeightMin /\ w <= WeightMax
      BY <1>1, <1>2, <1>3, <1>4
    <3> QED BY <1>3, <2>2, <3>1 DEF Windowed, Reaches
  <2> QED BY <2>1, <2>3
<1>5. CASE ~(lo >= WeightMin /\ hi <= WeightMax)
  <2> DEFINE n == Slide(hi)
  <2>1. /\ Rebase(t.tri).n = n
        /\ Rebase(t.tri).ok = (Ldexp(lo, n).n >= WeightMin * Ldexp(lo, n).d)
    <3>1. ~(\E w \in ws : w <= 0)
      BY <1>1, <1>2
    <3> QED BY <1>5, <3>1 DEF Rebase
  <2>2. n \in Int /\ UpperHalf(hi, n)
    BY <1>1, SlideIs
  <2> HIDE DEF n, ws, lo, hi
  <2>3. hi \in Nat /\ lo \in Nat
    BY <1>1, <1>2
  <2>4. /\ 2 * (hi * Up(n)) > WeightMax * Up(-n) /\ hi * Up(n) <= WeightMax * Up(-n)
    BY <2>2, <2>3, WindowIs
  <2>5. m <= n
    <3>1. SUFFICES ASSUME n + 1 <= m PROVE FALSE
      BY <2>2
    <3>2. Passes(hi, WeightMax, n + 1)
      BY <1>3, <2>2, <2>3, <2>4, SlideStep
    <3>3. n + 1 \in Int
      BY <2>2
    <3>4. Passes(hi, WeightMax, m)
      BY <1>3, <2>3, <3>1, <3>2, <3>3, SlideFurther
    <3>5. Windowed(hi, m)
      BY <1>1 DEF ws
    <3>6. PICK a \in Int, b \in Int : a = hi * Up(m) /\ b = WeightMax * Up(-m)
      <4>1. -m \in Int
        OBVIOUS
      <4>2. Up(m) \in Nat /\ Up(-m) \in Nat
        BY <4>1, UpIs
      <4> QED BY <1>3, <2>3, <4>2
    <3> QED BY <3>4, <3>5, <3>6 DEF Windowed, Passes
  <2>6. ASSUME NEW w \in ws PROVE Windowed(w, n)
    <3>1. w \in Nat /\ w <= hi
      BY <1>1, <1>2
    <3>2. Reaches(w, WeightMin, m)
      <4>1. Windowed(w, m)
        BY DEF ws
      <4> QED BY <4>1 DEF Windowed
    <3>3. Reaches(w, WeightMin, n)
      BY <1>3, <2>2, <2>5, <3>1, <3>2, SlideFurther
    <3>4. w * Up(n) <= WeightMax * Up(-n)
      BY <1>3, <2>2, <2>3, <2>4, <3>1, ReachesMore
    <3> QED BY <3>3, <3>4 DEF Windowed
  <2>7. Ldexp(lo, n).n >= WeightMin * Ldexp(lo, n).d
    <3>1. Windowed(lo, n)
      BY <1>1, <2>6
    <3> QED BY <2>2, <2>3, <3>1, WindowIs
  <2> QED BY <2>1, <2>6, <2>7 DEF ws
<1> QED BY <1>4, <1>5

\* What some power of two fits is built.
Fits(t, m) ==
  \A w \in Weights(t.tri) :
    LET v == Ldexp(w, m) IN v.n >= WeightMin * v.d /\ v.n <= WeightMax * v.d
LEMMA SaneIsBuilt ==
  ASSUME NEW t, IsAsk(t), Sane(t), NEW m \in Int, Fits(t, m)
  PROVE  BuildWarp(t.tri, t.prim, t.offset) # <<>>
<1> DEFINE tri == t.tri
           ws == Weights(tri)
           textured == t.prim.opcode = OpTex
           slide == Rebase(tri).n
           built == [i \in 1..3 |-> BuildVertex(tri[i], textured, t.offset, slide)]
<1>1. \A i \in 1..3 : {tri[i].x, tri[i].y, tri[i].z, tri[i].qw, tri[i].tq, tri[i].s, tri[i].t} \subseteq Int
  BY DEF IsAsk
<1>2. \A i \in 1..3 : /\ tri[i].qw > 0 /\ tri[i].tq > 0 /\ tri[i].x \in 0..Far /\ tri[i].y \in 0..Far
                      /\ tri[i].z + t.offset * SubOne \in 0..(SubOne * DepthMax)
                      /\ {tri[i].s, tri[i].t} \subseteq 0..Value(Float.one)
  BY DEF Sane, Far
<1>3. ws = {WeightOf(tri, i) : i \in 1..3}
  BY WeightsAre
<1>4. \A i \in 1..3 : WeightOf(tri, i) \in Nat \ {0}
  <2>1. ASSUME NEW i \in 1..3 PROVE WeightOf(tri, i) \in Nat \ {0}
    <3>1. PICK g \in Nat \ {0}, h \in Nat \ {0} : g = tri[i].qw /\ h = tri[i].tq
      <4>1. tri[i].qw \in Int /\ tri[i].tq \in Int /\ tri[i].qw > 0 /\ tri[i].tq > 0
        BY <1>1, <1>2
      <4> HIDE DEF tri
      <4> QED BY <4>1
    <3>2. g * h \in Nat \ {0}
      OBVIOUS
    <3> QED BY <3>1, <3>2 DEF WeightOf
  <2> QED BY <2>1
<1>5. \A w \in ws : w \in Nat /\ w > 0 /\ Windowed(w, m)
  <2>1. ASSUME NEW w \in ws PROVE w \in Nat /\ w > 0 /\ Windowed(w, m)
    <3>1. w \in Nat /\ w > 0
      BY <1>3, <1>4
    <3>2. Ldexp(w, m).n >= WeightMin * Ldexp(w, m).d /\ Ldexp(w, m).n <= WeightMax * Ldexp(w, m).d
      BY DEF Fits
    <3> QED BY <3>1, <3>2, WindowIs
  <2> QED BY <2>1
<1>6. Rebase(tri).ok /\ \A w \in ws : Windowed(w, slide)
  BY <1>5, RebaseFits
<1>7. slide \in Int /\ t.offset \in Int /\ textured \in BOOLEAN
  BY RebaseTyped DEF IsAsk
<1>8. \A i \in 1..3 : VertexOK(built[i])
  <2>1. ASSUME NEW i \in 1..3 PROVE VertexOK(BuildVertex(tri[i], textured, t.offset, slide))
    <3>1. Windowed(tri[i].qw * tri[i].tq, slide)
      BY <1>3, <1>6 DEF WeightOf
    <3> HIDE DEF tri, slide, textured
    <3> QED BY <1>1, <1>2, <1>7, <3>1, VertexSane
  <2> QED BY <2>1
<1>9. BuildWarp(tri, t.prim, t.offset) = built
  BY <1>2, <1>6, <1>8 DEF BuildWarp
<1>10. built # <<>>
  <2>1. DOMAIN built = 1..3
    OBVIOUS
  <2> QED BY <2>1
<1> QED BY <1>9, <1>10

-----------------------------------------------------------------------------
(* What is built stands in the ratio of the weights.                         *)

\* Two numbers, each near what it was rounded from.
LEMMA Cross ==
  ASSUME NEW k \in Nat \ {0}, NEW x \in Nat, NEW e \in Int, NEW y \in Nat, NEW f \in Int,
         k * f <= y, -(k * e) <= x
  PROVE  k * (x * f - y * e) <= x * (y + f) + y * (x + e)
<1>1. k * ((k - 1) * (x * f)) <= (k - 1) * (x * y)
  <2>1. PICK a \in Nat : a = (k - 1) * x
    <3>1. k - 1 \in Nat
      OBVIOUS
    <3>2. (k - 1) * x \in Nat
      BY <3>1
    <3> QED BY <3>2
  <2>2. a * (k * f) <= a * y
    <3>1. PICK g \in Int : g = k * f
      OBVIOUS
    <3>2. g <= y
      BY <3>1
    <3>3. a * g <= a * y
      BY <3>2
    <3> QED BY <3>1, <3>3
  <2>3. k * ((k - 1) * (x * f)) = a * (k * f) /\ (k - 1) * (x * y) = a * y
    BY <2>1
  <2> QED BY <2>2, <2>3
<1>2. -(k * ((k + 1) * (y * e))) <= (k + 1) * (x * y)
  <2>1. PICK a \in Nat : a = (k + 1) * y
    OBVIOUS
  <2>2. a * (-(k * e)) <= a * x
    <3>1. PICK g \in Int : g = -(k * e)
      OBVIOUS
    <3>2. g <= x
      BY <3>1
    <3>3. a * g <= a * x
      BY <3>2
    <3> QED BY <3>1, <3>3
  <2>3. -(k * ((k + 1) * (y * e))) = a * (-(k * e)) /\ (k + 1) * (x * y) = a * x
    BY <2>1
  <2> QED BY <2>2, <2>3
<1>3. PICK p \in Int, q \in Int, z \in Int : p = x * f /\ q = y * e /\ z = x * y
  OBVIOUS
<1>4. k * ((k - 1) * p) <= (k - 1) * z /\ -(k * ((k + 1) * q)) <= (k + 1) * z
  BY <1>1, <1>2, <1>3
<1>5. k * ((k - 1) * p - (k + 1) * q) <= k * (2 * z)
  <2>1. k * ((k - 1) * p - (k + 1) * q) = k * ((k - 1) * p) + (-(k * ((k + 1) * q)))
    OBVIOUS
  <2>2. (k - 1) * z + (k + 1) * z = k * (2 * z)
    OBVIOUS
  <2> QED BY <1>4, <2>1, <2>2
<1>6. (k - 1) * p - (k + 1) * q <= 2 * z
  <2>1. PICK u \in Int : u = (k - 1) * p - (k + 1) * q
    OBVIOUS
  <2>2. k * u <= k * (2 * z)
    BY <1>5, <2>1
  <2>3. u <= 2 * z
    BY <2>2
  <2> QED BY <2>1, <2>3
<1>7. k * (p - q) <= 2 * z + p + q
  <2>1. k * (p - q) = ((k - 1) * p - (k + 1) * q) + p + q
    OBVIOUS
  <2> QED BY <1>6, <2>1
<1>8. x * (y + f) + y * (x + e) = 2 * z + p + q
  BY <1>3
<1> QED BY <1>3, <1>7, <1>8

\* The common factors go.
LEMMA CrossScaled ==
  ASSUME NEW k \in Nat \ {0}, NEW a \in Nat \ {0}, NEW b \in Nat \ {0},
         NEW v \in Nat, NEW g \in Nat, NEW w \in Nat, NEW h \in Nat,
         k * (b * g - a * v) <= b * g, k * (a * w - b * h) <= b * h
  PROVE  k * (g * w - h * v) <= g * w + h * v
<1>1. PICK x \in Nat, y \in Nat : x = b * g /\ y = b * h
  OBVIOUS
<1>2. PICK e \in Int, f \in Int : e = a * v - x /\ f = a * w - y
  OBVIOUS
<1>3. k * f <= y /\ -(k * e) <= x
  <2>1. -(k * e) = k * (x - a * v)
    BY <1>2
  <2> QED BY <1>1, <1>2, <2>1
<1>4. k * (x * f - y * e) <= x * (y + f) + y * (x + e)
  BY <1>3, Cross
<1>5. PICK c \in Nat \ {0} : c = a * b
  OBVIOUS
<1>6. x * f - y * e = c * (g * w - h * v)
  <2>1. x * f - y * e = x * (a * w) - y * (a * v)
    <3>1. x * (a * w - y) - y * (a * v - x) = x * (a * w) - y * (a * v)
      OBVIOUS
    <3> QED BY <1>2, <3>1
  <2>2. (b * g) * (a * w) - (b * h) * (a * v) = (a * b) * (g * w - h * v)
    OBVIOUS
  <2> QED BY <1>1, <1>5, <2>1, <2>2
<1>7. x * (y + f) + y * (x + e) = c * (g * w + h * v)
  <2>1. y + f = a * w /\ x + e = a * v
    BY <1>2
  <2>2. (b * g) * (a * w) + (b * h) * (a * v) = (a * b) * (g * w + h * v)
    OBVIOUS
  <2> QED BY <1>1, <1>5, <2>1, <2>2
<1>8. PICK p \in Int, q \in Int : p = k * (g * w - h * v) /\ q = g * w + h * v
  OBVIOUS
<1>9. c * p <= c * q
  <2>1. k * (c * (g * w - h * v)) = c * (k * (g * w - h * v))
    OBVIOUS
  <2> QED BY <1>4, <1>6, <1>7, <1>8, <2>1
<1>10. p <= q
  BY <1>9
<1> QED BY <1>8, <1>10

\* What a triangle that was built is made of.
Built(t) == BuildWarp(t.tri, t.prim, t.offset)
Slid(t) == Rebase(t.tri).n
LEMMA WarpBuiltIs ==
  ASSUME NEW t, IsAsk(t), Built(t) # <<>>
  PROVE  /\ Slid(t) \in Int
         /\ Built(t) = [i \in 1..3 |-> BuildVertex(t.tri[i], t.prim.opcode = OpTex, t.offset, Slid(t))]
         /\ \A i \in 1..3 :
              /\ VertexOK(Built(t)[i]) /\ WeightOf(t.tri, i) \in Nat \ {0}
              /\ Built(t)[i].rhw = F32Of(WeightOf(t.tri, i) * Up(Slid(t)), Up(-Slid(t)))
<1> DEFINE tri == t.tri
           slide == Rebase(tri).n
           made == [i \in 1..3 |-> BuildVertex(tri[i], t.prim.opcode = OpTex, t.offset, slide)]
<1>1. slide \in Int
  BY RebaseTyped
<1>2. Built(t) = made /\ \A i \in 1..3 : tri[i].qw > 0 /\ tri[i].tq > 0 /\ VertexOK(made[i])
  BY DEF Built, BuildWarp
<1>3. ASSUME NEW i \in 1..3 PROVE WeightOf(tri, i) \in Nat \ {0}
  <2>1. tri[i].qw \in Int /\ tri[i].tq \in Int /\ tri[i].qw > 0 /\ tri[i].tq > 0
    BY <1>2 DEF IsAsk
  <2>2. PICK g \in Nat \ {0}, h \in Nat \ {0} : g = tri[i].qw /\ h = tri[i].tq
    <3> HIDE DEF tri
    <3> QED BY <2>1
  <2>3. g * h \in Nat \ {0}
    OBVIOUS
  <2> QED BY <2>2, <2>3 DEF WeightOf
<1>4. ASSUME NEW i \in 1..3 PROVE made[i].rhw = F32Of(WeightOf(tri, i) * Up(slide), Up(-slide))
  <2>1. made[i].rhw = F32Of(Ldexp(WeightOf(tri, i), slide).n, Ldexp(WeightOf(tri, i), slide).d)
    BY DEF BuildVertex, WeightOf
  <2>2. WeightOf(tri, i) \in Int
    BY <1>3
  <2> HIDE DEF made, tri, slide
  <2> QED BY <1>1, <2>1, <2>2, LdexpIs
<1>5. \A i \in 1..3 : /\ VertexOK(made[i]) /\ WeightOf(tri, i) \in Nat \ {0}
                      /\ made[i].rhw = F32Of(WeightOf(tri, i) * Up(slide), Up(-slide))
  BY <1>2, <1>3, <1>4
<1>6. Slid(t) = slide
  BY DEF Slid
<1>7. made = [i \in 1..3 |-> BuildVertex(tri[i], t.prim.opcode = OpTex, t.offset, slide)]
  OBVIOUS
<1> HIDE DEF made, slide
<1> QED BY <1>1, <1>2, <1>5, <1>6, <1>7

\* A positive normal float is in full precision.
LEMMA NormalIs ==
  ASSUME NEW r \in 0..Infinity, F32PosNormal(r)
  PROVE  r \in Mantissas..(Infinity - 1) /\ Value(r) = Size(r)
<1>1. PICK n \in Nat, e \in Nat : n = Mantissas /\ n >= 2 /\ e = Exponents /\ e >= 4 /\ Infinity = (e - 1) * n
                                  /\ Infinity \in Nat
  BY FloatShape
<1>2. F32Exp(r) = Lead(r) /\ Value(r) = Size(r)
  BY PositiveIs
<1>3. Lead(r) \notin {0, e - 1}
  BY <1>1, <1>2 DEF F32PosNormal, Exponents
<1>4. r \in Nat
  BY <1>1
<1>5. r >= Mantissas
  <2>1. r < Mantissas => Lead(r) = 0
    BY <1>4, SizeTyped
  <2> QED BY <1>1, <1>3, <1>4, <2>1
<1>6. r # Infinity
  <2>1. e - 1 \in Nat /\ 0 \in 0..(Mantissas - 1)
    BY <1>1
  <2>2. Lead((e - 1) * Mantissas + 0) = e - 1
    BY ONLY <2>1, LeadAndManUnique
  <2>3. (e - 1) * Mantissas + 0 = Infinity
    BY <1>1
  <2> QED BY <1>3, <2>2, <2>3
<1> QED BY <1>1, <1>2, <1>4, <1>5, <1>6

\* A built weight is the nearest float.
LEMMA BuiltWeight ==
  ASSUME NEW t, IsAsk(t), Built(t) # <<>>, NEW i \in 1..3
  PROVE  /\ WeightOf(t.tri, i) \in Nat \ {0}
         /\ Value(Built(t)[i].rhw) = Size(Built(t)[i].rhw) /\ Value(Built(t)[i].rhw) \in Nat
         /\ Up(Slid(t)) \in Nat \ {0} /\ Up(-Slid(t)) \in Nat \ {0}
         /\ RoundedTo(Up(Slid(t)) * WeightOf(t.tri, i), Up(-Slid(t)), Built(t)[i].rhw)
<1> DEFINE slide == Slid(t)
           r == Built(t)[i].rhw
           w == WeightOf(t.tri, i)
<1>1. slide \in Int /\ -slide \in Int /\ w \in Nat \ {0} /\ r = F32Of(w * Up(slide), Up(-slide))
  BY WarpBuiltIs
<1>2. F32PosNormal(r)
  BY WarpBuiltIs DEF VertexOK
<1> HIDE DEF slide, r, w
<1>3. Up(slide) \in Nat \ {0} /\ Up(-slide) \in Nat \ {0}
  BY <1>1, UpIs
<1>4. PICK n \in Nat, d \in Nat \ {0} : n = w * Up(slide) /\ d = Up(-slide) /\ n = Up(slide) * w
  <2>1. PICK a \in Nat, b \in Nat : a = w /\ b = Up(slide)
    BY <1>1, <1>3
  <2>2. a * b \in Nat /\ a * b = b * a
    OBVIOUS
  <2> QED BY <1>3, <2>1, <2>2
<1>5. PICK x \in 0..Infinity : x = Nearest(n, d)
  <2>1. \E b \in 0..Infinity : IsNearest(n, d, b, Nearest(n, d))
    BY NearestIs
  <2> QED BY <2>1 DEF IsNearest
<1>6. r = x
  <2>1. F32Of(n, d) = Nearest(n, d) + 0
    BY PositiveFloat
  <2>2. Infinity \in Nat
    BY FloatShape
  <2> QED BY <1>1, <1>4, <1>5, <2>1, <2>2
<1>7. r \in Mantissas..(Infinity - 1) /\ Value(r) = Size(r)
  BY <1>2, <1>5, <1>6, NormalIs
<1>8. r = Nearest(n, d)
  BY <1>5, <1>6
<1>9. RoundedTo(n, d, r)
  BY <1>7, <1>8, NearestErr
<1>10. Size(r) \in Nat
  <2>1. r \in Nat
    BY <1>7, FloatShape
  <2> QED BY <2>1, SizeTyped
<1>11. /\ w \in Nat \ {0} /\ Value(r) = Size(r) /\ Value(r) \in Nat
       /\ Up(slide) \in Nat \ {0} /\ Up(-slide) \in Nat \ {0} /\ RoundedTo(Up(slide) * w, Up(-slide), r)
  BY <1>1, <1>3, <1>4, <1>7, <1>9, <1>10
<1> QED BY <1>11 DEF slide, r, w

\* What is built stands in the ratio the weights do, to the last bit.
LEMMA TakenWeights ==
  ASSUME NEW t, IsAsk(t), Built(t) # <<>>, NEW i \in 1..3, NEW j \in 1..3
  PROVE  LET p == Value(Built(t)[i].rhw) * WeightOf(t.tri, j)
             q == Value(Built(t)[j].rhw) * WeightOf(t.tri, i)
         IN  2^(ManBits + 1) * Abs(p - q) <= p + q
<1> DEFINE built == Built(t)
           slide == Slid(t)
<1>1. PICK a \in Nat \ {0}, b \in Nat \ {0} : a = Up(slide) /\ b = Up(-slide)
  BY BuiltWeight
<1>2. PICK k \in Nat \ {0} : k = 2^(ManBits + 1) /\ k = 2 * Mantissas
  BY FloatShape
<1>3. PICK v \in Nat, g \in Nat : v = WeightOf(t.tri, i) /\ g = Value(built[i].rhw) /\ g = Size(built[i].rhw)
  BY BuiltWeight
<1>4. PICK w \in Nat, h \in Nat : w = WeightOf(t.tri, j) /\ h = Value(built[j].rhw) /\ h = Size(built[j].rhw)
  BY BuiltWeight
<1>5. RoundedTo(a * v, b, built[i].rhw) /\ RoundedTo(a * w, b, built[j].rhw)
  BY <1>1, <1>3, <1>4, BuiltWeight
<1> HIDE DEF built, slide
<1>6. /\ k * (b * g - a * v) <= b * g /\ k * (a * v - b * g) <= b * g
      /\ k * (b * h - a * w) <= b * h /\ k * (a * w - b * h) <= b * h
  BY <1>2, <1>3, <1>4, <1>5 DEF RoundedTo
<1>7. k * (g * w - h * v) <= g * w + h * v
  BY ONLY <1>6, CrossScaled, k \in Nat \ {0}, a \in Nat \ {0}, b \in Nat \ {0}, v \in Nat, g \in Nat, w \in Nat, h \in Nat
<1>8. k * (h * v - g * w) <= h * v + g * w
  BY ONLY <1>6, CrossScaled, k \in Nat \ {0}, a \in Nat \ {0}, b \in Nat \ {0}, v \in Nat, g \in Nat, w \in Nat, h \in Nat
<1>9. k * Abs(g * w - h * v) <= g * w + h * v
  <2>1. PICK p \in Nat, q \in Nat : p = g * w /\ q = h * v
    OBVIOUS
  <2>2. Abs(p - q) \in {p - q, q - p}
    BY DEF Abs
  <2>3. k * (p - q) <= p + q /\ k * (q - p) <= q + p
    BY <1>7, <1>8, <2>1
  <2>4. p + q = q + p
    OBVIOUS
  <2> QED BY <2>1, <2>2, <2>3, <2>4
<1> QED BY <1>2, <1>3, <1>4, <1>9 DEF built
-----------------------------------------------------------------------------
(* Runs of vertices, one after the other.                                    *)

\* n runs that begin where the one before ended, the last one ending with the vertices.
RunsInOrder(runs, n, total) ==
  /\ n \in Nat \ {0}
  /\ \A r \in 1..n : runs[r].first \in Nat /\ runs[r].count \in Nat \ {0}
  /\ runs[1].first = 0
  /\ \A r \in 1..n : r + 1 \in 1..n => runs[r + 1].first = runs[r].first + runs[r].count
  /\ runs[n].first + runs[n].count = total
EndOf(runs, r) == runs[r].first + runs[r].count
WithinRun(runs, r, i) == i \in runs[r].first..(EndOf(runs, r) - 1)

\* A later run begins no earlier than an earlier one ends.
LEMMA LaterRuns ==
  ASSUME NEW runs, NEW n, NEW total, RunsInOrder(runs, n, total), NEW r \in 1..n, NEW s \in 1..n, r < s
  PROVE  EndOf(runs, r) <= runs[s].first
<1>1. n \in Nat /\ r \in Nat /\ s \in Nat
  BY DEF RunsInOrder
<1> DEFINE Bad(k) == k \in r + 1..n /\ ~(EndOf(runs, r) <= runs[k].first)
           S == {k \in Nat : Bad(k)}
<1>2. SUFFICES S = {}
  BY <1>1
<1>3. SUFFICES ASSUME S # {} PROVE FALSE
  OBVIOUS
<1>4. PICK k \in S : \A m \in S : k <= m
  <2>1. S \in SUBSET Nat
    OBVIOUS
  <2> HIDE DEF S
  <2> QED BY <1>3, <2>1, SomeLeast
<1>5. k \in Nat /\ k \in 1..n /\ k - 1 \in 1..n /\ k - 1 \in Nat /\ k - 1 >= r /\ Bad(k)
  BY <1>1
<1>6. runs[k].first = EndOf(runs, k - 1)
  <2>1. (k - 1) + 1 = k
    BY <1>5
  <2> QED BY <1>5, <2>1 DEF RunsInOrder, EndOf
<1>7. CASE k - 1 = r
  <2>1. EndOf(runs, r) \in Nat
    BY DEF RunsInOrder, EndOf
  <2> QED BY <1>5, <1>6, <1>7, <2>1
<1>8. CASE k - 1 > r
  <2>1. ~Bad(k - 1)
    <3>1. k - 1 \notin S
      BY <1>4, <1>5
    <3> QED BY <1>5, <3>1
  <2>2. k - 1 \in r + 1..n
    BY <1>1, <1>5, <1>8
  <2>3. EndOf(runs, r) <= runs[k - 1].first
    BY <2>1, <2>2
  <2>4. /\ runs[k - 1].first \in Nat /\ runs[k - 1].count \in Nat /\ runs[k].first \in Nat
        /\ EndOf(runs, r) \in Nat /\ EndOf(runs, k - 1) = runs[k - 1].first + runs[k - 1].count
    BY <1>5 DEF RunsInOrder, EndOf
  <2>5. EndOf(runs, r) <= runs[k].first
    BY <1>6, <2>3, <2>4
  <2> QED BY <1>5, <2>5
<1> QED BY <1>1, <1>5, <1>7, <1>8

\* A vertex is in a run,
LEMMA SomeRun ==
  ASSUME NEW runs, NEW n, NEW total, RunsInOrder(runs, n, total), NEW i \in 0..(total - 1)
  PROVE  \E r \in 1..n : WithinRun(runs, r, i)
<1>1. n \in Nat /\ n >= 1 /\ total \in Nat /\ i \in Nat /\ i < total
  <2>1. n \in Nat \ {0} /\ n \in 1..n
    BY DEF RunsInOrder
  <2>2. total \in Nat
    BY <2>1 DEF RunsInOrder
  <2> QED BY <2>1, <2>2
<1> DEFINE S == {k \in Nat : k \in 1..n /\ i < EndOf(runs, k)}
<1>2. n \in S
  BY <1>1 DEF RunsInOrder, EndOf
<1>3. PICK k \in S : \A m \in S : k <= m
  <2>1. S \in SUBSET Nat /\ S # {}
    BY <1>2
  <2> HIDE DEF S
  <2> QED BY <2>1, SomeLeast
<1>4. k \in 1..n /\ i < EndOf(runs, k) /\ runs[k].first \in Nat /\ EndOf(runs, k) \in Nat
  BY DEF RunsInOrder, EndOf
<1>5. runs[k].first <= i
  <2>1. CASE k = 1
    BY <1>1, <2>1 DEF RunsInOrder
  <2>2. CASE k # 1
    <3>1. k - 1 \in 1..n /\ k - 1 \in Nat /\ (k - 1) + 1 = k
      BY <1>1, <1>4, <2>2
    <3>2. runs[k].first = EndOf(runs, k - 1)
      BY <1>4, <3>1 DEF RunsInOrder, EndOf
    <3>3. k - 1 \notin S
      BY <1>3, <3>1
    <3>4. ~(i < EndOf(runs, k - 1))
      BY <3>1, <3>3
    <3> QED BY <1>1, <1>4, <3>2, <3>4
  <2> QED BY <2>1, <2>2
<1>6. i \in runs[k].first..(EndOf(runs, k) - 1)
  BY <1>1, <1>4, <1>5
<1> QED BY <1>4, <1>6 DEF WithinRun

\* and in no other.
LEMMA OneRun ==
  ASSUME NEW runs, NEW n, NEW total, RunsInOrder(runs, n, total), NEW i \in 0..(total - 1)
  PROVE  Cardinality({r \in 1..n : WithinRun(runs, r, i)}) = 1
<1>1. PICK r \in 1..n : WithinRun(runs, r, i)
  BY SomeRun
<1>2. ASSUME NEW s \in 1..n, NEW t \in 1..n, s < t, WithinRun(runs, s, i), WithinRun(runs, t, i) PROVE FALSE
  <2>1. EndOf(runs, s) <= runs[t].first
    BY <1>2, LaterRuns
  <2>2. EndOf(runs, s) \in Nat /\ runs[t].first \in Nat
    BY DEF RunsInOrder, EndOf
  <2>3. i < EndOf(runs, s) /\ runs[t].first <= i /\ i \in Int
    BY <1>2, <2>2 DEF WithinRun
  <2> QED BY <2>1, <2>2, <2>3
<1>3. \A s \in 1..n : WithinRun(runs, s, i) => s = r
  <2>1. n \in Nat
    BY DEF RunsInOrder
  <2> QED BY <1>1, <1>2, <2>1
<1>4. {s \in 1..n : WithinRun(runs, s, i)} = {r}
  BY <1>1, <1>3
<1> QED BY <1>4, FS_Singleton
-----------------------------------------------------------------------------
(* The WARP tier: the clip box and the levels of a texture.                  *)

\* What Reach promises of a level of w texels a row and h rows.
LEMMA LevelReached ==
  ASSUME NEW org, NEW w \in Nat \ {0}, NEW h \in Nat \ {0}, NEW rows \in Nat, rows >= h,
         4 * w <= WordMax, Reach(org, rows, Word(4 * w), Window)
  PROVE  LevelInside(org, w, h)
<1>1. Word(4 * w) = 4 * w
  BY WordStands, WordAssumption
<1>2. Window.start \in Int /\ Window.end \in Int
  BY WindowAssumption, WordAssumption
<1>3. org \in Window.start..(Window.end - 1) /\ rows * (4 * w) <= Window.end - org
  BY <1>1 DEF Reach
<1>4. org \in Int /\ org >= Window.start
  BY <1>2, <1>3
<1>5. h * (4 * w) <= rows * (4 * w) /\ w * 4 * h = h * (4 * w) /\ rows * (4 * w) \in Int
  BY SMTT(30)
<1>6. h * (4 * w) \in Int /\ h * (4 * w) >= 1
  BY SMTT(30)
<1> QED BY <1>2, <1>3, <1>4, <1>5, <1>6 DEF LevelInside

\* A texture that is accepted has its first level in the window.
LEMMA TextureAccepted ==
  ASSUME NEW st, NEW mips \in Nat, TextureState(st, mips, Window) = "OK"
  PROVE  /\ st.texW \in 1..MaxDim /\ st.texH \in 1..MaxDim
         /\ LevelInside(st.texorg, st.texPitch, st.texH)
<1> DEFINE rows == IF st.minmode # 0 /\ mips = 0 THEN Word(2 * st.texH) ELSE st.texH
           biased == ~st.tw32 \/ st.biasU > Len(Ladder) \/ st.biasV > Len(Ladder)
           known == st.minmode \notin MinModes \cup {0}
           tests == <<
             <<st.texW \notin 1..MaxDim \/ st.texH \notin 1..MaxDim
                 \/ st.texPitch \notin st.texW..MaxPitch, "TEXSIZE">>,
             <<biased, "TEXSIZE">>,
             <<known, "TEXSIZE">>,
             <<~Aligned(st.texorg, "tex"), "TEXORGAL">>,
             <<~Reach(st.texorg, rows, Word(4 * st.texPitch), Window), "TEXORG">> >>
<1>1. FirstRefusal(tests) = "OK"
  BY DEF TextureState
<1> HIDE DEF rows, biased, known
<1>2. DOMAIN tests = 1..5 /\ \A i \in 1..5 : tests[i][2] # "OK"
  OBVIOUS
<1>3. ~tests[1][1] /\ ~tests[5][1]
  <2> HIDE DEF tests
  <2>1. \A i \in 1..5 : ~tests[i][1]
    BY <1>1, <1>2, NoRefusal
  <2> QED BY <2>1
<1>4. /\ st.texW \in 1..MaxDim /\ st.texH \in 1..MaxDim /\ st.texPitch \in st.texW..MaxPitch
      /\ Reach(st.texorg, rows, Word(4 * st.texPitch), Window)
  BY <1>3
<1>5. /\ st.texPitch \in Nat \ {0} /\ 4 * st.texPitch <= WordMax
      /\ st.texH \in Nat \ {0} /\ 2 * st.texH \in 0..WordMax
  BY <1>4, TexAssumption, WordAssumption
<1>6. rows \in Nat /\ rows >= st.texH
  BY <1>5, WordStands DEF rows
<1> QED BY <1>4, <1>5, <1>6, LevelReached

\* A box that is not empty lies in the surface.
BoxHolds(st, box) ==
  /\ \A x \in {box.x[1], box.x[2] - 1} : x \in Int /\ x >= 0 /\ x < st.dstWidth
  /\ \A y \in {box.y[1], box.y[2] - 1} : y \in Int /\ y >= 0 /\ y < st.dstHeight

\* A scissor clipped to the surface starts and ends on it.
LEMMA AxisHolds ==
  ASSUME NEW lo \in Int, NEW size \in Nat, NEW dst \in Nat, ClipAxis(lo, size, dst) # <<>>
  PROVE  \A x \in {ClipAxis(lo, size, dst)[1], ClipAxis(lo, size, dst)[2] - 1} :
           x \in Int /\ x >= 0 /\ x < dst
<1>1. size # 0 /\ dst # 0 /\ lo < dst
  BY DEF ClipAxis
<1>2. CASE lo < 0
  <2>1. ~(size <= -lo)
    BY <1>1, <1>2 DEF ClipAxis
  <2>2. ClipAxis(lo, size, dst) = <<0, Min({size + lo, dst})>>
    BY <1>1, <1>2, <2>1 DEF ClipAxis
  <2>3. Min({size + lo, dst}) \in {size + lo, dst}
    <3>1. {size + lo, dst} \in SUBSET Nat
      BY <2>1, <1>2
    <3> QED BY <3>1, LeastNatural
  <2>4. Min({size + lo, dst}) <= dst
    <3>1. \E m \in {size + lo, dst} : \A n \in {size + lo, dst} : m <= n
      BY <2>1
    <3> QED BY <3>1 DEF Min
  <2> DEFINE m == Min({size + lo, dst})
  <2> HIDE DEF m
  <2>5. m \in Int /\ m > 0 /\ m <= dst
    BY <1>1, <2>1, <2>3, <2>4 DEF m
  <2>6. ClipAxis(lo, size, dst)[1] = 0 /\ ClipAxis(lo, size, dst)[2] = m
    BY <2>2 DEF m
  <2> QED BY <1>1, <2>5, <2>6
<1>3. CASE lo >= 0
  <2>1. ClipAxis(lo, size, dst) = <<lo, IF size >= dst - lo THEN dst ELSE lo + size>>
    BY <1>1, <1>3 DEF ClipAxis
  <2> QED BY <1>1, <1>3, <2>1
<1> QED BY <1>2, <1>3

\* So does the clip box of both axes.
LEMMA ClipBoxHolds ==
  ASSUME NEW st, IsState(st), st.dstWidth # 0, st.dstHeight # 0, ~ClipEmpty(ClipBox(st))
  PROVE  BoxHolds(st, ClipBox(st))
<1>1. /\ st.dstWidth \in Nat \ {0} /\ st.dstHeight \in Nat \ {0}
      /\ st.scissorX \in Int /\ st.scissorY \in Int /\ st.scissorW \in Nat /\ st.scissorH \in Nat
  BY WordAssumption DEF IsState
<1>2. CASE ~st.scissorOn
  <2>1. ClipBox(st).x = <<0, st.dstWidth>> /\ ClipBox(st).y = <<0, st.dstHeight>>
    BY <1>2 DEF ClipBox
  <2> QED BY <1>1, <2>1 DEF BoxHolds
<1>3. CASE st.scissorOn
  <2> DEFINE X == ClipAxis(st.scissorX, st.scissorW, st.dstWidth)
             Y == ClipAxis(st.scissorY, st.scissorH, st.dstHeight)
  <2>1. ClipBox(st).x = X /\ ClipBox(st).y = Y
    BY <1>3 DEF ClipBox
  <2>2. X # <<>> /\ Y # <<>>
    <3> HIDE DEF X, Y
    <3> QED BY <2>1 DEF ClipEmpty
  <2>3. \A x \in {X[1], X[2] - 1} : x \in Int /\ x >= 0 /\ x < st.dstWidth
    BY <1>1, <2>2, AxisHolds
  <2>4. \A y \in {Y[1], Y[2] - 1} : y \in Int /\ y >= 0 /\ y < st.dstHeight
    BY <1>1, <2>2, AxisHolds
  <2> HIDE DEF X, Y
  <2> QED BY <2>1, <2>3, <2>4 DEF BoxHolds
<1> QED BY <1>2, <1>3

\* An accepted WARP batch: its destination, its surface, and every level of its
\* texture when a run is textured.
IsWarp(b) == IsState(b.state) /\ b.mips \in Nat /\ b.runs \in Seq(Range(b.runs))
WarpDeep(b) == \E r \in DOMAIN b.runs : AddressesDepth(b.runs[r].prim)
WarpTextured(b) == \E r \in DOMAIN b.runs : b.runs[r].prim.opcode = OpTex
WarpHolds(b) ==
  /\ b.state.dstWidth # 0 /\ b.state.dstHeight # 0
  /\ SurfaceHolds(b.state, WarpDeep(b))
  /\ WarpTextured(b) =>
       /\ LevelInside(b.state.texorg, b.state.texPitch, b.state.texH)
       /\ \A l \in 1..b.mips :
            LevelInside(b.mipOrg[l], b.state.texW \div 2^l, b.state.texH \div 2^l)

\* The state's checks do not depend on the number of levels but for the texture.
LEMMA WarpSurface ==
  ASSUME NEW st, IsState(st), NEW mips, NEW deep \in BOOLEAN, NEW textured \in BOOLEAN,
         StateCommon(st, mips, Limits(st, Window), deep, textured) = "OK"
  PROVE  /\ StateCommon(st, 0, Limits(st, Window), deep, FALSE) = "OK"
         /\ textured => TextureState(st, mips, Window) = "OK"
<1> DEFINE lim == Limits(st, Window)
           rows == Word(lim.clipY1 + 1)
           tex(n) == TextureState(st, n, lim.tex)
           tests(n, textures) == <<
             <<st.dstPitch = 0 \/ st.dstWidth > st.dstPitch
                 \/ lim.pitchBytes \div 4 # st.dstPitch, "DSTPITCH">>,
             <<~Aligned(st.dstPitch, "pitch"), "DSTPITCH">>,
             <<~Aligned(st.dstorg, "dst"), "DSTORGAL">>,
             <<~Reach(st.dstorg, rows, lim.pitchBytes, lim.colour), "DSTORG">>,
             <<deep /\ ~Aligned(st.zorg, "z"), "ZORGAL">>,
             <<deep /\ ~Reach(st.zorg, rows, (lim.pitchBytes \div 4) * 2, lim.depth), "ZORG">>,
             <<textures /\ tex(n) # "OK", tex(n)>> >>
<1>1. /\ FirstRefusal(tests(mips, textured)) = "OK"
      /\ StateCommon(st, 0, lim, deep, FALSE) = FirstRefusal(tests(0, FALSE))
  BY DEF StateCommon
<1>2. \A i \in 1..7 : ~tests(mips, textured)[i][1]
  <2>1. DOMAIN tests(mips, textured) = 1..7
    OBVIOUS
  <2>2. tests(mips, textured)[7][1] => tests(mips, textured)[7][2] # "OK"
    <3> HIDE DEF lim, rows, tex
    <3> QED OBVIOUS
  <2>3. \A i \in 1..6 : tests(mips, textured)[i][2] # "OK"
    <3> HIDE DEF lim, rows, tex
    <3> QED OBVIOUS
  <2> HIDE DEF tests
  <2>4. \A i \in 1..7 : tests(mips, textured)[i][1] => tests(mips, textured)[i][2] # "OK"
    BY <2>2, <2>3
  <2> QED BY <1>1, <2>1, <2>4, NoRefusal
<1>3. \A i \in 1..7 : ~tests(0, FALSE)[i][1]
  <2> HIDE DEF lim, rows, tex
  <2>1. \A i \in 1..6 : tests(0, FALSE)[i] = tests(mips, textured)[i]
    OBVIOUS
  <2>2. ~tests(0, FALSE)[7][1]
    OBVIOUS
  <2> HIDE DEF tests
  <2>3. \A i \in 1..6 : ~tests(0, FALSE)[i][1]
    <3>1. TAKE i \in 1..6
    <3>2. i \in 1..7
      OBVIOUS
    <3> QED BY <1>2, <2>1, <3>2
  <2>4. \A i \in 1..7 : i \in 1..6 \/ i = 7
    OBVIOUS
  <2> QED BY <2>2, <2>3, <2>4
<1>4. FirstRefusal(tests(0, FALSE)) = "OK"
  <2>1. DOMAIN tests(0, FALSE) = 1..7
    OBVIOUS
  <2> HIDE DEF tests
  <2>2. {i \in DOMAIN tests(0, FALSE) : tests(0, FALSE)[i][1]} = {}
    BY <1>3, <2>1
  <2> QED BY <2>2 DEF FirstRefusal
<1>5. textured => tex(mips) = "OK"
  <2>1. ~tests(mips, textured)[7][1]
    BY <1>2
  <2> HIDE DEF lim, rows, tex
  <2> QED BY <2>1
<1>6. lim.tex = Window
  BY DEF Limits
<1> QED BY <1>1, <1>4, <1>5, <1>6

\* A level that is not refused lies in the window.
LEMMA LevelAccepted ==
  ASSUME NEW b, IsWarp(b), b.state.texW \in 1..MaxDim, b.state.texH \in 1..MaxDim,
         NEW l \in 1..4, LevelVerdict(b, l, Limits(b.state, Window)) = "OK"
  PROVE  LevelInside(b.mipOrg[l], b.state.texW \div 2^l, b.state.texH \div 2^l)
<1> DEFINE w == b.state.texW \div 2^l
           h == b.state.texH \div 2^l
           lim == Limits(b.state, Window)
           tests == <<
             <<w < 8 \/ h < 8, "WARPPOLICY">>,
             <<~Aligned(b.mipOrg[l], "tex"), "TEXORGAL">>,
             <<~Reach(b.mipOrg[l], h, Word(4 * w), lim.tex), "TEXORG">> >>
<1>1. FirstRefusal(tests) = "OK"
  BY DEF LevelVerdict
<1>2. lim.tex = Window
  BY DEF Limits
<1>3. 2^l \in Nat \ {0}
  <2>1. l = 1 \/ l = 2 \/ l = 3 \/ l = 4
    OBVIOUS
  <2>2. {2^1, 2^2, 2^3, 2^4} \subseteq Nat \ {0}
    OBVIOUS
  <2> QED BY <2>1, <2>2
<1>4. w \in Int /\ h \in Int /\ w <= b.state.texW
  <2> DEFINE p == 2^l
  <2>1. p \in Nat \ {0}
    BY <1>3
  <2> HIDE DEF p
  <2>2. \A n \in Nat : n \div p \in Int /\ n \div p <= n
    BY <2>1
  <2>3. b.state.texW \in Nat /\ b.state.texH \in Nat
    BY TexAssumption
  <2> QED BY <2>2, <2>3 DEF p
<1> HIDE DEF w, h, lim
<1>5. DOMAIN tests = 1..3 /\ \A i \in 1..3 : tests[i][2] # "OK"
  OBVIOUS
<1>6. ~tests[1][1] /\ ~tests[3][1]
  <2> HIDE DEF tests
  <2>1. \A i \in 1..3 : ~tests[i][1]
    BY <1>1, <1>5, NoRefusal
  <2> QED BY <2>1
<1>7. ~(w < 8 \/ h < 8) /\ Reach(b.mipOrg[l], h, Word(4 * w), Window)
  BY <1>2, <1>6
<1>8. w \in Nat \ {0} /\ h \in Nat \ {0} /\ 4 * w <= WordMax
  BY <1>4, <1>7, TexAssumption, WordAssumption
<1>9. LevelInside(b.mipOrg[l], w, h)
  BY <1>7, <1>8, LevelReached
<1> QED BY <1>9 DEF w, h

\* Everything a WARP batch is asked, when it is accepted.
WarpParts(b, lim) ==
  /\ Len(b.runs) \in 1..MaxRuns /\ b.vtxCount \in 1..MaxVertices /\ b.vtxCount % 3 = 0
  /\ \A r \in DOMAIN b.runs : RunVerdict(b, r) = "OK"
  /\ b.mips <= 4 /\ \A l \in 1..b.mips : LevelVerdict(b, l, lim) = "OK"
  /\ EndOf(b.runs, Len(b.runs)) = b.vtxCount
  /\ StateCommon(b.state, b.mips, lim, WarpDeep(b), WarpTextured(b)) = "OK"
  /\ \A i \in DOMAIN b.vtx : VertexOK(b.vtx[i])
LEMMA WarpVerdict ==
  ASSUME NEW b, IsWarp(b), NEW lim
  PROVE  ValidateWarp(b, lim) = "OK" <=> WarpParts(b, lim)
<1> DEFINE deep == WarpDeep(b)
           textured == WarpTextured(b)
           badRuns == {r \in DOMAIN b.runs : RunVerdict(b, r) # "OK"}
           badLevels == {l \in 1..b.mips : LevelVerdict(b, l, lim) # "OK"}
           last == b.runs[Len(b.runs)]
           short == last.first + last.count # b.vtxCount
           common == StateCommon(b.state, b.mips, lim, deep, textured)
           few == \/ Len(b.runs) \notin 1..MaxRuns \/ b.vtxCount \notin 1..MaxVertices
                  \/ b.vtxCount % 3 # 0
           floats == \E i \in DOMAIN b.vtx : ~VertexOK(b.vtx[i])
           runs == RunVerdict(b, Min(badRuns))
           levels == LevelVerdict(b, Min(badLevels), lim)
<1>1. ValidateWarp(b, lim) =
        IF few THEN "VTXCOUNT"
        ELSE IF badRuns # {} THEN runs
        ELSE IF b.mips > 4 THEN "WARPPOLICY"
        ELSE IF badLevels # {} THEN levels
        ELSE IF short THEN "VTXCOUNT"
        ELSE IF common # "OK" THEN common
        ELSE IF floats THEN "VTXFLOAT" ELSE "OK"
  BY Zenon DEF ValidateWarp, WarpDeep, WarpTextured
<1>2. badRuns # {} => runs # "OK"
  <2>1. badRuns \in SUBSET Nat
    <3>1. badRuns \subseteq DOMAIN b.runs
      OBVIOUS
    <3> QED BY <3>1 DEF IsWarp
  <2>2. ASSUME badRuns # {} PROVE Min(badRuns) \in badRuns
    <3> HIDE DEF badRuns
    <3> QED BY <2>1, <2>2, LeastNatural
  <2> QED BY <2>2
<1>3. badLevels # {} => levels # "OK"
  <2>1. badLevels \in SUBSET Nat
    BY DEF IsWarp
  <2>2. ASSUME badLevels # {} PROVE Min(badLevels) \in badLevels
    <3> HIDE DEF badLevels
    <3> QED BY <2>1, <2>2, LeastNatural
  <2> QED BY <2>2
<1> HIDE DEF runs, levels
<1>4. WarpParts(b, lim) <=>
        ~few /\ badRuns = {} /\ ~(b.mips > 4) /\ badLevels = {} /\ ~short /\ common = "OK" /\ ~floats
  <2>1. b.mips <= 4 <=> ~(b.mips > 4)
    BY DEF IsWarp
  <2>2. badRuns = {} <=> \A r \in DOMAIN b.runs : RunVerdict(b, r) = "OK"
    OBVIOUS
  <2>3. badLevels = {} <=> \A l \in 1..b.mips : LevelVerdict(b, l, lim) = "OK"
    OBVIOUS
  <2> HIDE DEF badRuns, badLevels
  <2> QED BY <2>1, <2>2, <2>3, Zenon DEF WarpParts, EndOf
<1> HIDE DEF badRuns, badLevels, few, short, common, floats
<1> QED BY <1>1, <1>2, <1>3, <1>4

\* and everything a run is.
LEMMA RunIs ==
  ASSUME NEW b, NEW r
  PROVE  RunVerdict(b, r) = "OK" <=>
           /\ RunFollows(b, r) /\ PrimState(b.runs[r].prim) = "OK"
           /\ WarpAdmits(b.state, b.runs[r], b.mips)
<1> DEFINE tests == << <<~RunFollows(b, r), "VTXCOUNT">>,
                       <<PrimState(b.runs[r].prim) # "OK", PrimState(b.runs[r].prim)>>,
                       <<~WarpAdmits(b.state, b.runs[r], b.mips), "WARPPOLICY">> >>
<1>1. RunVerdict(b, r) = FirstRefusal(tests)
  BY DEF RunVerdict
<1>2. DOMAIN tests = 1..3 /\ \A i \in 1..3 : tests[i][1] => tests[i][2] # "OK"
  <2>1. DOMAIN tests = 1..3
    OBVIOUS
  <2>2. /\ tests[1][2] # "OK" /\ (tests[2][1] => tests[2][2] # "OK") /\ tests[3][2] # "OK"
    OBVIOUS
  <2> HIDE DEF tests
  <2> QED BY <2>1, <2>2
<1>3. /\ tests[1][1] <=> ~RunFollows(b, r)
      /\ tests[2][1] <=> PrimState(b.runs[r].prim) # "OK"
      /\ tests[3][1] <=> ~WarpAdmits(b.state, b.runs[r], b.mips)
  BY Zenon
<1> HIDE DEF tests
<1>4. FirstRefusal(tests) = "OK" <=> \A i \in 1..3 : ~tests[i][1]
  <2>1. ASSUME FirstRefusal(tests) = "OK" PROVE \A i \in 1..3 : ~tests[i][1]
    BY <1>2, <2>1, NoRefusal
  <2>2. ASSUME \A i \in 1..3 : ~tests[i][1] PROVE FirstRefusal(tests) = "OK"
    <3>1. {i \in DOMAIN tests : tests[i][1]} = {}
      BY <1>2, <2>2
    <3> QED BY <3>1, Zenon DEF FirstRefusal
  <2> QED BY <2>1, <2>2
<1> QED BY <1>1, <1>3, <1>4

\* An accepted WARP batch: its destination, its box and its levels lie in the window.
LEMMA WarpBatchAccepted ==
  ASSUME NEW b, IsWarp(b), DestFits(b.state, Window) = "OK",
         ValidateWarp(b, Limits(b.state, Window)) = "OK"
  PROVE  WarpHolds(b)
<1> DEFINE lim == Limits(b.state, Window)
           deep == WarpDeep(b)
           textured == WarpTextured(b)
<1>1. /\ b.mips <= 4 /\ \A l \in 1..b.mips : LevelVerdict(b, l, lim) = "OK"
      /\ StateCommon(b.state, b.mips, lim, deep, textured) = "OK"
  <2> HIDE DEF lim
  <2>1. ValidateWarp(b, lim) = "OK"
    BY DEF lim
  <2> QED BY <2>1, WarpVerdict DEF WarpParts
<1>7. deep \in BOOLEAN /\ textured \in BOOLEAN
  BY DEF WarpDeep, WarpTextured
<1>8. /\ StateCommon(b.state, 0, lim, deep, FALSE) = "OK"
      /\ textured => TextureState(b.state, b.mips, Window) = "OK"
  <2> HIDE DEF deep, textured
  <2> QED BY <1>1, <1>7, WarpSurface DEF IsWarp
<1>9. SurfaceHolds(b.state, deep)
  <2> HIDE DEF deep
  <2> QED BY <1>7, <1>8, SurfaceAccepted DEF IsWarp
<1>10. ASSUME textured
       PROVE  /\ LevelInside(b.state.texorg, b.state.texPitch, b.state.texH)
              /\ \A l \in 1..b.mips :
                   LevelInside(b.mipOrg[l], b.state.texW \div 2^l, b.state.texH \div 2^l)
  <2>1. /\ b.state.texW \in 1..MaxDim /\ b.state.texH \in 1..MaxDim
        /\ LevelInside(b.state.texorg, b.state.texPitch, b.state.texH)
    BY <1>8, <1>10, TextureAccepted DEF IsWarp
  <2>2. ASSUME NEW l \in 1..b.mips
        PROVE  LevelInside(b.mipOrg[l], b.state.texW \div 2^l, b.state.texH \div 2^l)
    <3>1. l \in 1..4
      BY <1>1 DEF IsWarp
    <3>2. LevelVerdict(b, l, lim) = "OK"
      <4> HIDE DEF lim
      <4> QED BY <1>1
    <3> QED BY <2>1, <3>1, <3>2, LevelAccepted
  <2> QED BY <2>1, <2>2
<1>11. b.state.dstWidth # 0 /\ b.state.dstHeight # 0
  BY DestinationAccepted
<1> QED BY <1>9, <1>10, <1>11 DEF WarpHolds

\* What was asked as a WARP batch is one of those declared, and an accepted one holds.
WarpTyped(b) ==
  /\ b.vtxCount \in Nat
  /\ \A r \in DOMAIN b.runs : b.runs[r].first \in Nat /\ b.runs[r].count \in Nat
  /\ \A i \in DOMAIN b.vtx :
       DOMAIN b.vtx[i] = VertexFields /\ Range(b.vtx[i]) \subseteq 0..(2 * Negative - 1)
WarpInv ==
  /\ source.kind = "warp" => IsWarp(batch) /\ WarpTyped(batch) /\ phase \in {"submitted", "done"}
  /\ WarpAccepted => WarpHolds(batch) /\ WarpParts(batch, Limits(batch.state, Window))

\* A WARP batch just asked for is accepted by nobody yet,
LEMMA WarpAsked ==
  ASSUME AskForWarp
  PROVE  WarpInv'
<1> DEFINE Asked(st, shape) ==
             [state |-> st, mips |-> shape.mips, mipOrg |-> shape.mipOrg, runs |-> shape.runs,
              vtxCount |-> shape.vtxCount, vtx |-> shape.vtx]
<1>1. PICK f \in WarpBatches : \E st \in f.states, shape \in f.shapes : AskWarp(Asked(st, shape))
  BY DEF AskForWarp
<1>2. PICK st \in f.states, shape \in f.shapes : AskWarp(Asked(st, shape))
  BY <1>1
<1>3. /\ IsState(st) /\ DOMAIN shape = WarpFields
      /\ shape.mips \in Nat /\ shape.runs \in Seq(Range(shape.runs)) /\ WarpTyped(shape)
  <2>1. /\ IsState(st) /\ DOMAIN shape = WarpFields
        /\ shape.mips \in Nat /\ shape.runs \in Seq(Range(shape.runs))
    BY BatchAssumption
  <2>2. /\ shape.vtxCount \in Nat
        /\ \A r \in DOMAIN shape.runs : {shape.runs[r].first, shape.runs[r].count} \subseteq Nat
        /\ \A i \in DOMAIN shape.vtx :
             DOMAIN shape.vtx[i] = VertexFields /\ Range(shape.vtx[i]) \subseteq 0..(2 * Negative - 1)
    BY BatchAssumption
  <2>3. WarpTyped(shape)
    BY <2>2 DEF WarpTyped
  <2> QED BY <2>1, <2>3
<1> DEFINE b == Asked(st, shape)
<1>4. /\ b.state = st /\ b.mips = shape.mips /\ b.runs = shape.runs
      /\ b.vtxCount = shape.vtxCount /\ b.vtx = shape.vtx
  OBVIOUS
<1>5. source'.kind = "warp" /\ phase' = "submitted" /\ batch' = b
  BY <1>2 DEF AskWarp
<1> HIDE DEF b
<1>6. IsWarp(batch') /\ WarpTyped(batch')
  BY <1>3, <1>4, <1>5 DEF IsWarp, WarpTyped
<1> QED BY <1>5, <1>6 DEF WarpInv, WarpAccepted

\* what the driver accepts was checked,
LEMMA WarpSubmitted ==
  ASSUME WarpInv, SubmitWarp
  PROVE  WarpInv'
<1>1. UNCHANGED <<source, batch>> /\ phase' = "done"
  BY DEF SubmitWarp
<1>2. ASSUME source.kind = "warp", verdict'.is = "OK"
      PROVE  WarpHolds(batch) /\ WarpParts(batch, Limits(batch.state, Window))
  <2> DEFINE fits == Destination(batch.state, TRUE)
             asked == ValidateWarp(batch, Limits(batch.state, Window))
  <2>1. verdict' = [by |-> "kernel", is |-> IF fits # "OK" THEN fits ELSE asked]
    BY DEF SubmitWarp
  <2>2. fits = "OK" /\ asked = "OK"
    <3> HIDE DEF fits, asked
    <3> QED BY <1>2, <2>1
  <2>3. fits = DestFits(batch.state, Window)
    BY DEF Destination
  <2>4. IsWarp(batch)
    BY <1>2 DEF WarpInv
  <2>5. WarpHolds(batch)
    BY <2>2, <2>3, <2>4, WarpBatchAccepted
  <2>6. WarpParts(batch, Limits(batch.state, Window))
    BY <2>2, <2>4, WarpVerdict
  <2> QED BY <2>5, <2>6
<1> QED BY <1>1, <1>2 DEF WarpInv, WarpAccepted

\* and that stays so.
LEMMA WarpInvariance == Spec => [](Inv /\ WarpInv)
<1>1. Init => WarpInv
  BY DEF Init, WarpInv, WarpAccepted, NoSource
<1>2. Inv /\ WarpInv /\ [Next]_vars => WarpInv'
  <2> SUFFICES ASSUME Inv, WarpInv, [Next]_vars PROVE WarpInv'
    OBVIOUS
  <2>1. CASE UNCHANGED vars
    <3>1. UNCHANGED <<phase, source, batch, verdict>>
      BY <2>1 DEF vars
    <3> QED BY <3>1 DEF WarpInv, WarpAccepted
  <2>2. CASE AddTriangle \/ EndMesh \/ Continue
    <3>1. source'.kind = "mesh"
      BY <2>2, MeshStays
    <3> QED BY <3>1 DEF WarpInv, WarpAccepted
  <2>3. CASE AskForTriangle
    BY <2>3 DEF AskForTriangle, AskTriangle, WarpInv, WarpAccepted
  <2>4. CASE AskForBatch
    BY <2>4 DEF AskForBatch, AskBatch, WarpInv, WarpAccepted
  <2>5. CASE AskForMesh
    BY <2>5 DEF AskForMesh, AskMesh, WarpInv, WarpAccepted
  <2>6. CASE Return
    BY <2>6 DEF Return, NoSource, WarpInv, WarpAccepted
  <2>7. CASE Prevalidate \/ Submit \/ Row
    <3>1. UNCHANGED source /\ source.kind # "warp"
      BY <2>7 DEF Prevalidate, Submit, Row, WarpInv
    <3> QED BY <3>1 DEF WarpInv, WarpAccepted
  <2> QED BY <2>1, <2>2, <2>3, <2>4, <2>5, <2>6, <2>7, WarpAsked, WarpSubmitted DEF Next, Ask
<1> QED BY <1>1, <1>2, Invariance, PTL DEF Spec

\* The floats of a vertex the driver takes are numbers in their ranges.
LEMMA VertexNumbers ==
  ASSUME NEW v, DOMAIN v = VertexFields, Range(v) \subseteq 0..(2 * Negative - 1), VertexOK(v)
  PROVE  /\ \A p \in {v.x, v.y, v.z, v.rhw, v.tu0, v.tv0} : F32Exp(p) # 2^ExpBits - 1
         /\ Abs(Value(v.x)) <= Value(Float.coord) /\ Abs(Value(v.y)) <= Value(Float.coord)
         /\ Value(v.z) \in 0..Value(Float.one) /\ Value(v.rhw) \in WeightMin..WeightMax
<1>1. \A p \in {v.x, v.y, v.z, v.rhw, v.tu0, v.tv0} : p \in 0..(2 * Negative - 1)
  BY DEF VertexFields, Range
<1>2. \A p \in {v.x, v.y, v.z, v.rhw, v.tu0, v.tv0} : F32Exp(p) # 2^ExpBits - 1
  BY DEF VertexOK, F32AbsAtMost, F32InUnit, F32PosNormal, F32Finite
<1>3. ASSUME NEW p \in 0..(2 * Negative - 1)
      PROVE  /\ F32Mag(p) \in Nat /\ Size(F32Mag(p)) \in Nat /\ F32Sign(p) \in {0, 1}
             /\ Value(p) = IF F32Sign(p) = 1 THEN -Size(F32Mag(p)) ELSE Size(F32Mag(p))
             /\ F32Sign(p) = 0 => p = F32Mag(p)
  <2>1. /\ F32Sign(p) \in {0, 1} /\ F32Mag(p) \in Nat /\ p = F32Sign(p) * Negative + F32Mag(p)
    BY PatternIs
  <2>2. Size(F32Mag(p)) \in Nat
    BY <2>1, SizeTyped
  <2>3. Value(p) = IF F32Sign(p) = 1 THEN -Size(F32Mag(p)) ELSE Size(F32Mag(p))
    BY ValueIs
  <2>4. F32Sign(p) = 0 => p = F32Mag(p)
    <3>1. Negative \in Nat
      BY FloatShape
    <3> QED BY <2>1, <3>1
  <2> QED BY <2>1, <2>2, <2>3, <2>4
<1>4. \A q \in {Float.one, Float.coord, Float.rhwMin, Float.rhwMax} :
        q \in Nat /\ F32Mag(q) = q /\ Value(q) = Size(q) /\ Size(q) \in Nat
  BY LimitsAre
<1>5. ASSUME NEW p \in 0..(2 * Negative - 1), F32AbsAtMost(p, Float.coord)
      PROVE  Abs(Value(p)) <= Value(Float.coord)
  <2>1. F32Mag(p) <= Float.coord
    BY <1>4, <1>5 DEF F32AbsAtMost
  <2>2. Size(F32Mag(p)) <= Size(Float.coord)
    BY <1>3, <1>4, <2>1, SizeOrder
  <2>3. PICK a \in Nat : a = Size(F32Mag(p)) /\ Value(p) \in {a, -a}
    BY <1>3
  <2>4. Abs(Value(p)) = a
    BY <2>3 DEF Abs
  <2> QED BY <1>4, <2>2, <2>3, <2>4
<1>6. Value(v.z) \in 0..Value(Float.one)
  <2>1. v.z \in 0..(2 * Negative - 1) /\ F32InUnit(v.z)
    BY <1>1 DEF VertexOK
  <2>2. F32Sign(v.z) = 1 => F32Mag(v.z) = 0
    BY <2>1 DEF F32InUnit
  <2>3. F32Sign(v.z) # 1 => v.z <= Float.one
    BY <2>1 DEF F32InUnit
  <2>4. Size(0) = 0
    BY SizeTyped, FloatShape
  <2>5. CASE F32Sign(v.z) = 1
    <3>1. Value(v.z) = 0
      BY <1>3, <2>1, <2>2, <2>4, <2>5
    <3> QED BY <1>4, <3>1
  <2>6. CASE F32Sign(v.z) # 1
    <3>1. v.z = F32Mag(v.z) /\ Value(v.z) = Size(v.z) /\ v.z \in Nat /\ Size(v.z) \in Nat
      BY <1>3, <2>1, <2>6
    <3>2. Size(v.z) <= Size(Float.one)
      BY <1>4, <2>3, <2>6, <3>1, SizeOrder
    <3> QED BY <1>4, <3>1, <3>2
  <2> QED BY <2>5, <2>6
<1>7. Value(v.rhw) \in WeightMin..WeightMax
  <2>1. v.rhw \in 0..(2 * Negative - 1) /\ F32Between(v.rhw, Float.rhwMin, Float.rhwMax)
    BY <1>1 DEF VertexOK
  <2>2. F32Sign(v.rhw) = 0 /\ v.rhw >= Float.rhwMin /\ v.rhw <= Float.rhwMax
    BY <2>1 DEF F32Between
  <2>3. v.rhw = F32Mag(v.rhw) /\ Value(v.rhw) = Size(v.rhw) /\ v.rhw \in Nat /\ Size(v.rhw) \in Nat
    BY <1>3, <2>1, <2>2
  <2>4. Size(Float.rhwMin) <= Size(v.rhw) /\ Size(v.rhw) <= Size(Float.rhwMax)
    <3>1. Float.rhwMin \in Nat /\ Float.rhwMax \in Nat /\ Float.rhwMin <= v.rhw
      BY <1>4, <2>2, <2>3
    <3> QED BY <2>2, <2>3, <3>1, SizeOrder
  <2> QED BY <1>4, <2>3, <2>4 DEF WeightMin, WeightMax
<1>8. F32AbsAtMost(v.x, Float.coord) /\ F32AbsAtMost(v.y, Float.coord)
  BY DEF VertexOK
<1>9. Abs(Value(v.x)) <= Value(Float.coord) /\ Abs(Value(v.y)) <= Value(Float.coord)
  BY <1>1, <1>5, <1>8
<1> QED BY <1>2, <1>6, <1>7, <1>9

\* An accepted WARP batch has its floats in their ranges, its clip box in the window, colour
\* and depth, and when a run is textured every level of the texture too.
LEMMA WarpInside ==
  ASSUME WarpInv, WarpAccepted
  PROVE  NumbersInRange /\ BoxInside /\ LevelsInside
<1> DEFINE st == batch.state
           box == ClipBox(st)
           deep == WarpDeep(batch)
<1>1. IsWarp(batch) /\ IsState(st) /\ WarpHolds(batch) /\ deep \in BOOLEAN
  BY DEF WarpInv, WarpAccepted, IsWarp, WarpDeep
<1>2. BoxInside
  <2>1. ASSUME ~ClipEmpty(box), NEW x \in {box.x[1], box.x[2] - 1}, NEW y \in {box.y[1], box.y[2] - 1}
        PROVE  PixelInside(st, <<x, y>>, deep)
    <3>1. BoxHolds(st, box)
      BY <1>1, <2>1, ClipBoxHolds DEF WarpHolds
    <3>2. x \in Int /\ x >= 0 /\ x < st.dstWidth /\ y \in Int /\ y >= 0 /\ y < st.dstHeight
      BY <2>1, <3>1 DEF BoxHolds
    <3>3. SurfaceHolds(st, deep)
      BY <1>1 DEF WarpHolds
    <3> HIDE DEF st, box, deep
    <3> QED BY <1>1, <3>2, <3>3, PixelsInside
  <2> QED BY <2>1 DEF BoxInside, WarpDeep
<1>3. LevelsInside
  <2>1. SUFFICES ASSUME WarpTextured(batch), NEW l \in 0..batch.mips
                 PROVE  IF l = 0 THEN LevelInside(st.texorg, st.texPitch, st.texH)
                        ELSE LevelInside(batch.mipOrg[l], st.texW \div 2^l, st.texH \div 2^l)
    BY DEF LevelsInside, WarpTextured
  <2>2. l = 0 \/ l \in 1..batch.mips
    BY <1>1, <2>1 DEF IsWarp
  <2> QED BY <1>1, <2>1, <2>2 DEF WarpHolds
<1>4. NumbersInRange
  <2>1. WarpTyped(batch) /\ WarpParts(batch, Limits(batch.state, Window))
    BY DEF WarpInv, WarpAccepted
  <2>2. ASSUME NEW i \in DOMAIN batch.vtx
        PROVE  LET v == batch.vtx[i]
               IN  /\ DOMAIN v = VertexFields /\ Range(v) \subseteq 0..(2 * Negative - 1) /\ VertexOK(v)
    BY <2>1 DEF WarpTyped, WarpParts
  <2> QED BY <2>2, VertexNumbers DEF NumbersInRange
<1> QED BY <1>2, <1>3, <1>4

\* The driver accepts no WARP batch with a float out of its range, or whose clip box, depth
\* or texture levels leave its window, whatever the words of the batch are; and what is
\* walked of a batch of trapezoids stays inside too (osmgaHW3DValidateWarp,
\* osmgaHW3DValidateReachSite).
THEOREM AcceptedStaysInsideAlways == Spec => []AcceptedStaysInside
<1>1. Inv => RowsStayInside
  BY RowInside
<1>2. WarpInv => WarpStaysInside
  BY WarpInside DEF WarpStaysInside
<1>3. Inv /\ WarpInv => AcceptedStaysInside
  BY <1>1, <1>2 DEF AcceptedStaysInside
<1> QED BY <1>3, WarpInvariance, PTL
-----------------------------------------------------------------------------
(* A mesh: sequences.                                                        *)

\* A sequence of whatever it holds.
Listed(s) == s \in Seq(Range(s))

\* A sequence is one of its own elements.
LEMMA ListedIs ==
  ASSUME NEW S, NEW s \in Seq(S)
  PROVE  Listed(s)
<1>1. s \in [1..Len(s) -> S] /\ Len(s) \in Nat
  BY LenProperties
<1>2. s \in [1..Len(s) -> Range(s)]
  BY <1>1 DEF Range
<1> QED BY <1>1, <1>2, SeqDef DEF Listed

\* Its elements are the values at its places.
LEMMA ListedLen ==
  ASSUME NEW s, Listed(s)
  PROVE  Len(s) \in Nat /\ DOMAIN s = 1..Len(s) /\ (s = <<>> <=> Len(s) = 0)
BY LenProperties, EmptySeq DEF Listed

\* What an appended element leaves,
LEMMA Appended ==
  ASSUME NEW s, Listed(s), NEW e
  PROVE  /\ Listed(Append(s, e)) /\ Len(Append(s, e)) = Len(s) + 1 /\ Len(s) \in Nat
         /\ \A i \in 1..Len(s) : Append(s, e)[i] = s[i]
         /\ Append(s, e)[Len(s) + 1] = e
<1> DEFINE S == Range(s) \cup {e}
<1>1. s \in Seq(S)
  <2>1. Range(s) \subseteq S
    OBVIOUS
  <2> QED BY <2>1, SeqMonotonic DEF Listed
<1>2. e \in S
  OBVIOUS
<1> HIDE DEF S
<1>3. /\ Append(s, e) \in Seq(S) /\ Len(Append(s, e)) = Len(s) + 1
      /\ \A i \in 1..Len(s) : Append(s, e)[i] = s[i]
      /\ Append(s, e)[Len(s) + 1] = e
  BY <1>1, <1>2, AppendProperties
<1>4. Listed(Append(s, e))
  BY ONLY <1>3, ListedIs
<1> QED BY <1>3, <1>4, ListedLen

\* what a changed one leaves,
LEMMA Changed ==
  ASSUME NEW s, Listed(s), NEW k \in 1..Len(s), NEW e
  PROVE  /\ Listed([s EXCEPT ![k] = e]) /\ Len([s EXCEPT ![k] = e]) = Len(s)
         /\ [s EXCEPT ![k] = e][k] = e
         /\ \A i \in 1..Len(s) : i # k => [s EXCEPT ![k] = e][i] = s[i]
<1> DEFINE S == Range(s) \cup {e}
<1>1. s \in Seq(S) /\ e \in S
  <2>1. Range(s) \subseteq S
    OBVIOUS
  <2> QED BY <2>1, SeqMonotonic DEF Listed
<1> HIDE DEF S
<1>2. /\ [s EXCEPT ![k] = e] \in Seq(S) /\ Len([s EXCEPT ![k] = e]) = Len(s)
      /\ \A i \in 1..Len(s) : [s EXCEPT ![k] = e][i] = IF i = k THEN e ELSE s[i]
  BY <1>1, ExceptSeq
<1>3. Listed([s EXCEPT ![k] = e])
  BY ONLY <1>2, ListedIs
<1> QED BY <1>2, <1>3

\* what is left without the first,
LEMMA Dropped ==
  ASSUME NEW s, Listed(s), s # <<>>
  PROVE  /\ Listed(Tail(s)) /\ Len(Tail(s)) = Len(s) - 1 /\ Len(s) \in Nat \ {0}
         /\ Head(s) = s[1] /\ \A i \in 1..Len(Tail(s)) : Tail(s)[i] = s[i + 1] /\ i + 1 \in 1..Len(s)
<1>1. /\ Tail(s) \in Seq(Range(s)) /\ Len(Tail(s)) = Len(s) - 1
      /\ \A i \in 1..Len(Tail(s)) : Tail(s)[i] = s[i + 1]
  BY HeadTailProperties DEF Listed
<1>2. Len(s) \in Nat \ {0}
  BY ListedLen
<1>3. Listed(Tail(s))
  BY ONLY <1>1, ListedIs
<1>4. Head(s) = s[1]
  BY DEF Listed
<1>5. \A i \in 1..Len(Tail(s)) : i + 1 \in 1..Len(s)
  BY <1>1, <1>2
<1> QED BY <1>1, <1>2, <1>3, <1>4, <1>5

\* and what two sequences joined hold.
LEMMA Joined ==
  ASSUME NEW s, Listed(s), NEW t, Listed(t)
  PROVE  /\ Listed(s \o t) /\ Len(s \o t) = Len(s) + Len(t) /\ Len(s) \in Nat /\ Len(t) \in Nat
         /\ \A i \in 1..Len(s) : (s \o t)[i] = s[i]
         /\ \A i \in 1..Len(t) : (s \o t)[Len(s) + i] = t[i]
<1> DEFINE S == Range(s) \cup Range(t)
<1>1. s \in Seq(S) /\ t \in Seq(S)
  <2>1. Range(s) \subseteq S /\ Range(t) \subseteq S
    OBVIOUS
  <2> QED BY <2>1, SeqMonotonic DEF Listed
<1> HIDE DEF S
<1>2. Len(s) \in Nat /\ Len(t) \in Nat
  BY ListedLen
<1>3. /\ s \o t \in Seq(S) /\ Len(s \o t) = Len(s) + Len(t)
      /\ \A i \in 1..(Len(s) + Len(t)) : (s \o t)[i] = IF i <= Len(s) THEN s[i] ELSE t[i - Len(s)]
  BY <1>1, ConcatProperties
<1>4. Listed(s \o t)
  BY ONLY <1>3, ListedIs
<1>5. \A i \in 1..Len(s) : (s \o t)[i] = s[i]
  BY <1>2, <1>3
<1>6. ASSUME NEW i \in 1..Len(t) PROVE (s \o t)[Len(s) + i] = t[i]
  <2>1. /\ Len(s) + i \in 1..(Len(s) + Len(t)) /\ ~(Len(s) + i <= Len(s)) /\ (Len(s) + i) - Len(s) = i
    BY <1>2
  <2> QED BY <1>3, <2>1
<1> QED BY <1>2, <1>3, <1>4, <1>5, <1>6

-----------------------------------------------------------------------------
(* A mesh: the assembler's runs and vertices.                                *)

\* The runs of the triangles taken: one after the other, in whole triangles, under words the
\* driver knows, and each triangle in a run of its own words.
Words(runs, r, st) ==
  /\ DOMAIN runs[r] = RunFields /\ Drawable(st, runs[r].prim)
  /\ \E f \in Nat, c \in Nat \ {0} : runs[r].first = 3 * f /\ runs[r].count = 3 * c
RunsFor(runs, taken, st) ==
  /\ Listed(runs) /\ Listed(taken) /\ (Len(runs) = 0 <=> Len(taken) = 0)
  /\ Len(runs) # 0 => RunsInOrder(runs, Len(runs), 3 * Len(taken))
  /\ \A r \in 1..Len(runs) : Words(runs, r, st)
  /\ \A r \in 1..Len(runs), k \in 1..Len(taken) :
       WithinRun(runs, r, 3 * (k - 1)) => runs[r].prim = taken[k].prim

\* No run goes past the last.
LEMMA BeforeTheEnd ==
  ASSUME NEW runs, NEW n, NEW total, RunsInOrder(runs, n, total), NEW r \in 1..n
  PROVE  /\ EndOf(runs, r) \in Nat /\ EndOf(runs, r) <= total /\ total \in Nat
         /\ r # n => EndOf(runs, r) <= runs[n].first
<1>1. n \in 1..n /\ runs[n].first \in Nat /\ runs[n].count \in Nat /\ total = EndOf(runs, n)
      /\ total = runs[n].first + runs[n].count
  BY DEF RunsInOrder, EndOf
<1>2. EndOf(runs, r) \in Nat
  BY DEF RunsInOrder, EndOf
<1>3. CASE r = n
  <2>1. EndOf(runs, r) = total
    BY <1>1, <1>3
  <2>2. total \in Nat /\ total <= total
    BY <1>1
  <2> QED BY <1>3, <2>1, <2>2
<1>4. CASE r # n
  <2>1. r < n
    BY <1>4 DEF RunsInOrder
  <2>2. EndOf(runs, r) <= runs[n].first
    BY <1>1, <2>1, LaterRuns
  <2> QED BY <1>1, <1>2, <2>2
<1> QED BY <1>3, <1>4

\* A triangle under new words opens a run,
LEMMA RunOpened ==
  ASSUME NEW runs, NEW taken, NEW st, RunsFor(runs, taken, st), NEW prim, Drawable(st, prim),
         NEW e, e.prim = prim
  PROVE  RunsFor(Append(runs, [prim |-> prim, first |-> 3 * Len(taken), count |-> 3]), Append(taken, e), st)
<1> DEFINE n == Len(runs)
           m == Len(taken)
           run == [prim |-> prim, first |-> 3 * m, count |-> 3]
           new == Append(runs, run)
           more == Append(taken, e)
<1>1. /\ Listed(new) /\ Len(new) = n + 1 /\ n \in Nat /\ new[n + 1] = run
      /\ \A r \in 1..n : new[r] = runs[r]
  BY Appended DEF RunsFor
<1>2. /\ Listed(more) /\ Len(more) = m + 1 /\ m \in Nat /\ more[m + 1] = e
      /\ \A k \in 1..m : more[k] = taken[k]
  BY Appended DEF RunsFor
<1>3. run.prim = prim /\ run.first = 3 * m /\ run.count = 3 /\ DOMAIN run = RunFields
  BY DEF RunFields
<1>4. n = 0 <=> m = 0
  BY DEF RunsFor
<1>5. n # 0 => RunsInOrder(runs, n, 3 * m)
  BY DEF RunsFor
<1>6. /\ \A r \in 1..n : Words(runs, r, st)
      /\ \A r \in 1..n, k \in 1..m : WithinRun(runs, r, 3 * (k - 1)) => runs[r].prim = taken[k].prim
  BY DEF RunsFor
<1> HIDE DEF n, m, run, new, more
<1>7. RunsInOrder(new, n + 1, 3 * (m + 1))
  <2>1. n + 1 \in Nat \ {0}
    BY <1>1
  <2>2. ASSUME NEW r \in 1..(n + 1) PROVE new[r].first \in Nat /\ new[r].count \in Nat \ {0}
    <3>1. CASE r \in 1..n
      <4>1. n # 0 /\ new[r] = runs[r]
        BY <1>1, <3>1
      <4> QED BY <1>5, <3>1, <4>1 DEF RunsInOrder
    <3>2. CASE r = n + 1
      BY <1>1, <1>2, <1>3, <3>2
    <3> QED BY <1>1, <3>1, <3>2
  <2>3. new[1].first = 0
    <3>1. CASE n = 0
      BY <1>1, <1>2, <1>3, <1>4, <3>1
    <3>2. CASE n # 0
      BY <1>1, <1>5, <3>2 DEF RunsInOrder
    <3> QED BY <3>1, <3>2
  <2>4. ASSUME NEW r \in 1..(n + 1), r + 1 \in 1..(n + 1)
        PROVE  new[r + 1].first = new[r].first + new[r].count
    <3>1. r \in 1..n /\ n # 0 /\ n \in 1..n
      BY <1>1, <2>4
    <3>2. CASE r = n
      <4>1. new[r + 1].first = 3 * m
        BY <1>1, <1>3, <3>2
      <4>2. runs[n].first + runs[n].count = 3 * m
        <5>1. RunsInOrder(runs, n, 3 * m)
          BY <1>5, <3>1
        <5> QED BY <5>1 DEF RunsInOrder
      <4>3. new[r] = runs[n]
        BY <1>1, <3>1, <3>2
      <4> QED BY <4>1, <4>2, <4>3
    <3>3. CASE r # n
      <4>1. r + 1 \in 1..n
        BY <1>1, <3>1, <3>3
      <4>2. new[r + 1] = runs[r + 1] /\ new[r] = runs[r]
        BY <1>1, <3>1, <4>1
      <4>3. runs[r + 1].first = runs[r].first + runs[r].count
        <5>1. RunsInOrder(runs, n, 3 * m)
          BY <1>5, <3>1
        <5>2. \A q \in 1..n : q + 1 \in 1..n => runs[q + 1].first = runs[q].first + runs[q].count
          BY <5>1 DEF RunsInOrder
        <5> QED BY <3>1, <4>1, <5>2
      <4> QED BY <4>2, <4>3
    <3> QED BY <3>2, <3>3
  <2>5. new[n + 1].first + new[n + 1].count = 3 * (m + 1)
    BY <1>1, <1>2, <1>3
  <2> QED BY <2>1, <2>2, <2>3, <2>4, <2>5 DEF RunsInOrder
<1>8. ASSUME NEW r \in 1..(n + 1) PROVE Words(new, r, st)
  <2>1. CASE r \in 1..n
    BY <1>1, <1>6, <2>1 DEF Words
  <2>2. CASE r = n + 1
    <3>1. m \in Nat /\ 1 \in Nat \ {0} /\ new[r].first = 3 * m /\ new[r].count = 3 * 1
      BY <1>1, <1>2, <1>3, <2>2
    <3> QED BY <1>1, <1>3, <2>2, <3>1 DEF Words
  <2> QED BY <1>1, <2>1, <2>2
<1>9. ASSUME NEW r \in 1..(n + 1), NEW k \in 1..(m + 1), WithinRun(new, r, 3 * (k - 1))
      PROVE  new[r].prim = more[k].prim
  <2>1. CASE r \in 1..n
    <3>1. n # 0 /\ new[r] = runs[r]
      BY <1>1, <2>1
    <3>2. WithinRun(runs, r, 3 * (k - 1))
      BY <1>9, <3>1 DEF WithinRun, EndOf
    <3>3. EndOf(runs, r) \in Nat /\ EndOf(runs, r) <= 3 * m
      BY <1>5, <2>1, <3>1, BeforeTheEnd
    <3>4. 3 * (k - 1) <= EndOf(runs, r) - 1
      BY <3>2 DEF WithinRun
    <3>5. k \in 1..m
      BY <1>2, <3>3, <3>4
    <3> QED BY <1>2, <1>6, <2>1, <3>1, <3>2, <3>5
  <2>2. CASE r = n + 1
    <3>1. new[r].first = 3 * m
      BY <1>1, <1>3, <2>2
    <3>2. 3 * m <= 3 * (k - 1)
      BY <1>9, <3>1 DEF WithinRun
    <3>3. k = m + 1
      BY <1>2, <3>2
    <3> QED BY <1>1, <1>2, <1>3, <2>2, <3>3
  <2> QED BY <1>1, <2>1, <2>2
<1>10. RunsFor(new, more, st)
  <2>1. Len(new) # 0 /\ Len(more) # 0 /\ Len(new) = n + 1 /\ Len(more) = m + 1
    BY <1>1, <1>2
  <2> QED BY <1>1, <1>2, <1>7, <1>8, <1>9, <2>1 DEF RunsFor
<1> QED BY <1>10 DEF new, more, run, m

\* and one under the last run's words makes that longer.
LEMMA RunLonger ==
  ASSUME NEW runs, NEW taken, NEW st, RunsFor(runs, taken, st), runs # <<>>,
         NEW e, e.prim = runs[Len(runs)].prim
  PROVE  RunsFor([runs EXCEPT ![Len(runs)].count = @ + 3], Append(taken, e), st)
<1> DEFINE n == Len(runs)
           m == Len(taken)
           old == runs[n]
           run == [old EXCEPT !.count = @ + 3]
           new == [runs EXCEPT ![n] = run]
           more == Append(taken, e)
<1>0. [runs EXCEPT ![Len(runs)].count = @ + 3] = new
  OBVIOUS
<1>1. n \in Nat \ {0} /\ n \in 1..n
  BY ListedLen DEF RunsFor
<1>2. /\ Listed(new) /\ Len(new) = n /\ new[n] = run
      /\ \A r \in 1..n : r # n => new[r] = runs[r]
  <2>1. Listed(runs)
    BY DEF RunsFor
  <2> HIDE DEF run
  <2> QED BY <1>1, <2>1, Changed
<1>3. /\ Listed(more) /\ Len(more) = m + 1 /\ m \in Nat /\ more[m + 1] = e
      /\ \A k \in 1..m : more[k] = taken[k]
  BY Appended DEF RunsFor
<1>4. /\ RunsInOrder(runs, n, 3 * m) /\ \A r \in 1..n : Words(runs, r, st)
      /\ \A r \in 1..n, k \in 1..m : WithinRun(runs, r, 3 * (k - 1)) => runs[r].prim = taken[k].prim
  BY <1>1 DEF RunsFor
<1>5. /\ run.prim = old.prim /\ run.first = old.first /\ run.count = old.count + 3 /\ DOMAIN run = RunFields
      /\ old.first \in Nat /\ old.count \in Nat \ {0} /\ old.first + old.count = 3 * m
  <2>1. DOMAIN old = RunFields
    BY <1>1, <1>4 DEF Words
  <2>2. run.prim = old.prim /\ run.first = old.first /\ run.count = old.count + 3 /\ DOMAIN run = RunFields
    BY <2>1 DEF RunFields
  <2> HIDE DEF run
  <2> QED BY <1>1, <1>4, <2>2 DEF RunsInOrder
<1>6. e.prim = old.prim
  OBVIOUS
<1> HIDE DEF n, m, old, run, new, more
<1>7. \A r \in 1..n : new[r].first = runs[r].first /\ new[r].prim = runs[r].prim
  BY <1>2, <1>5 DEF old
<1>8. RunsInOrder(new, n, 3 * (m + 1))
  <2>1. ASSUME NEW r \in 1..n PROVE new[r].first \in Nat /\ new[r].count \in Nat \ {0}
    <3>1. CASE r = n
      BY <1>2, <1>5, <3>1
    <3>2. CASE r # n
      BY <1>2, <1>4, <3>2 DEF RunsInOrder
    <3> QED BY <3>1, <3>2
  <2>2. new[1].first = 0
    BY <1>1, <1>4, <1>7 DEF RunsInOrder
  <2>3. ASSUME NEW r \in 1..n, r + 1 \in 1..n PROVE new[r + 1].first = new[r].first + new[r].count
    <3>1. r # n /\ new[r] = runs[r]
      BY <1>1, <1>2, <2>3
    <3> QED BY <1>4, <1>7, <2>3, <3>1 DEF RunsInOrder
  <2>4. new[n].first + new[n].count = 3 * (m + 1)
    <3>1. new[n].first = old.first /\ new[n].count = old.count + 3
      BY <1>2, <1>5
    <3>2. PICK a \in Nat, b \in Nat : a = old.first /\ b = old.count /\ a + b = 3 * m
      BY <1>5
    <3>3. m \in Int
      BY <1>3
    <3>4. a + (b + 3) = 3 * (m + 1)
      BY ONLY <3>2, <3>3, a \in Nat, b \in Nat
    <3> QED BY <3>1, <3>2, <3>4
  <2> QED BY <1>1, <2>1, <2>2, <2>3, <2>4 DEF RunsInOrder
<1>9. ASSUME NEW r \in 1..n PROVE Words(new, r, st)
  <2>1. CASE r = n
    <3>1. PICK f \in Nat, c \in Nat \ {0} : old.first = 3 * f /\ old.count = 3 * c
      BY <1>1, <1>4 DEF Words, old
    <3>2. c + 1 \in Nat \ {0} /\ run.first = 3 * f /\ run.count = 3 * (c + 1)
      BY <1>5, <3>1
    <3>3. Drawable(st, run.prim)
      BY <1>1, <1>4, <1>5 DEF Words, old
    <3> QED BY <1>2, <1>5, <2>1, <3>2, <3>3 DEF Words
  <2>2. CASE r # n
    <3>1. new[r] = runs[r] /\ Words(runs, r, st)
      BY <1>2, <1>4, <2>2
    <3> QED BY <3>1 DEF Words
  <2> QED BY <2>1, <2>2
<1>10. ASSUME NEW r \in 1..n, NEW k \in 1..(m + 1), WithinRun(new, r, 3 * (k - 1))
       PROVE  new[r].prim = more[k].prim
  <2>0. EndOf(runs, r) \in Nat /\ EndOf(runs, r) <= 3 * m /\ (r # n => EndOf(runs, r) <= old.first)
    BY <1>4, BeforeTheEnd DEF old
  <2>1. CASE r = n
    <3>1. new[r].prim = old.prim /\ old = runs[r]
      BY <1>2, <1>5, <2>1 DEF old
    <3>2. CASE k = m + 1
      BY <1>3, <1>6, <3>1, <3>2
    <3>3. CASE k # m + 1
      <4>1. k \in 1..m
        BY <1>3, <3>3
      <4>2. 3 * (k - 1) < 3 * m /\ 3 * (k - 1) \in Int /\ new[r].first <= 3 * (k - 1)
        BY <1>3, <1>10, <4>1 DEF WithinRun
      <4>3. EndOf(runs, r) = 3 * m /\ runs[r].first = new[r].first
        BY <1>5, <1>7, <3>1 DEF EndOf
      <4>4. WithinRun(runs, r, 3 * (k - 1))
        BY <1>3, <1>5, <3>1, <4>2, <4>3 DEF WithinRun
      <4> QED BY <1>3, <1>4, <3>1, <4>1, <4>4
    <3> QED BY <3>2, <3>3
  <2>2. CASE r # n
    <3>1. new[r] = runs[r]
      BY <1>2, <2>2
    <3>2. WithinRun(runs, r, 3 * (k - 1))
      BY <1>10, <3>1 DEF WithinRun, EndOf
    <3>3. 3 * (k - 1) <= EndOf(runs, r) - 1
      BY <3>2 DEF WithinRun
    <3>4. k \in 1..m
      BY <1>3, <2>0, <3>3
    <3> QED BY <1>3, <1>4, <3>1, <3>2, <3>4
  <2> QED BY <2>1, <2>2
<1>11. RunsFor(new, more, st)
  <2>1. Len(new) # 0 /\ Len(more) # 0 /\ Len(new) = n /\ Len(more) = m + 1
    BY <1>1, <1>2, <1>3
  <2> QED BY <1>2, <1>3, <1>8, <1>9, <1>10, <2>1 DEF RunsFor
<1> QED BY <1>0, <1>11 DEF new, more, n, run, old

\* The vertices of the triangles taken, three and three.
VtxFor(vtx, taken) ==
  /\ Listed(vtx) /\ Len(vtx) = 3 * Len(taken)
  /\ \A k \in 1..Len(taken), i \in 1..3 : vtx[3 * (k - 1) + i] = taken[k].built[i]

\* A triangle more adds its three.
LEMMA VtxAdded ==
  ASSUME NEW vtx, NEW taken, Listed(taken), VtxFor(vtx, taken),
         NEW vs, Listed(vs), Len(vs) = 3, NEW e, e.built = vs
  PROVE  VtxFor(vtx \o vs, Append(taken, e))
<1> DEFINE m == Len(taken)
           more == Append(taken, e)
           new == vtx \o vs
<1>1. /\ Len(more) = m + 1 /\ m \in Nat /\ more[m + 1] = e /\ \A k \in 1..m : more[k] = taken[k]
  BY Appended
<1>2. Listed(vtx) /\ Len(vtx) = 3 * m /\ \A k \in 1..m, i \in 1..3 : vtx[3 * (k - 1) + i] = taken[k].built[i]
  BY DEF VtxFor
<1>3. /\ Listed(new) /\ Len(new) = 3 * m + 3
      /\ \A j \in 1..(3 * m) : new[j] = vtx[j]
      /\ \A j \in 1..3 : new[3 * m + j] = vs[j]
  <2>1. /\ Listed(new) /\ Len(new) = Len(vtx) + Len(vs)
        /\ \A j \in 1..Len(vtx) : new[j] = vtx[j]
        /\ \A j \in 1..Len(vs) : new[Len(vtx) + j] = vs[j]
    <3>1. Listed(vtx) /\ Listed(vs)
      BY <1>2
    <3> QED BY ONLY <3>1, Joined
  <2> HIDE DEF m, new
  <2> QED BY <1>2, <2>1
<1> HIDE DEF m, more, new
<1>4. ASSUME NEW k \in 1..(m + 1), NEW i \in 1..3
      PROVE  new[3 * (k - 1) + i] = more[k].built[i]
  <2>1. CASE k = m + 1
    <3>1. 3 * (k - 1) + i = 3 * m + i
      BY <1>1, <2>1
    <3>2. more[k] = e /\ new[3 * m + i] = vs[i]
      BY <1>1, <1>3, <2>1
    <3> QED BY <3>1, <3>2
  <2>2. CASE k # m + 1
    <3>1. k \in 1..m /\ 3 * (k - 1) + i \in 1..(3 * m)
      BY <1>1, <2>2
    <3>2. PICK j \in 1..(3 * m) : j = 3 * (k - 1) + i
      BY <3>1
    <3>3. new[j] = vtx[j]
      BY <1>3
    <3>4. vtx[j] = taken[k].built[i] /\ more[k] = taken[k]
      BY <1>1, <1>2, <3>1, <3>2
    <3> QED BY <3>2, <3>3, <3>4
  <2> QED BY <2>1, <2>2
<1>5. 3 * m + 3 = 3 * (m + 1)
  BY <1>1
<1>6. VtxFor(new, more)
  BY <1>1, <1>3, <1>4, <1>5 DEF VtxFor
<1> QED BY <1>6 DEF new, more

\* What the assembler holds of the triangles it took.
IsTaken(t) ==
  \E a : IsAsk(a) /\ Built(a) # <<>> /\ t = [tri |-> a.tri, prim |-> a.prim, built |-> Built(a)]
MeshBatch(b, taken) ==
  /\ b = [state |-> b.state, mips |-> 0, mipOrg |-> b.mipOrg, runs |-> b.runs,
          vtxCount |-> 3 * Len(taken), vtx |-> b.vtx]
  /\ RunsFor(b.runs, taken, b.state) /\ VtxFor(b.vtx, taken)
  /\ Len(b.runs) <= MaxRuns /\ 3 * Len(taken) <= MaxVertices
  /\ \A k \in 1..Len(taken) : IsTaken(taken[k])

\* It begins with nothing,
LEMMA NothingTaken ==
  ASSUME NEW st
  PROVE  MeshBatch(EmptyWarp(st), <<>>) /\ EmptyWarp(st).state = st
<1>1. Listed(<<>>) /\ Len(<<>>) = 0
  <2>1. <<>> \in Seq({})
    BY EmptySeq
  <2> QED BY <2>1, ListedIs, EmptySeq
<1>2. MaxRuns \in Nat /\ MaxVertices \in Nat
  BY MeshAssumption
<1>3. RunsFor(<<>>, <<>>, st) /\ VtxFor(<<>>, <<>>)
  BY <1>1 DEF RunsFor, VtxFor
<1> QED BY <1>1, <1>2, <1>3 DEF MeshBatch, EmptyWarp

\* A capacity asked for is never above the real one.
LEMMA CapacityIs ==
  ASSUME NEW asked \in Nat, NEW real \in Nat
  PROVE  Capacity(asked, real) \in Nat /\ Capacity(asked, real) <= real
<1>1. Min({asked, real}) \in {asked, real} /\ Min({asked, real}) <= real
  <2>1. {asked, real} \in SUBSET Int /\ {asked, real} # {} /\ \A n \in {asked, real} : 0 <= n
    OBVIOUS
  <2>2. Min({asked, real}) = IF asked <= real THEN asked ELSE real
    BY DEF Min
  <2> QED BY <2>2
<1> QED BY <1>1 DEF Capacity

\* and a triangle that was built and fits is added to it.
LEMMA TriangleAdded ==
  ASSUME NEW b, NEW taken, MeshBatch(b, taken), NEW a, IsAsk(a), Drawable(b.state, a.prim), Built(a) # <<>>,
         NEW caps, caps.vtx \in Nat, caps.runs \in Nat, ~WarpFull(b, a.prim, caps)
  PROVE  LET new == WarpAdd(b, a.prim, Built(a))
         IN  /\ MeshBatch(new, Append(taken, [tri |-> a.tri, prim |-> a.prim, built |-> Built(a)]))
             /\ new.state = b.state /\ new.runs # <<>>
<1> DEFINE e == [tri |-> a.tri, prim |-> a.prim, built |-> Built(a)]
           vs == Built(a)
           prim == a.prim
           m == Len(taken)
           n == Len(b.runs)
           more == Append(taken, e)
           opens == NeedsRun(b, prim)
           first == [prim |-> prim, first |-> b.vtxCount, count |-> 0]
           opened == IF opens THEN Append(b.runs, first) ELSE b.runs
           runs == [opened EXCEPT ![Len(opened)].count = @ + 3]
           new == WarpAdd(b, prim, vs)
<1>1. /\ b = [state |-> b.state, mips |-> 0, mipOrg |-> b.mipOrg, runs |-> b.runs,
              vtxCount |-> 3 * m, vtx |-> b.vtx]
      /\ RunsFor(b.runs, taken, b.state) /\ VtxFor(b.vtx, taken)
      /\ n <= MaxRuns /\ 3 * m <= MaxVertices /\ \A k \in 1..m : IsTaken(taken[k])
  BY DEF MeshBatch
<1>2. Listed(b.runs) /\ Listed(taken) /\ n \in Nat /\ m \in Nat /\ (b.runs = <<>> <=> n = 0)
  BY <1>1, ListedLen DEF RunsFor
<1>3. b.vtxCount = 3 * m /\ b.mips = 0
  BY <1>1
<1>4. Listed(vs) /\ Len(vs) = 3
  <2>1. vs = [i \in 1..3 |-> vs[i]]
    BY WarpBuiltIs
  <2> HIDE DEF vs
  <2>2. vs \in [1..3 -> Range(vs)]
    BY <2>1 DEF Range
  <2>3. vs \in Seq(Range(vs))
    BY <2>2, SeqDef
  <2>4. DOMAIN vs = 1..3 /\ DOMAIN vs = 1..Len(vs) /\ Len(vs) \in Nat
    BY <2>1, <2>3, LenProperties
  <2> QED BY <2>3, <2>4 DEF Listed
<1>5. /\ new.state = b.state /\ new.mips = 0 /\ new.mipOrg = b.mipOrg /\ new.runs = runs
      /\ new.vtxCount = 3 * m + 3 /\ new.vtx = b.vtx \o vs
      /\ new = [state |-> new.state, mips |-> new.mips, mipOrg |-> new.mipOrg, runs |-> new.runs,
                vtxCount |-> new.vtxCount, vtx |-> new.vtx]
  <2>1. new = [b EXCEPT !.runs = runs, !.vtxCount = @ + 3, !.vtx = @ \o vs]
    BY DEF WarpAdd
  <2> HIDE DEF runs, vs, new
  <2> QED BY <1>1, <1>3, <2>1
<1>6. VtxFor(b.vtx \o vs, more)
  <2>1. e.built = vs
    OBVIOUS
  <2> HIDE DEF e, vs
  <2> QED BY <1>1, <1>2, <1>4, <2>1, VtxAdded
<1>7. /\ ~(b.vtxCount + 3 > Capacity(caps.vtx, MaxVertices))
      /\ opens => ~(n >= Capacity(caps.runs, MaxRuns))
  BY DEF WarpFull
<1>8. MaxRuns \in Nat /\ MaxVertices \in Nat
  BY MeshAssumption
<1>9. 3 * m + 3 <= MaxVertices
  <2>1. Capacity(caps.vtx, MaxVertices) \in Nat /\ Capacity(caps.vtx, MaxVertices) <= MaxVertices
    BY <1>8, CapacityIs
  <2> QED BY <1>2, <1>3, <1>7, <1>8, <2>1
<1>10. RunsFor(runs, more, b.state) /\ Len(runs) <= MaxRuns /\ Len(runs) # 0
  <2>1. CASE opens
    <3>1. runs = Append(b.runs, [prim |-> prim, first |-> 3 * m, count |-> 3])
      <4> DEFINE app == Append(b.runs, first)
                 last == [prim |-> prim, first |-> 3 * m, count |-> 3]
                 app2 == Append(b.runs, last)
      <4>1. /\ Listed(app) /\ Len(app) = n + 1 /\ app[n + 1] = first
            /\ \A i \in 1..n : app[i] = b.runs[i]
        BY <1>2, Appended
      <4>2. /\ Listed(app2) /\ Len(app2) = n + 1 /\ app2[n + 1] = last
            /\ \A i \in 1..n : app2[i] = b.runs[i]
        BY <1>2, Appended
      <4>3. [first EXCEPT !.count = @ + 3] = last
        BY <1>3
      <4>4. runs = [app EXCEPT ![n + 1] = last]
        <5>1. runs = [app EXCEPT ![n + 1].count = @ + 3]
          BY <2>1, <4>1
        <5>2. [app EXCEPT ![n + 1].count = @ + 3] = [app EXCEPT ![n + 1] = [app[n + 1] EXCEPT !.count = @ + 3]]
          OBVIOUS
        <5> QED BY <4>1, <4>3, <5>1, <5>2
      <4> HIDE DEF app, app2, last, first, runs
      <4>5. /\ Listed(runs) /\ Len(runs) = n + 1 /\ runs[n + 1] = last
            /\ \A i \in 1..(n + 1) : i # n + 1 => runs[i] = app[i]
        <5>1. n + 1 \in 1..Len(app)
          BY <1>2, <4>1
        <5>2. PICK k \in 1..Len(app) : k = n + 1
          BY <5>1
        <5>3. /\ Listed([app EXCEPT ![k] = last]) /\ Len([app EXCEPT ![k] = last]) = Len(app)
              /\ [app EXCEPT ![k] = last][k] = last
              /\ \A i \in 1..Len(app) : i # k => [app EXCEPT ![k] = last][i] = app[i]
          BY ONLY <4>1, Changed
        <5> QED BY <4>1, <4>4, <5>2, <5>3
      <4>6. \A i \in 1..(n + 1) : runs[i] = app2[i]
        <5>1. ASSUME NEW i \in 1..(n + 1) PROVE runs[i] = app2[i]
          <6>1. CASE i = n + 1
            BY <4>2, <4>5, <6>1
          <6>2. CASE i # n + 1
            <7>1. i \in 1..n
              BY <1>2, <6>2
            <7> QED BY <4>1, <4>2, <4>5, <6>2, <7>1
          <6> QED BY <6>1, <6>2
        <5> QED BY <5>1
      <4>7. runs = app2
        <5>1. runs \in Seq(Range(runs) \cup Range(app2)) /\ app2 \in Seq(Range(runs) \cup Range(app2))
          BY <4>2, <4>5, SeqMonotonic DEF Listed
        <5> QED BY <4>2, <4>5, <4>6, <5>1, SeqEqual
      <4> QED BY <4>7 DEF app2, last
    <3>2. n + 1 <= MaxRuns
      <4>1. Capacity(caps.runs, MaxRuns) \in Nat /\ Capacity(caps.runs, MaxRuns) <= MaxRuns
        BY <1>8, CapacityIs
      <4> QED BY <1>2, <1>7, <1>8, <2>1, <4>1
    <3>3. e.prim = prim
      OBVIOUS
    <3> HIDE DEF runs, e, prim, n, m
    <3>4. Len(runs) = n + 1
      BY <1>2, <3>1, Appended DEF n
    <3>5. RunsFor(runs, more, b.state)
      BY <1>1, <3>1, <3>3, RunOpened DEF m, prim
    <3> QED BY <1>2, <3>2, <3>4, <3>5
  <2>2. CASE ~opens
    <3>1. b.runs # <<>> /\ b.runs[n].prim = prim
      BY <2>2 DEF NeedsRun, SameWords, Last
    <3>2. runs = [b.runs EXCEPT ![n].count = @ + 3]
      BY <2>2
    <3>3. e.prim = b.runs[n].prim
      BY <3>1
    <3> HIDE DEF runs, e
    <3>4. RunsFor(runs, more, b.state)
      BY <1>1, <3>1, <3>2, <3>3, RunLonger
    <3>5. Len(runs) = n
      <4>1. n \in 1..Len(b.runs)
        BY <1>2, <3>1
      <4>2. runs = [b.runs EXCEPT ![n] = [b.runs[n] EXCEPT !.count = @ + 3]]
        BY <3>2
      <4>3. PICK x : x = [b.runs[n] EXCEPT !.count = @ + 3]
        OBVIOUS
      <4> QED BY <1>2, <4>1, <4>2, <4>3, Changed
    <3> QED BY <1>1, <1>2, <3>1, <3>4, <3>5
  <2> QED BY <2>1, <2>2
<1>11. /\ Len(more) = m + 1 /\ \A k \in 1..(m + 1) : IsTaken(more[k])
  <2>1. IsTaken(e)
    BY DEF IsTaken
  <2> HIDE DEF e
  <2>2. Len(more) = m + 1 /\ more[m + 1] = e /\ \A k \in 1..m : more[k] = taken[k]
    BY <1>2, Appended
  <2>3. \A k \in 1..(m + 1) : k = m + 1 \/ k \in 1..m
    BY <1>2
  <2> QED BY <1>1, <2>1, <2>2, <2>3
<1>12. new.runs # <<>>
  <2>1. Listed(runs)
    BY <1>10 DEF RunsFor
  <2> HIDE DEF runs, new
  <2> QED BY <1>5, <1>10, <2>1, ListedLen
<1>13. MeshBatch(new, more)
  <2>1. 3 * m + 3 = 3 * (m + 1)
    BY <1>2
  <2> HIDE DEF runs, new, more, m, vs
  <2> QED BY <1>5, <1>6, <1>9, <1>10, <1>11, <2>1 DEF MeshBatch
<1> HIDE DEF new, more
<1>14. MeshBatch(new, more) /\ new.state = b.state /\ new.runs # <<>>
  BY <1>5, <1>12, <1>13
<1> QED BY <1>14 DEF new, more

-----------------------------------------------------------------------------
(* A mesh: the driver accepts it.                                            *)

\* What the state is asked for colour, and for depth.
ColourBears(st, lim) ==
  /\ ~(st.dstPitch = 0 \/ st.dstWidth > st.dstPitch \/ lim.pitchBytes \div 4 # st.dstPitch)
  /\ Aligned(st.dstPitch, "pitch") /\ Aligned(st.dstorg, "dst")
  /\ Reach(st.dstorg, Word(lim.clipY1 + 1), lim.pitchBytes, lim.colour)
DepthBears(st, lim) ==
  /\ Aligned(st.zorg, "z") /\ Reach(st.zorg, Word(lim.clipY1 + 1), (lim.pitchBytes \div 4) * 2, lim.depth)

\* A state that bears both, and whose texture does, is one the validator takes.
LEMMA StateCommonIs ==
  ASSUME NEW st, NEW mips, NEW lim, NEW deep \in BOOLEAN, NEW textured \in BOOLEAN
  PROVE  StateCommon(st, mips, lim, deep, textured) = "OK" <=>
           /\ ColourBears(st, lim) /\ (deep => DepthBears(st, lim))
           /\ textured => TextureState(st, mips, lim.tex) = "OK"
<1> DEFINE rows == Word(lim.clipY1 + 1)
           tex == TextureState(st, mips, lim.tex)
           a == st.dstPitch = 0 \/ st.dstWidth > st.dstPitch \/ lim.pitchBytes \div 4 # st.dstPitch
           b == ~Aligned(st.dstPitch, "pitch")
           c == ~Aligned(st.dstorg, "dst")
           d == ~Reach(st.dstorg, rows, lim.pitchBytes, lim.colour)
           e == deep /\ ~Aligned(st.zorg, "z")
           f == deep /\ ~Reach(st.zorg, rows, (lim.pitchBytes \div 4) * 2, lim.depth)
           g == textured /\ tex # "OK"
           tests == << <<a, "DSTPITCH">>, <<b, "DSTPITCH">>, <<c, "DSTORGAL">>, <<d, "DSTORG">>,
                       <<e, "ZORGAL">>, <<f, "ZORG">>, <<g, tex>> >>
<1>1. StateCommon(st, mips, lim, deep, textured) = FirstRefusal(tests)
  BY DEF StateCommon
<1>2. /\ ColourBears(st, lim) <=> ~a /\ ~b /\ ~c /\ ~d
      /\ (deep => DepthBears(st, lim)) <=> ~e /\ ~f
      /\ (textured => tex = "OK") <=> ~g
  BY Zenon DEF ColourBears, DepthBears
<1>3. g => tex # "OK"
  OBVIOUS
<1> HIDE DEF rows, tex, a, b, c, d, e, f, g
<1>4. DOMAIN tests = 1..7
  OBVIOUS
<1>5. /\ tests[1][2] # "OK" /\ tests[2][2] # "OK" /\ tests[3][2] # "OK" /\ tests[4][2] # "OK"
      /\ tests[5][2] # "OK" /\ tests[6][2] # "OK" /\ tests[7][2] = tex
  OBVIOUS
<1>6. /\ tests[1][1] <=> a
      /\ tests[2][1] <=> b
      /\ tests[3][1] <=> c
      /\ tests[4][1] <=> d
      /\ tests[5][1] <=> e
      /\ tests[6][1] <=> f
      /\ tests[7][1] <=> g
  BY Zenon
<1> HIDE DEF tests
<1>7. \A i \in 1..7 : tests[i][1] => tests[i][2] # "OK"
  <2>1. tests[7][1] => tests[7][2] # "OK"
    BY <1>3, <1>5, <1>6
  <2>2. \A i \in 1..7 : i = 7 \/ tests[i][2] # "OK"
    BY <1>5
  <2> QED BY <2>1, <2>2
<1>8. (\A i \in 1..7 : ~tests[i][1]) <=> ~a /\ ~b /\ ~c /\ ~d /\ ~e /\ ~f /\ ~g
  BY <1>6
<1>9. FirstRefusal(tests) = "OK" <=> \A i \in 1..7 : ~tests[i][1]
  <2>1. ASSUME FirstRefusal(tests) = "OK" PROVE \A i \in 1..7 : ~tests[i][1]
    BY <1>4, <1>7, <2>1, NoRefusal
  <2>2. ASSUME \A i \in 1..7 : ~tests[i][1] PROVE FirstRefusal(tests) = "OK"
    <3>1. {i \in DOMAIN tests : tests[i][1]} = {}
      BY <1>4, <2>2
    <3> QED BY <3>1, Zenon DEF FirstRefusal
  <2> QED BY <2>1, <2>2
<1> QED BY <1>1, <1>2, <1>8, <1>9 DEF tex

\* Runs in order are runs that follow one another.
LEMMA RunsFollow ==
  ASSUME NEW b, RunsInOrder(b.runs, Len(b.runs), b.vtxCount), NEW r \in 1..Len(b.runs),
         b.runs[r].count % 3 = 0
  PROVE  RunFollows(b, r)
<1> DEFINE n == Len(b.runs)
<1>1. n \in Nat \ {0} /\ r \in Nat
  BY DEF RunsInOrder
<1>2. b.runs[r].first \in Nat /\ b.runs[r].count \in Nat \ {0}
  BY DEF RunsInOrder
<1>3. b.runs[r].first = (IF r = 1 THEN 0 ELSE b.runs[r - 1].first + b.runs[r - 1].count)
  <2>1. CASE r = 1
    BY <2>1 DEF RunsInOrder
  <2>2. CASE r # 1
    <3>1. r - 1 \in 1..n /\ (r - 1) + 1 = r
      BY <1>1, <2>2
    <3>2. \A q \in 1..n : q + 1 \in 1..n => b.runs[q + 1].first = b.runs[q].first + b.runs[q].count
      BY DEF RunsInOrder
    <3>3. b.runs[(r - 1) + 1].first = b.runs[r - 1].first + b.runs[r - 1].count
      BY <3>1, <3>2
    <3> QED BY <2>2, <3>1, <3>3
  <2> QED BY <2>1, <2>2
<1>4. EndOf(b.runs, r) <= b.vtxCount /\ b.vtxCount \in Nat
  BY BeforeTheEnd
<1>5. b.runs[r].count <= b.vtxCount - b.runs[r].first
  BY <1>2, <1>4 DEF EndOf
<1> QED BY <1>2, <1>3, <1>5 DEF RunFollows

\* The driver accepts every batch of a mesh,
LEMMA MeshAccepted ==
  ASSUME NEW b, NEW taken, MeshBatch(b, taken), IsState(b.state), b.runs # <<>>
  PROVE  ValidateWarp(b, Limits(b.state, Window)) = "OK"
<1> DEFINE lim == Limits(b.state, Window)
           n == Len(b.runs)
           m == Len(taken)
<1>1. /\ b.mips = 0 /\ b.vtxCount = 3 * m /\ RunsFor(b.runs, taken, b.state) /\ VtxFor(b.vtx, taken)
      /\ n <= MaxRuns /\ 3 * m <= MaxVertices /\ \A k \in 1..m : IsTaken(taken[k])
  BY DEF MeshBatch
<1>2. Listed(b.runs) /\ n \in Nat \ {0} /\ DOMAIN b.runs = 1..n /\ m \in Nat \ {0}
  BY <1>1, ListedLen DEF RunsFor
<1>3. IsWarp(b)
  BY <1>1, <1>2 DEF IsWarp, Listed
<1>4. n \in 1..MaxRuns /\ b.vtxCount \in 1..MaxVertices /\ b.vtxCount % 3 = 0
  <2>1. MaxRuns \in Nat /\ MaxVertices \in Nat
    BY MeshAssumption
  <2>2. (3 * m) % 3 = 0
    BY <1>2
  <2> QED BY <1>1, <1>2, <2>1, <2>2
<1>5. RunsInOrder(b.runs, n, b.vtxCount)
  BY <1>1, <1>2 DEF RunsFor
<1>6. ASSUME NEW r \in 1..n
      PROVE  /\ RunVerdict(b, r) = "OK" /\ Drawable(b.state, b.runs[r].prim)
  <2>1. Drawable(b.state, b.runs[r].prim)
    BY <1>1 DEF RunsFor, Words
  <2>2. b.runs[r].count % 3 = 0
    <3>1. PICK c \in Nat \ {0} : b.runs[r].count = 3 * c
      BY <1>1 DEF RunsFor, Words
    <3>2. (3 * c) % 3 = 0
      OBVIOUS
    <3> QED BY <3>1, <3>2
  <2>3. RunFollows(b, r)
    BY <1>5, <2>2, RunsFollow
  <2>4. PrimState(b.runs[r].prim) = "OK"
    BY <2>1 DEF Drawable
  <2>5. WarpAdmits(b.state, b.runs[r], b.mips)
    BY <1>1, <2>1 DEF WarpAdmits, Drawable
  <2> QED BY <2>1, <2>3, <2>4, <2>5, RunIs
<1>7. b.mips <= 4 /\ \A l \in 1..b.mips : LevelVerdict(b, l, lim) = "OK"
  BY <1>1
<1>8. EndOf(b.runs, n) = b.vtxCount
  BY <1>5 DEF RunsInOrder, EndOf
<1>9. StateCommon(b.state, b.mips, lim, WarpDeep(b), WarpTextured(b)) = "OK"
  <2> DEFINE Deep(r) == AddressesDepth(b.runs[r].prim)
             Skinned(r) == b.runs[r].prim.opcode = OpTex
  <2> HIDE DEF lim
  <2>1. ASSUME NEW r \in 1..n
        PROVE  /\ ColourBears(b.state, lim) /\ (Deep(r) => DepthBears(b.state, lim))
               /\ Skinned(r) => TextureState(b.state, 0, lim.tex) = "OK"
    <3>1. Deep(r) \in BOOLEAN /\ Skinned(r) \in BOOLEAN
      BY DEF AddressesDepth
    <3>2. StateCommon(b.state, 0, lim, Deep(r), Skinned(r)) = "OK"
      BY <1>6 DEF Drawable, lim
    <3> HIDE DEF Deep, Skinned
    <3> QED BY <3>1, <3>2, StateCommonIs
  <2>2. WarpDeep(b) \in BOOLEAN /\ WarpTextured(b) \in BOOLEAN
    BY DEF WarpDeep, WarpTextured
  <2>3. WarpDeep(b) <=> \E r \in 1..n : Deep(r)
    BY <1>2 DEF WarpDeep
  <2>4. WarpTextured(b) <=> \E r \in 1..n : Skinned(r)
    BY <1>2 DEF WarpTextured
  <2>5. 1 \in 1..n
    BY <1>2
  <2> HIDE DEF Deep, Skinned, n
  <2> QED BY <1>1, <2>1, <2>2, <2>3, <2>4, <2>5, StateCommonIs
<1>10. ASSUME NEW j \in DOMAIN b.vtx PROVE VertexOK(b.vtx[j])
  <2>1. Listed(b.vtx) /\ Len(b.vtx) = 3 * m
    BY <1>1 DEF VtxFor
  <2>2. j \in 1..(3 * m)
    BY <2>1, ListedLen
  <2>3. PICK k \in 1..m, i \in 1..3 : j = 3 * (k - 1) + i
    <3>1. PICK q \in Int : q = (j - 1) \div 3
      BY <2>2
    <3>2. 3 * q <= j - 1 /\ j - 1 < 3 * q + 3
      BY <2>2, <3>1
    <3>3. q + 1 \in 1..m /\ j - 3 * q \in 1..3
      BY <1>2, <2>2, <3>2
    <3>4. j = 3 * ((q + 1) - 1) + (j - 3 * q)
      BY <2>2
    <3> QED BY <3>3, <3>4
  <2>4. b.vtx[j] = taken[k].built[i]
    BY <1>1, <2>3 DEF VtxFor
  <2>5. PICK a : IsAsk(a) /\ Built(a) # <<>> /\ taken[k] = [tri |-> a.tri, prim |-> a.prim, built |-> Built(a)]
    BY <1>1 DEF IsTaken
  <2>6. taken[k].built = Built(a)
    BY <2>5
  <2> QED BY <2>4, <2>5, <2>6, WarpBuiltIs
<1>11. \A r \in DOMAIN b.runs : RunVerdict(b, r) = "OK"
  BY <1>2, <1>6
<1> HIDE DEF lim
<1>12. WarpParts(b, lim)
  BY <1>4, <1>7, <1>8, <1>9, <1>10, <1>11 DEF WarpParts
<1> QED BY <1>3, <1>12, WarpVerdict DEF lim

\* whose vertices are in one run each, under the words of their triangle.
LEMMA MeshDivided ==
  ASSUME MeshBatch(batch, source.taken)
  PROVE  /\ \A i \in 0..(batch.vtxCount - 1) : Cardinality({r \in DOMAIN batch.runs : InRun(r, i)}) = 1
         /\ batch.vtxCount = 3 * Len(source.taken)
         /\ \A k \in DOMAIN source.taken, r \in DOMAIN batch.runs, i \in 1..3 :
              InRun(r, 3 * (k - 1) + i - 1) =>
                /\ batch.runs[r].prim = source.taken[k].prim
                /\ batch.vtx[3 * (k - 1) + i] = source.taken[k].built[i]
<1> DEFINE n == Len(batch.runs)
           m == Len(source.taken)
<1>1. /\ batch.vtxCount = 3 * m /\ RunsFor(batch.runs, source.taken, batch.state)
      /\ VtxFor(batch.vtx, source.taken)
  BY DEF MeshBatch
<1>2. /\ n \in Nat /\ DOMAIN batch.runs = 1..n /\ m \in Nat /\ DOMAIN source.taken = 1..m
      /\ (n = 0 <=> m = 0)
  BY <1>1, ListedLen DEF RunsFor
<1>3. ASSUME NEW r \in 1..n, NEW i PROVE InRun(r, i) <=> WithinRun(batch.runs, r, i)
  <2>1. batch.runs[r].first \in Nat /\ batch.runs[r].count \in Nat
    BY <1>1 DEF RunsFor, Words
  <2>2. batch.runs[r].first + batch.runs[r].count - 1 = EndOf(batch.runs, r) - 1
    BY <2>1 DEF EndOf
  <2> QED BY <2>2 DEF InRun, WithinRun
<1>4. ASSUME NEW i \in 0..(batch.vtxCount - 1)
      PROVE  Cardinality({r \in DOMAIN batch.runs : InRun(r, i)}) = 1
  <2>1. n # 0
    BY <1>1, <1>2
  <2>2. RunsInOrder(batch.runs, n, batch.vtxCount)
    BY <1>1, <2>1 DEF RunsFor
  <2>3. {r \in DOMAIN batch.runs : InRun(r, i)} = {r \in 1..n : WithinRun(batch.runs, r, i)}
    BY <1>2, <1>3
  <2> QED BY <2>2, <2>3, OneRun
<1>5. ASSUME NEW k \in DOMAIN source.taken, NEW r \in DOMAIN batch.runs, NEW i \in 1..3,
             InRun(r, 3 * (k - 1) + i - 1)
      PROVE  /\ batch.runs[r].prim = source.taken[k].prim
             /\ batch.vtx[3 * (k - 1) + i] = source.taken[k].built[i]
  <2>1. k \in 1..m /\ r \in 1..n
    BY <1>2
  <2>2. PICK f \in Nat, c \in Nat \ {0} : batch.runs[r].first = 3 * f /\ batch.runs[r].count = 3 * c
    BY <1>1, <2>1 DEF RunsFor, Words
  <2>3. 3 * (k - 1) + i - 1 \in (3 * f)..(3 * f + 3 * c - 1)
    BY <1>5, <2>2 DEF InRun
  <2>4. 3 * (k - 1) \in (3 * f)..(3 * f + 3 * c - 1)
    BY <1>2, <2>1, <2>3
  <2>5. WithinRun(batch.runs, r, 3 * (k - 1))
    BY <2>2, <2>4 DEF WithinRun, EndOf
  <2> QED BY <1>1, <2>1, <2>5 DEF RunsFor, VtxFor
<1> QED BY <1>1, <1>4, <1>5

-----------------------------------------------------------------------------
(* A mesh: the tier step by step.                                            *)

\* What is known of a mesh, whatever step the tier is at.
Willing(st, s) ==
  /\ Listed(s.left) /\ \A k \in 1..Len(s.left) : IsAsk(s.left[k]) /\ Drawable(st, s.left[k].prim)
  /\ Listed(s.declined) /\ \A k \in 1..Len(s.declined) : IsAsk(s.declined[k])
  /\ s.caps.vtx \in Nat /\ s.caps.runs \in Nat
MeshState ==
  /\ phase \in {"assembling", "submitted", "done"} /\ verdict.is = "OK"
  /\ IsState(batch.state) /\ DestFits(batch.state, Window) = "OK"
  /\ Willing(batch.state, source) /\ MeshBatch(batch, source.taken)
  /\ phase = "submitted" => batch.runs # <<>>
MeshInv ==
  /\ phase = "idle" => verdict.is = "OK"
  /\ source.kind = "mesh" => MeshState

\* A mesh just asked for is one of those declared,
LEMMA MeshAsked ==
  ASSUME MeshInv, phase = "idle", AskForMesh
  PROVE  MeshInv'
<1>1. PICK f \in Meshes : \E st \in f.states, caps \in f.caps, job \in f.jobs : AskMesh(st, caps, job)
  BY DEF AskForMesh
<1>2. PICK st \in f.states, caps \in f.caps, job \in f.jobs : AskMesh(st, caps, job)
  BY <1>1
<1>3. /\ caps.vtx \in Nat /\ caps.runs \in Nat
      /\ IsState(st) /\ DestFits(st, Window) = "OK" /\ job \in Seq(Range(job))
      /\ \A k \in DOMAIN job : IsAsk(job[k]) /\ Drawable(st, job[k].prim)
  BY MeshAssumption
<1>4. /\ phase' = "assembling" /\ batch' = EmptyWarp(st) /\ UNCHANGED verdict
      /\ source' = [kind |-> "mesh", caps |-> caps, left |-> job, taken |-> <<>>, declined |-> <<>>]
  BY <1>2 DEF AskMesh
<1>5. MeshBatch(batch', <<>>) /\ batch'.state = st
  BY <1>4, NothingTaken
<1>6. /\ source'.kind = "mesh" /\ source'.caps = caps /\ source'.left = job
      /\ source'.taken = <<>> /\ source'.declined = <<>>
  BY <1>4
<1>7. Listed(<<>>) /\ Len(<<>>) = 0
  BY EmptySeq, ListedIs
<1>8. Listed(job) /\ DOMAIN job = 1..Len(job)
  BY <1>3, ListedLen DEF Listed
<1>9. Willing(st, source')
  BY <1>3, <1>6, <1>7, <1>8 DEF Willing
<1>10. MeshState'
  BY <1>3, <1>4, <1>5, <1>6, <1>9 DEF MeshState, MeshInv
<1> QED BY <1>4, <1>10 DEF MeshInv

\* a triangle more is declined, waits, or is taken,
LEMMA MeshAdds ==
  ASSUME Inv, MeshInv, AddTriangle
  PROVE  MeshInv'
<1>1. /\ phase = "assembling" /\ source.left # <<>> /\ UNCHANGED verdict
      /\ source.kind = "mesh" /\ MeshState
  <2>1. phase = "assembling" /\ source.left # <<>> /\ UNCHANGED verdict
    BY DEF AddTriangle
  <2>2. source.kind = "mesh"
    BY <2>1 DEF Inv, Sources, MeshSource
  <2> QED BY <2>1, <2>2 DEF MeshInv
<1>2. PICK c, l, d, g :
        source = [kind |-> "mesh", caps |-> c, left |-> l, taken |-> d, declined |-> g]
  BY <1>1 DEF Inv, Sources, MeshSource
<1> DEFINE st == batch.state
           t == Head(source.left)
           empty == batch.runs = <<>>
           full == WarpFull(batch, t.prim, source.caps)
           declines == Built(t) = <<>> \/ (full /\ empty)
           entry == [tri |-> t.tri, prim |-> t.prim, built |-> Built(t)]
           taken == Append(source.taken, entry)
<1>3. /\ phase' = IF ~empty /\ (declines \/ full) THEN "submitted" ELSE phase
      /\ batch' = IF declines \/ full THEN batch ELSE WarpAdd(batch, t.prim, Built(t))
      /\ source' = IF declines
                   THEN [source EXCEPT !.left = Tail(@), !.declined = Append(@, t)]
                   ELSE IF full THEN source
                   ELSE [source EXCEPT !.left = Tail(@), !.taken = taken]
  BY DEF AddTriangle, Built
<1>4. Willing(st, source) /\ MeshBatch(batch, source.taken) /\ IsState(st) /\ DestFits(st, Window) = "OK"
      /\ verdict.is = "OK"
  BY <1>1 DEF MeshState
<1>5. /\ IsAsk(t) /\ Drawable(st, t.prim)
      /\ Listed(Tail(source.left))
      /\ \A k \in 1..Len(Tail(source.left)) :
           IsAsk(Tail(source.left)[k]) /\ Drawable(st, Tail(source.left)[k].prim)
  <2>1. Listed(source.left) /\ \A k \in 1..Len(source.left) : IsAsk(source.left[k]) /\ Drawable(st, source.left[k].prim)
    BY <1>4 DEF Willing
  <2>2. /\ Listed(Tail(source.left)) /\ Len(source.left) \in Nat \ {0} /\ t = source.left[1]
        /\ \A i \in 1..Len(Tail(source.left)) :
             Tail(source.left)[i] = source.left[i + 1] /\ i + 1 \in 1..Len(source.left)
    BY <1>1, <2>1, Dropped
  <2>3. 1 \in 1..Len(source.left)
    BY <2>2
  <2> HIDE DEF st, t
  <2> QED BY <2>1, <2>2, <2>3
<1>6. CASE declines
  <2>1. /\ batch' = batch /\ source'.kind = "mesh" /\ source'.caps = source.caps
        /\ source'.left = Tail(source.left) /\ source'.taken = source.taken
        /\ source'.declined = Append(source.declined, t)
    <3>1. source' = [source EXCEPT !.left = Tail(@), !.declined = Append(@, t)] /\ batch' = batch
      BY <1>3, <1>6
    <3> HIDE DEF t
    <3> QED BY <1>2, <3>1
  <2>2. Listed(Append(source.declined, t))
        /\ \A k \in 1..Len(Append(source.declined, t)) : IsAsk(Append(source.declined, t)[k])
    <3>1. Listed(source.declined) /\ \A k \in 1..Len(source.declined) : IsAsk(source.declined[k])
      BY <1>4 DEF Willing
    <3> HIDE DEF t
    <3>2. /\ Listed(Append(source.declined, t)) /\ Len(Append(source.declined, t)) = Len(source.declined) + 1
          /\ Len(source.declined) \in Nat
          /\ \A i \in 1..Len(source.declined) : Append(source.declined, t)[i] = source.declined[i]
          /\ Append(source.declined, t)[Len(source.declined) + 1] = t
      BY <3>1, Appended
    <3>3. \A k \in 1..(Len(source.declined) + 1) : k = Len(source.declined) + 1 \/ k \in 1..Len(source.declined)
      BY <3>2
    <3> QED BY <1>5, <3>1, <3>2, <3>3
  <2>3. Willing(st, source')
    <3> HIDE DEF t, st
    <3> QED BY <1>4, <1>5, <2>1, <2>2 DEF Willing
  <2>4. phase' \in {"assembling", "submitted"} /\ (phase' = "submitted" => batch.runs # <<>>)
    BY <1>1, <1>3, <1>6
  <2>5. MeshState'
    BY <1>1, <1>4, <2>1, <2>3, <2>4 DEF MeshState
  <2> QED BY <2>4, <2>5 DEF MeshInv
<1>7. CASE ~declines /\ full
  <2>1. UNCHANGED <<batch, source>> /\ phase' = "submitted" /\ batch.runs # <<>>
    BY <1>3, <1>7
  <2>2. MeshState'
    BY <1>1, <1>4, <2>1 DEF MeshState
  <2> QED BY <2>1, <2>2 DEF MeshInv
<1>8. CASE ~declines /\ ~full
  <2>1. /\ batch' = WarpAdd(batch, t.prim, Built(t)) /\ source'.kind = "mesh" /\ source'.caps = source.caps
        /\ source'.left = Tail(source.left) /\ source'.taken = taken
        /\ source'.declined = source.declined /\ phase' = phase
    <3>1. source' = [source EXCEPT !.left = Tail(@), !.taken = taken]
          /\ batch' = WarpAdd(batch, t.prim, Built(t)) /\ phase' = phase
      BY <1>3, <1>8
    <3> HIDE DEF t, taken
    <3> QED BY <1>2, <3>1
  <2>2. MeshBatch(batch', taken) /\ batch'.state = st /\ batch'.runs # <<>>
    <3>1. ~WarpFull(batch, t.prim, source.caps) /\ Built(t) # <<>> /\ source.caps.vtx \in Nat /\ source.caps.runs \in Nat
      BY <1>4, <1>8 DEF Willing
    <3> HIDE DEF t
    <3> QED BY <1>4, <1>5, <2>1, <3>1, TriangleAdded
  <2>3. Willing(st, source')
    <3> HIDE DEF t, st, taken
    <3> QED BY <1>4, <1>5, <2>1 DEF Willing
  <2>4. MeshState'
    <3> HIDE DEF t, taken
    <3> QED BY <1>1, <1>4, <2>1, <2>2, <2>3 DEF MeshState
  <2> QED BY <1>1, <2>1, <2>4 DEF MeshInv
<1> QED BY <1>6, <1>7, <1>8

\* what is submitted is accepted,
LEMMA MeshSubmitted ==
  ASSUME MeshInv, SubmitWarp
  PROVE  MeshInv'
<1>1. UNCHANGED <<source, batch>> /\ phase' = "done" /\ phase = "submitted"
  BY DEF SubmitWarp
<1>2. ASSUME source.kind = "mesh" PROVE MeshState'
  <2>1. MeshState
    BY <1>2 DEF MeshInv
  <2>2. verdict'.is = "OK"
    <3>1. ValidateWarp(batch, Limits(batch.state, Window)) = "OK"
      BY <1>1, <2>1, MeshAccepted DEF MeshState
    <3>2. Destination(batch.state, TRUE) = "OK"
      BY <2>1 DEF Destination, MeshState
    <3> QED BY <3>1, <3>2 DEF SubmitWarp
  <2> QED BY <1>1, <2>1, <2>2 DEF MeshState
<1> QED BY <1>1, <1>2 DEF MeshInv

\* and more of a mesh begins afresh.
LEMMA MeshContinued ==
  ASSUME Inv, MeshInv, Continue
  PROVE  MeshInv'
<1>1. /\ source.kind = "mesh" /\ phase' = "assembling" /\ batch' = EmptyWarp(batch.state)
      /\ source' = [source EXCEPT !.taken = <<>>, !.declined = <<>>] /\ verdict' = NoVerdict
  BY DEF Continue
<1>2. PICK c, l, d, g :
        source = [kind |-> "mesh", caps |-> c, left |-> l, taken |-> d, declined |-> g]
  BY <1>1 DEF Inv, Sources, MeshSource
<1>3. /\ source'.kind = "mesh" /\ source'.caps = source.caps /\ source'.left = source.left
      /\ source'.taken = <<>> /\ source'.declined = <<>>
  BY <1>1, <1>2
<1>4. MeshBatch(batch', <<>>) /\ batch'.state = batch.state
  BY <1>1, NothingTaken
<1>5. MeshState
  BY <1>1 DEF MeshInv
<1>6. Listed(<<>>) /\ Len(<<>>) = 0
  BY EmptySeq, ListedIs
<1>7. Willing(batch.state, source')
  BY <1>3, <1>5, <1>6 DEF MeshState, Willing
<1>8. verdict'.is = "OK"
  BY <1>1 DEF NoVerdict
<1>9. MeshState'
  BY <1>1, <1>3, <1>4, <1>5, <1>7, <1>8 DEF MeshState
<1> QED BY <1>1, <1>9 DEF MeshInv

\* All of this at every step.
LEMMA MeshInvariance == Spec => [](Inv /\ WarpInv /\ MeshInv)
<1>1. Init => MeshInv
  BY DEF Init, MeshInv, NoSource, NoVerdict
<1>2. Inv /\ MeshInv /\ [Next]_vars => MeshInv'
  <2> SUFFICES ASSUME Inv, MeshInv, [Next]_vars PROVE MeshInv'
    OBVIOUS
  <2>1. CASE UNCHANGED vars
    <3>1. UNCHANGED <<phase, source, batch, verdict>>
      BY <2>1 DEF vars
    <3> QED BY <3>1 DEF MeshInv, MeshState
  <2>2. CASE phase = "idle" /\ AskForTriangle
    <3>1. source'.kind = "triangle" /\ phase' # "idle"
      BY <2>2 DEF AskForTriangle, AskTriangle
    <3> QED BY <3>1 DEF MeshInv
  <2>3. CASE phase = "idle" /\ (AskForBatch \/ AskForWarp)
    <3>1. source'.kind # "mesh" /\ phase' # "idle"
      BY <2>3 DEF AskForBatch, AskBatch, AskForWarp, AskWarp
    <3> QED BY <3>1 DEF MeshInv
  <2>4. CASE EndMesh
    <3>1. /\ phase = "assembling" /\ UNCHANGED <<source, batch, verdict>>
          /\ phase' \in {"done", "submitted"} /\ (phase' = "submitted" => batch.runs # <<>>)
      BY <2>4 DEF EndMesh
    <3> QED BY <3>1 DEF MeshInv, MeshState
  <2>5. CASE Return
    BY <2>5 DEF Return, MeshInv, NoSource, NoVerdict
  <2>6. CASE Prevalidate \/ Submit \/ Row
    <3>1. UNCHANGED source /\ phase' # "idle" /\ source.kind # "mesh"
      BY <2>6 DEF Prevalidate, Submit, Row, MeshInv, MeshState
    <3> QED BY <3>1 DEF MeshInv
  <2> QED BY <2>1, <2>2, <2>3, <2>4, <2>5, <2>6, MeshAsked, MeshAdds, MeshSubmitted, MeshContinued
          DEF Next, Ask
<1> QED BY <1>1, <1>2, WarpInvariance, PTL DEF Spec

\* The runs of an accepted WARP batch are in order.
LEMMA WarpDivided ==
  ASSUME NEW b, IsWarp(b), WarpTyped(b), NEW lim, WarpParts(b, lim)
  PROVE  RunsInOrder(b.runs, Len(b.runs), b.vtxCount)
<1> DEFINE n == Len(b.runs)
<1>1. n \in Nat \ {0} /\ DOMAIN b.runs = 1..n
  <2>1. n \in Nat /\ n \in 1..MaxRuns /\ DOMAIN b.runs = 1..n
    BY LenProperties DEF IsWarp, WarpParts
  <2> QED BY <2>1
<1>2. \A r \in 1..n : RunFollows(b, r)
  BY <1>1, RunIs DEF WarpParts
<1>3. \A r \in 1..n : b.runs[r].first \in Nat /\ b.runs[r].count \in Nat \ {0}
  BY <1>1, <1>2 DEF WarpTyped, RunFollows
<1>4. b.runs[1].first = 0
  BY <1>1, <1>2 DEF RunFollows
<1>5. ASSUME NEW r \in 1..n, r + 1 \in 1..n
      PROVE  b.runs[r + 1].first = b.runs[r].first + b.runs[r].count
  <2>1. RunFollows(b, r + 1)
    BY <1>2, <1>5
  <2>2. r + 1 # 1 /\ (r + 1) - 1 = r
    BY <1>1
  <2>3. b.runs[r + 1].first = (IF r + 1 = 1 THEN 0 ELSE b.runs[(r + 1) - 1].first + b.runs[(r + 1) - 1].count)
    BY <2>1 DEF RunFollows
  <2> QED BY <2>2, <2>3
<1>6. b.runs[n].first + b.runs[n].count = b.vtxCount
  BY DEF WarpParts, EndOf
<1> QED BY <1>1, <1>3, <1>4, <1>5, <1>6 DEF RunsInOrder

\* So each of its vertices is in one run.
LEMMA WarpVerticesInRuns ==
  ASSUME WarpInv, WarpAccepted
  PROVE  \A i \in 0..(batch.vtxCount - 1) : Cardinality({r \in DOMAIN batch.runs : InRun(r, i)}) = 1
<1> DEFINE n == Len(batch.runs)
<1>1. /\ IsWarp(batch) /\ WarpTyped(batch) /\ WarpParts(batch, Limits(batch.state, Window))
  BY DEF WarpInv, WarpAccepted
<1>2. RunsInOrder(batch.runs, n, batch.vtxCount)
  BY <1>1, WarpDivided
<1>3. DOMAIN batch.runs = 1..n
  BY <1>1, LenProperties DEF IsWarp
<1>4. ASSUME NEW r \in 1..n, NEW i PROVE InRun(r, i) <=> WithinRun(batch.runs, r, i)
  <2>1. batch.runs[r].first \in Nat /\ batch.runs[r].count \in Nat
    BY <1>2 DEF RunsInOrder
  <2>2. batch.runs[r].first + batch.runs[r].count - 1 = EndOf(batch.runs, r) - 1
    BY <2>1 DEF EndOf
  <2> QED BY <2>2 DEF InRun, WithinRun
<1>5. ASSUME NEW i \in 0..(batch.vtxCount - 1)
      PROVE  Cardinality({r \in DOMAIN batch.runs : InRun(r, i)}) = 1
  <2>1. {r \in DOMAIN batch.runs : InRun(r, i)} = {r \in 1..n : WithinRun(batch.runs, r, i)}
    BY <1>3, <1>4
  <2> QED BY <1>2, <2>1, OneRun
<1> QED BY <1>5

\* The weights a triangle was given stay in the ratio of its corners' own, to the last bit.
LEMMA WeightsHold ==
  ASSUME MeshInv
  PROVE  WeightsStandAsGiven
<1>1. SUFFICES ASSUME source.kind = "mesh" PROVE WeightsStandAsGiven
  BY DEF WeightsStandAsGiven
<1>2. MeshBatch(batch, source.taken) /\ Willing(batch.state, source)
  BY <1>1 DEF MeshInv, MeshState
<1>3. ASSUME NEW k \in DOMAIN source.taken, NEW i \in 1..3, NEW j \in 1..3
      PROVE  LET p == Value(source.taken[k].built[i].rhw) * (source.taken[k].tri[j].qw * source.taken[k].tri[j].tq)
                 q == Value(source.taken[k].built[j].rhw) * (source.taken[k].tri[i].qw * source.taken[k].tri[i].tq)
             IN  2^(ManBits + 1) * Abs(p - q) <= p + q
  <2>1. k \in 1..Len(source.taken)
    BY <1>2, ListedLen DEF MeshBatch, RunsFor
  <2>2. PICK a : /\ IsAsk(a) /\ Built(a) # <<>>
                 /\ source.taken[k] = [tri |-> a.tri, prim |-> a.prim, built |-> Built(a)]
    BY <1>2, <2>1 DEF MeshBatch, IsTaken
  <2>3. source.taken[k].tri = a.tri /\ source.taken[k].built = Built(a)
    BY <2>2
  <2>4. LET p == Value(Built(a)[i].rhw) * WeightOf(a.tri, j)
            q == Value(Built(a)[j].rhw) * WeightOf(a.tri, i)
        IN  2^(ManBits + 1) * Abs(p - q) <= p + q
    BY <2>2, TakenWeights
  <2> QED BY <2>3, <2>4 DEF WeightOf
<1>4. ASSUME NEW k \in DOMAIN source.declined, Sane(source.declined[k]),
             BuildWarp(source.declined[k].tri, source.declined[k].prim, source.declined[k].offset) = <<>>,
             NEW n \in -SlideMax..SlideMax
      PROVE  ~Fits(source.declined[k], n)
  <2>1. k \in 1..Len(source.declined) /\ IsAsk(source.declined[k])
    BY <1>2, ListedLen DEF Willing
  <2>2. n \in Int
    BY SlideAssumption
  <2> QED BY <1>4, <2>1, <2>2, SaneIsBuilt
<1> QED BY <1>3, <1>4, Zenon DEF WeightsStandAsGiven, Fits

\* However a mesh is given, in one batch or in several, what the driver is handed draws it: the
\* runs OSMGAMesaWarpAdd opened and lengthened hold every vertex of every triangle taken once,
\* in the order given and under that triangle's own words; osmgaHW3DValidateWarp accepts each
\* batch; the three weights OSMGAMesaBuildWarpVertex slid keep the ratios the corners had to
\* the last bit; and osmgaMesaWarpTriangle builds every sane triangle whose three weights any
\* one power of two brings into the window.
THEOREM MeshIsDrawnAsGivenAlways == Spec => []MeshIsDrawnAsGiven
<1>1. ASSUME WarpInv, MeshInv PROVE MeshIsDrawnAsGiven
  <2>1. ASSUME phase = "done", source.kind = "mesh" PROVE verdict.is = "OK" /\ RunsPartition
    <3>1. verdict.is = "OK" /\ MeshBatch(batch, source.taken)
      BY <1>1, <2>1 DEF MeshInv, MeshState
    <3> QED BY <3>1, MeshDivided DEF RunsPartition
  <2>2. ASSUME phase = "done", source.kind = "warp", verdict.is = "OK" PROVE RunsPartition
    <3>1. WarpAccepted /\ source.kind # "mesh"
      BY <2>2 DEF WarpAccepted
    <3> QED BY <1>1, <3>1, WarpVerticesInRuns DEF RunsPartition
  <2>3. RunsPartition
    <3>1. CASE phase = "done" /\ source.kind \in {"warp", "mesh"} /\ verdict.is = "OK"
      BY <2>1, <2>2, <3>1
    <3>2. CASE ~(phase = "done" /\ source.kind \in {"warp", "mesh"} /\ verdict.is = "OK")
      BY <3>2 DEF RunsPartition
    <3> QED BY <3>1, <3>2
  <2> QED BY <1>1, <2>1, <2>3, WeightsHold DEF MeshIsDrawnAsGiven, RunsHoldTheirSources
<1> QED BY <1>1, MeshInvariance, PTL

-----------------------------------------------------------------------------
(* From GL's state to the engine's words: what MesaState promises.           *)

\* What the gate lets through.
LEMMA Gated ==
  ASSUME NEW g, ChooseTriangle(g)
  PROVE  /\ g.blend.on => BlendGate(g.blend)
         /\ g.depth.on => DepthGate(g.depth)
         /\ g.texture.on => TexStateOK(g.texture)
         /\ g.alpha.on => AlphaGate(g.alpha)
BY DEF ChooseTriangle

\* The primitive's words, one by one.
LEMMA PrimIs ==
  ASSUME NEW g, NEW prim, prim = WordsOf(g).prim
  PROVE  /\ prim.opcode = (IF g.texture.on THEN OpTex ELSE OpTrap)
         /\ prim.ac = Alphactrl(g)
         /\ prim.atype = (IF Zmode(g.depth) # ZmodeNone /\ g.depth.mask THEN AtypeZI ELSE AtypeI)
         /\ prim.zmode = (IF Zmode(g.depth) = ZmodeNone THEN ZmodeNoZcmp ELSE Zmode(g.depth))
BY DEF WordsOf, Dwgctl
-----------------------------------------------------------------------------
(* Fragments.                                                                *)

\* The stage's colour and alpha are GL's, with a texture and without.
LEMMA StageAgrees ==
  ASSUME NEW g, NEW f, ChooseTriangle(g), NEW w, w = WordsOf(g)
  PROVE  EngineStage(w, f) = GLStage(g.texture, f)
<1>1. PICK t : t = g.texture
  OBVIOUS
<1>2. (w.prim.opcode = OpTex) = (t.on = TRUE)
  BY <1>1, PrimIs DEF OpTex, OpTrap
<1>3. CASE ~t.on
  BY <1>1, <1>2, <1>3 DEF EngineStage, GLStage
<1>4. CASE t.on
  <2>1. w.flags = TexFlags(t)
    BY <1>1, <1>4 DEF WordsOf
  <2>2. t.env \in {"REPLACE", "MODULATE"} /\ t.format \in {"RGB", "RGBA"}
    BY <1>1, <1>4, Gated DEF TexStateOK, ImageGate
  <2>3. ("MODULATE" \in w.flags <=> t.env = "MODULATE") /\ ("TEXALPHA" \in w.flags <=> t.format = "RGBA")
    BY <2>1 DEF TexFlags
  <2> QED
    BY <1>1, <1>2, <1>4, <2>2, <2>3 DEF EngineStage, GLStage, TexDualStage
<1> QED
  BY <1>3, <1>4

\* The alpha that the tests and the factors look at is the stage's.
LEMMA AlphaIs ==
  ASSUME NEW g, NEW f, ChooseTriangle(g), NEW w, w = WordsOf(g)
  PROVE  (IF w.prim.ac.sel = "texture" THEN EngineStage(w, f).a ELSE f.a * Full)
           = EngineStage(w, f).a
<1>1. w.prim.ac = Selected(Tested(Blended(g.blend), g.alpha), g)
  BY PrimIs DEF Alphactrl
<1>2. CASE g.texture.on
  <2>1. w.prim.ac.sel = "texture"
    BY <1>1, <1>2 DEF Selected, Tested, Blended, BlendOpaque, BlendOver
  <2> QED
    BY <2>1
<1>3. CASE ~g.texture.on
  <2>1. EngineStage(w, f).a = f.a * Full
    BY <1>3, StageAgrees DEF GLStage
  <2> QED
    BY <2>1
<1> QED
  BY <1>2, <1>3

\* What each step of the translation leaves in the alpha word.
LEMMA AlphaWords ==
  ASSUME NEW g, NEW ac, ac = Alphactrl(g)
  PROVE  /\ ac.src = Blended(g.blend).src /\ ac.dst = Blended(g.blend).dst
         /\ ac.mode = 1 /\ ac.stipple = FALSE
         /\ ac.test = Tested(BlendOpaque, g.alpha).test /\ ac.ref = Tested(BlendOpaque, g.alpha).ref
BY DEF Alphactrl, Selected, Tested, Blended, BlendOpaque, BlendOver

\* The alpha test's code compares as GL's function does; "always" is a test that is off.
LEMMA TestAgrees ==
  ASSUME NEW g, ChooseTriangle(g), NEW ac, ac = Alphactrl(g), NEW v
  PROVE  EngineCompares(ac.test, v, ac.ref * Full)
           <=> (g.alpha.on => Holds(g.alpha.func, v, g.alpha.ref * Full))
<1>1. ac.test = Tested(BlendOpaque, g.alpha).test /\ ac.ref = Tested(BlendOpaque, g.alpha).ref
  BY AlphaWords
<1>2. CASE g.alpha.on /\ g.alpha.func # "ALWAYS"
  <2>1. g.alpha.func \in {"LESS", "LEQUAL", "GREATER", "GEQUAL", "EQUAL", "NOTEQUAL"}
    BY <1>2, Gated DEF AlphaGate, Compares
  <2>2. ac.test = TestCode[g.alpha.func] /\ ac.ref = g.alpha.ref
    BY <1>1, <1>2 DEF Tested, BlendOpaque
  <2>3. ac.test \in 2..7 /\ CompareName[ac.test] = g.alpha.func
    BY <2>1, <2>2 DEF TestCode, CompareName
  <2> QED
    BY <1>2, <2>2, <2>3 DEF EngineCompares
<1>3. CASE g.alpha.on /\ g.alpha.func = "ALWAYS"
  BY <1>1, <1>3 DEF Tested, BlendOpaque, EngineCompares, Holds
<1>4. CASE ~g.alpha.on
  BY <1>1, <1>4 DEF Tested, BlendOpaque, EngineCompares
<1> QED
  BY <1>2, <1>3, <1>4

\* The access type and the comparison test and write depth as GL's depth state says.
LEMMA DepthAgrees ==
  ASSUME NEW g, ChooseTriangle(g), NEW prim, prim = WordsOf(g).prim, NEW a, NEW b
  PROVE  /\ (AddressesDepth(prim) => EngineCompares(prim.zmode, a, b))
              <=> (g.depth.on => Holds(g.depth.func, a, b))
         /\ prim.atype = AtypeZI <=> (g.depth.on /\ g.depth.mask)
<1>1. CASE g.depth.on
  <2>1. g.depth.func \in Compares /\ g.depth.bits = 16
    BY <1>1, Gated DEF DepthGate
  <2>2. Zmode(g.depth) = ZmodeCode[g.depth.func]
    BY <1>1, <2>1 DEF Zmode
  <2>3. PICK code : code = ZmodeCode[g.depth.func]
    OBVIOUS
  <2>4. code \in {0, 2, 3, 4, 5, 6, 7} /\ (code = 0 <=> g.depth.func = "ALWAYS")
    BY <2>1, <2>3 DEF ZmodeCode, ZmodeNoZcmp, Compares
  <2>5. code # 0 => CompareName[code] = g.depth.func
    BY <2>1, <2>3 DEF ZmodeCode, ZmodeNoZcmp, Compares, CompareName
  <2>6. prim.zmode = code /\ prim.atype = (IF g.depth.mask THEN AtypeZI ELSE AtypeI)
    BY <2>2, <2>3, <2>4, PrimIs DEF ZmodeNone
  <2>7. prim.atype = AtypeZI <=> g.depth.mask
    BY <2>6 DEF AtypeZI, AtypeI
  <2>8. AddressesDepth(prim) <=> (g.depth.mask \/ code # 0)
    BY <2>6, <2>7 DEF AddressesDepth, AtypeZI, AtypeI, ZmodeNoZcmp
  <2>9. CASE code = 0
    BY <1>1, <2>4, <2>6, <2>7, <2>8, <2>9 DEF EngineCompares, Holds
  <2>10. CASE code # 0
    BY <1>1, <2>5, <2>6, <2>7, <2>8, <2>10 DEF EngineCompares
  <2> QED
    BY <2>9, <2>10
<1>2. CASE ~g.depth.on
  <2>1. Zmode(g.depth) = ZmodeNone
    BY <1>2 DEF Zmode
  <2>2. prim.atype = AtypeI /\ prim.zmode = ZmodeNoZcmp
    BY <2>1, PrimIs
  <2> QED
    BY <1>2, <2>2 DEF AddressesDepth, AtypeI, AtypeZI
<1> QED
  BY <1>1, <1>2

\* The factors: each code is what its name says of a colour or an alpha.
LEMMA FactorIs ==
  ASSUME NEW alpha, NEW other, NEW f
  PROVE  /\ EngineFactor(0, alpha, other, f) = 0
         /\ EngineFactor(1, alpha, other, f) = Unit
         /\ EngineFactor(2, alpha, other, f) = other
         /\ EngineFactor(3, alpha, other, f) = Unit - other
         /\ EngineFactor(4, alpha, other, f) = alpha
         /\ EngineFactor(5, alpha, other, f) = Unit - alpha
         /\ EngineFactor(6, alpha, other, f) = f.da * Full
         /\ EngineFactor(7, alpha, other, f) = Unit - f.da * Full
BY DEF EngineFactor

\* A source factor's code is the factor GL names.
LEMMA SourceAgrees ==
  ASSUME NEW name \in SrcFactors, NEW s, NEW f
  PROVE  /\ EngineFactor(SrcCode[name], s.a, f.dc * Full, f) = GLFactor(name, s, f).c
         /\ EngineFactor(SrcCode[name], s.a, f.da * Full, f) = GLFactor(name, s, f).a
<1> DEFINE Right(x) == EngineFactor(SrcCode[x], s.a, f.dc * Full, f) = GLFactor(x, s, f).c
                       /\ EngineFactor(SrcCode[x], s.a, f.da * Full, f) = GLFactor(x, s, f).a
<1>1. Right("ZERO") /\ Right("ONE") /\ Right("DST_COLOR") /\ Right("ONE_MINUS_DST_COLOR")
  BY FactorIs DEF SrcCode, GLFactor, BfZero, BfOne
<1>2. Right("SRC_ALPHA") /\ Right("ONE_MINUS_SRC_ALPHA") /\ Right("DST_ALPHA") /\ Right("ONE_MINUS_DST_ALPHA")
  BY FactorIs DEF SrcCode, GLFactor, BfSrcA, BfOneMinusSrcA
<1> QED
  <2> HIDE DEF Right
  <2>1. Right(name)
    BY <1>1, <1>2 DEF SrcFactors
  <2> QED
    BY <2>1 DEF Right

\* A destination factor's code is the factor GL names.
LEMMA DestinationAgrees ==
  ASSUME NEW name \in DstFactors, NEW s, NEW f
  PROVE  /\ EngineFactor(DstCode[name], s.a, s.c, f) = GLFactor(name, s, f).c
         /\ EngineFactor(DstCode[name], s.a, s.a, f) = GLFactor(name, s, f).a
<1> DEFINE Right(x) == EngineFactor(DstCode[x], s.a, s.c, f) = GLFactor(x, s, f).c
                       /\ EngineFactor(DstCode[x], s.a, s.a, f) = GLFactor(x, s, f).a
<1>1. Right("ZERO") /\ Right("ONE") /\ Right("SRC_COLOR") /\ Right("ONE_MINUS_SRC_COLOR")
  BY FactorIs DEF DstCode, GLFactor, BfZero, BfOne
<1>2. Right("SRC_ALPHA") /\ Right("ONE_MINUS_SRC_ALPHA") /\ Right("DST_ALPHA") /\ Right("ONE_MINUS_DST_ALPHA")
  BY FactorIs DEF DstCode, GLFactor, BfSrcA, BfOneMinusSrcA
<1> QED
  <2> HIDE DEF Right
  <2>1. Right(name)
    BY <1>1, <1>2 DEF DstFactors
  <2> QED
    BY <2>1 DEF Right

\* Both, and no blending at all is one times the source and nothing of what is stored.
LEMMA FactorsAgree ==
  ASSUME NEW g, NEW f, ChooseTriangle(g), NEW ac, ac = Alphactrl(g), NEW s
  PROVE  /\ EngineFactor(ac.src, s.a, f.dc * Full, f)
              = (IF g.blend.on THEN GLFactor(g.blend.src, s, f).c ELSE Unit)
         /\ EngineFactor(ac.dst, s.a, s.c, f)
              = (IF g.blend.on THEN GLFactor(g.blend.dst, s, f).c ELSE 0)
         /\ EngineFactor(ac.src, s.a, f.da * Full, f)
              = (IF g.blend.on THEN GLFactor(g.blend.srcA, s, f).a ELSE Unit)
         /\ EngineFactor(ac.dst, s.a, s.a, f)
              = (IF g.blend.on THEN GLFactor(g.blend.dstA, s, f).a ELSE 0)
<1>1. ac.src = Blended(g.blend).src /\ ac.dst = Blended(g.blend).dst
  BY AlphaWords
<1>2. CASE g.blend.on
  <2>1. /\ g.blend.src \in SrcFactors /\ g.blend.dst \in DstFactors
        /\ g.blend.srcA = g.blend.src /\ g.blend.dstA = g.blend.dst
    BY <1>2, Gated DEF BlendGate
  <2>2. ac.src = SrcCode[g.blend.src] /\ ac.dst = DstCode[g.blend.dst]
    BY <1>1, <1>2 DEF Blended, BlendOver, BlendOpaque
  <2> QED
    BY <1>2, <2>1, <2>2, SourceAgrees, DestinationAgrees
<1>3. CASE ~g.blend.on
  <2>1. ac.src = 1 /\ ac.dst = 0
    BY <1>1, <1>3 DEF Blended, BlendOpaque, BfOne, BfZero
  <2> QED
    BY <1>3, <2>1, FactorIs
<1> QED
  BY <1>2, <1>3

\* The words of an admitted state make of any fragment what GL makes of it.
LEMMA FragmentIs ==
  ASSUME NEW g, NEW f, ChooseTriangle(g), NEW w, w = WordsOf(g)
  PROVE  EngineFragment(w, f) = GLFragment(g, f)
<1>1. PICK s, ac, prim : s = GLStage(g.texture, f) /\ ac = Alphactrl(g) /\ prim = w.prim
  OBVIOUS
<1>2. EngineStage(w, f) = s /\ prim.ac = ac
  BY <1>1, StageAgrees, PrimIs
<1>3. (IF ac.sel = "texture" THEN s.a ELSE f.a * Full) = s.a
  BY <1>1, <1>2, AlphaIs
<1> DEFINE passes == /\ g.alpha.on => Holds(g.alpha.func, s.a, g.alpha.ref * Full)
                     /\ g.depth.on => Holds(g.depth.func, f.z, f.dz)
           Blend(v, d) == Saturated(v * EngineFactor(ac.src, s.a, d, f) + d * EngineFactor(ac.dst, s.a, v, f))
           lost == [z |-> f.dz, c |-> f.dc * Full * Unit, a |-> f.da * Full * Unit]
<1>4. (/\ EngineCompares(ac.test, s.a, ac.ref * Full)
       /\ AddressesDepth(prim) => EngineCompares(prim.zmode, f.z, f.dz)) <=> passes
  <2>1. EngineCompares(ac.test, s.a, ac.ref * Full)
          <=> (g.alpha.on => Holds(g.alpha.func, s.a, g.alpha.ref * Full))
    BY <1>1, TestAgrees
  <2>2. (AddressesDepth(prim) => EngineCompares(prim.zmode, f.z, f.dz))
          <=> (g.depth.on => Holds(g.depth.func, f.z, f.dz))
    BY <1>1, DepthAgrees
  <2> QED
    BY <2>1, <2>2
<1>5. EngineFragment(w, f) =
        IF ~passes THEN lost
        ELSE [z |-> IF prim.atype = AtypeZI THEN f.z ELSE f.dz,
              c |-> Blend(s.c, f.dc * Full), a |-> Blend(s.a, f.da * Full)]
  BY <1>1, <1>2, <1>3, <1>4, Zenon DEF EngineFragment
<1>6. prim.atype = AtypeZI <=> (g.depth.on /\ g.depth.mask)
  BY <1>1, DepthAgrees
<1>7. /\ Blend(s.c, f.dc * Full)
           = Saturated(s.c * (IF g.blend.on THEN GLFactor(g.blend.src, s, f).c ELSE Unit)
                       + f.dc * Full * (IF g.blend.on THEN GLFactor(g.blend.dst, s, f).c ELSE 0))
      /\ Blend(s.a, f.da * Full)
           = Saturated(s.a * (IF g.blend.on THEN GLFactor(g.blend.srcA, s, f).a ELSE Unit)
                       + f.da * Full * (IF g.blend.on THEN GLFactor(g.blend.dstA, s, f).a ELSE 0))
  BY <1>1, FactorsAgree, Zenon
<1>8. GLFragment(g, f) =
        IF ~passes THEN lost
        ELSE [z |-> IF g.depth.on /\ g.depth.mask THEN f.z ELSE f.dz,
              c |-> Blend(s.c, f.dc * Full), a |-> Blend(s.a, f.da * Full)]
  BY <1>1, <1>7, Zenon DEF GLFragment
<1> QED
  <2> HIDE DEF passes, Blend, lost
  <2> QED
    BY <1>5, <1>6, <1>8
-----------------------------------------------------------------------------
(* The scissor.                                                              *)

\* The greater of two.
LEMMA GreaterOf ==
  ASSUME NEW a \in Int, NEW b \in Int
  PROVE  Max({a, b}) = IF a >= b THEN a ELSE b
<1>1. PICK m \in Int : m = (IF a >= b THEN a ELSE b)
  OBVIOUS
<1>2. m \in {a, b} /\ \A y \in {a, b} : m >= y
  BY <1>1
<1>3. \A x \in {a, b} : (\A y \in {a, b} : x >= y) => x = m
  BY <1>1
<1> QED
  BY <1>1, <1>2, <1>3 DEF Max

\* The lesser of two.
LEMMA LesserOf ==
  ASSUME NEW a \in Int, NEW b \in Int
  PROVE  Min({a, b}) = IF a <= b THEN a ELSE b
<1>1. PICK m \in Int : m = (IF a <= b THEN a ELSE b)
  OBVIOUS
<1>2. m \in {a, b} /\ \A y \in {a, b} : m <= y
  BY <1>1
<1>3. \A x \in {a, b} : (\A y \in {a, b} : x <= y) => x = m
  BY <1>1
<1> QED
  BY <1>1, <1>2, <1>3 DEF Min

\* One side of the clip box: the scissor's, cut to the surface.
LEMMA AxisKeeps ==
  ASSUME NEW lo \in Int, NEW size \in Int, NEW dst \in Nat, NEW c \in 0..(dst - 1),
         NEW axis, axis = ClipAxis(lo, Max({size, 0}), dst)
  PROVE  (axis # <<>> /\ c \in axis[1]..(axis[2] - 1)) <=> c \in lo..(lo + size - 1)
<1>1. PICK n \in Nat : n = Max({size, 0}) /\ n = IF size >= 0 THEN size ELSE 0
  BY GreaterOf
<1>2. c \in lo..(lo + size - 1) <=> c \in lo..(lo + n - 1)
  BY <1>1
<1>3. CASE n = 0 \/ dst = 0 \/ lo >= dst
  <2>1. axis = <<>>
    BY <1>1, <1>3 DEF ClipAxis
  <2> QED
    BY <1>1, <1>2, <1>3, <2>1
<1>4. CASE ~(n = 0 \/ dst = 0 \/ lo >= dst) /\ lo < 0 /\ n <= -lo
  <2>1. axis = <<>>
    BY <1>1, <1>4 DEF ClipAxis
  <2> QED
    BY <1>1, <1>2, <1>4, <2>1
<1>5. CASE ~(n = 0 \/ dst = 0 \/ lo >= dst) /\ lo < 0 /\ ~(n <= -lo)
  <2>1. axis = <<0, Min({n + lo, dst})>>
    BY <1>1, <1>5 DEF ClipAxis
  <2>2. Min({n + lo, dst}) = IF n + lo <= dst THEN n + lo ELSE dst
    BY LesserOf
  <2> QED
    BY <1>1, <1>2, <1>5, <2>1, <2>2
<1>6. CASE ~(n = 0 \/ dst = 0 \/ lo >= dst) /\ ~(lo < 0)
  <2>1. axis = <<lo, IF n >= dst - lo THEN dst ELSE lo + n>>
    BY <1>1, <1>6 DEF ClipAxis
  <2> QED
    BY <1>1, <1>2, <1>6, <2>1
<1> QED
  BY <1>3, <1>4, <1>5, <1>6

\* The words of the batch, one by one.
LEMMA StateIs ==
  ASSUME NEW g, NEW st, st = WordsOf(g).state, NEW t, t = g.texture
  PROVE  /\ st.dstorg = g.surface.dstorg /\ st.dstWidth = g.surface.width
         /\ st.dstHeight = g.surface.height /\ st.dstPitch = g.surface.stride
         /\ st.zorg = g.surface.zorg /\ st.scissorOn = g.scissor.on
         /\ g.scissor.on => /\ st.scissorX = g.scissor.x /\ st.scissorY = g.scissor.y
                            /\ st.scissorW = Max({g.scissor.w, 0})
                            /\ st.scissorH = Max({g.scissor.h, 0})
         /\ t.on => /\ st.texorg = TexOrg /\ st.texW = t.w /\ st.texH = t.h /\ st.texPitch = t.w
                    /\ st.tw32 = TRUE /\ st.minmode = Minmode(t) /\ st.biasU = 0 /\ st.biasV = 0
         /\ ~t.on => st.minmode = 0
<1>1. st = FillState(g, IF t.on THEN BatchTexture(t) ELSE BatchUntextured)
  BY DEF WordsOf
<1>2. CASE t.on
  <2>1. PICK tex : tex = BatchTexture(t)
    OBVIOUS
  <2>2. /\ tex.texorg = TexOrg /\ tex.texW = t.w /\ tex.texH = t.h /\ tex.texPitch = t.w
        /\ tex.tw32 = TRUE /\ tex.minmode = Minmode(t) /\ tex.biasU = 0 /\ tex.biasV = 0
    BY <2>1 DEF BatchTexture, BatchUntextured
  <2>3. st = FillState(g, tex)
    BY <1>1, <1>2, <2>1
  <2> QED
    BY <1>2, <2>2, <2>3 DEF FillState
<1>3. CASE ~t.on
  BY <1>1, <1>3 DEF FillState, BatchUntextured
<1> QED
  BY <1>2, <1>3

\* The clip box keeps exactly the pixels the scissor keeps.
LEMMA BoxKeeps ==
  ASSUME NEW g, IsGLState(g), NEW w, w = WordsOf(g), NEW p \in Pixels(g.surface)
  PROVE  InClip(w, p) <=> InScissor(g.scissor, p)
<1>0. /\ g.surface.width \in Nat /\ g.surface.height \in Nat
      /\ g.scissor.x \in Int /\ g.scissor.y \in Int /\ g.scissor.w \in Int /\ g.scissor.h \in Int
  BY DEF IsGLState
<1>1. PICK st, sc, t : st = WordsOf(g).state /\ sc = g.scissor /\ t = g.texture /\ st = w.state
  OBVIOUS
<1>2. PICK width \in Nat, height \in Nat, x \in Int, y \in Int, n \in Int, m \in Int :
        /\ width = g.surface.width /\ height = g.surface.height
        /\ x = sc.x /\ y = sc.y /\ n = sc.w /\ m = sc.h
  BY <1>0, <1>1
<1>3. PICK i \in 0..(width - 1), j \in 0..(height - 1) : i = p[1] /\ j = p[2]
  BY <1>2 DEF Pixels
<1>4. st.dstWidth = width /\ st.dstHeight = height /\ st.scissorOn = sc.on
  BY <1>1, <1>2, StateIs
<1>5. CASE ~sc.on
  <2>1. ClipBox(st) = [x |-> <<0, width>>, y |-> <<0, height>>]
    BY <1>4, <1>5 DEF ClipBox
  <2>2. ~ClipEmpty(ClipBox(st))
    BY <2>1 DEF ClipEmpty
  <2> QED
    BY <1>1, <1>3, <1>5, <2>1, <2>2 DEF InClip, InScissor
<1>6. CASE sc.on
  <2>0. /\ st.scissorX = sc.x /\ st.scissorY = sc.y
        /\ st.scissorW = Max({sc.w, 0}) /\ st.scissorH = Max({sc.h, 0})
    BY <1>1, <1>6, StateIs
  <2>1. /\ st.scissorX = x /\ st.scissorY = y
        /\ st.scissorW = Max({n, 0}) /\ st.scissorH = Max({m, 0})
    BY <1>2, <2>0
  <2>2. PICK ax, ay : ax = ClipAxis(x, Max({n, 0}), width) /\ ay = ClipAxis(y, Max({m, 0}), height)
    OBVIOUS
  <2>3. PICK box : box = ClipBox(st) /\ box.x = ax /\ box.y = ay
    <3>1. ClipBox(st) = [x |-> ClipAxis(st.scissorX, st.scissorW, st.dstWidth),
                         y |-> ClipAxis(st.scissorY, st.scissorH, st.dstHeight)]
      BY <1>4, <1>6 DEF ClipBox
    <3>2. ClipBox(st) = [x |-> ax, y |-> ay]
      BY <3>1, <1>4, <2>1, <2>2
    <3> QED
      BY <3>2
  <2>5. (ax # <<>> /\ i \in ax[1]..(ax[2] - 1)) <=> i \in x..(x + n - 1)
    BY <2>2, AxisKeeps
  <2>6. (ay # <<>> /\ j \in ay[1]..(ay[2] - 1)) <=> j \in y..(y + m - 1)
    BY <2>2, AxisKeeps
  <2>7. InClip(w, p) <=> /\ ax # <<>> /\ ay # <<>>
                         /\ i \in ax[1]..(ax[2] - 1) /\ j \in ay[1]..(ay[2] - 1)
    BY <1>1, <1>3, <2>3 DEF InClip, ClipEmpty
  <2>8. InScissor(sc, p) <=> (i \in x..(x + n - 1) /\ j \in y..(y + m - 1))
    BY <1>2, <1>3, <1>6 DEF InScissor
  <2> QED
    BY <1>1, <2>5, <2>6, <2>7, <2>8
<1> QED
  BY <1>5, <1>6
-----------------------------------------------------------------------------
(* Sampling.                                                                 *)

\* The number of levels below the first, and the mode that says so.
LEMMA LevelsAre ==
  ASSUME NEW t, IsTexture(t), TexStateOK(t)
  PROVE  /\ t.min \in MipFilters =>
              /\ MipMapnb(t) = LastLevel(t) /\ LastLevel(t) \in 1..4
              /\ Minmode(t) \in {8, 9, 10, 12} /\ FilterName(Minmode(t)) = t.min
         /\ t.min \notin MipFilters => MipMapnb(t) = 0 /\ Minmode(t) = 0
<1>1. CASE t.min \in MipFilters
  <2>1. MipMapnb(t) = LastLevel(t) /\ LastLevel(t) \in 1..4
    BY <1>1 DEF TexStateOK, MipGate, MipMapnb
  <2>2. MipMapnb(t) # 0
    BY <2>1
  <2>3. CASE t.min = "NEAREST_MIPMAP_NEAREST"
    BY <2>1, <2>2, <2>3 DEF Minmode, FilterName, FilterNearest, FilterBilinear, MipFilters
  <2>4. CASE t.min = "LINEAR_MIPMAP_NEAREST"
    BY <2>1, <2>2, <2>4 DEF Minmode, FilterName, FilterNearest, FilterBilinear, MipFilters
  <2>5. CASE t.min = "NEAREST_MIPMAP_LINEAR"
    BY <2>1, <2>2, <2>5 DEF Minmode, FilterName, FilterNearest, FilterBilinear, MipFilters
  <2>6. CASE t.min = "LINEAR_MIPMAP_LINEAR"
    BY <2>1, <2>2, <2>6 DEF Minmode, FilterName, FilterNearest, FilterBilinear, MipFilters
  <2> QED
    BY <1>1, <2>3, <2>4, <2>5, <2>6 DEF MipFilters
<1>2. CASE t.min \notin MipFilters
  BY <1>2 DEF MipMapnb, Minmode
<1> QED
  BY <1>1, <1>2

\* The filter's two fields name GL's two filters, with levels and without.
LEMMA FiltersAgree ==
  ASSUME NEW t, IsTexture(t), TexStateOK(t), NEW filter, filter = TexFilter(TexFlags(t), Minmode(t))
  PROVE  FilterName(filter.mag) = t.mag /\ FilterName(filter.min) = t.min
<1>1. t.mag \in {"NEAREST", "LINEAR"} /\ t.min \in MipFilters \cup {"NEAREST", "LINEAR"}
  BY DEF TexStateOK
<1>2. "BILIN" \in TexFlags(t) <=> t.mag = "LINEAR"
  BY DEF TexFlags
<1>3. FilterName(filter.mag) = t.mag
  BY <1>1, <1>2 DEF TexFilter, FilterName, FilterNearest, FilterBilinear
<1>4. CASE t.min \in MipFilters
  <2>1. Minmode(t) # 0 /\ FilterName(Minmode(t)) = t.min
    BY <1>4, LevelsAre
  <2> QED
    BY <1>3, <2>1 DEF TexFilter
<1>5. CASE t.min \notin MipFilters
  <2>1. Minmode(t) = 0
    BY <1>5, LevelsAre
  <2>2. "BILINMIN" \in TexFlags(t) <=> t.min = "LINEAR"
    BY <1>1, <1>5 DEF TexFlags, MipFilters
  <2> QED
    BY <1>1, <1>3, <1>5, <2>1, <2>2 DEF TexFilter, FilterName, FilterNearest, FilterBilinear
<1> QED
  BY <1>4, <1>5

\* Repeat is granted on an axis exactly when GL repeats there.
LEMMA WrapsAgree ==
  ASSUME NEW t, TexStateOK(t), NEW st, st.texPitch = st.texW, st.texW = t.w, st.texH = t.h,
         NEW axes, axes = TexClampAxes(st, TexFlags(t))
  PROVE  /\ (IF "u" \in axes THEN "edge" ELSE "repeat") = GLWrap(t.wrapS, ~PointSampled(t))
         /\ (IF "v" \in axes THEN "edge" ELSE "repeat") = GLWrap(t.wrapT, ~PointSampled(t))
<1>1. /\ "REPEATU" \in TexFlags(t) <=> t.wrapS = "REPEAT"
      /\ "REPEATV" \in TexFlags(t) <=> t.wrapT = "REPEAT"
  BY DEF TexFlags
<1>2. (t.wrapS = "REPEAT" => IsPow2(st.texW)) /\ (t.wrapT = "REPEAT" => IsPow2(st.texH))
  BY DEF TexStateOK, ImageGate
<1>3. ("u" \in axes <=> t.wrapS # "REPEAT") /\ ("v" \in axes <=> t.wrapT # "REPEAT")
  BY <1>1, <1>2 DEF TexClampAxes
<1>4. /\ {t.wrapS, t.wrapT} \subseteq {"CLAMP_TO_EDGE", "REPEAT", "CLAMP"}
      /\ "CLAMP" \in {t.wrapS, t.wrapT} => PointSampled(t)
  BY DEF TexStateOK, WrapGate
<1> QED
  BY <1>3, <1>4 DEF GLWrap

\* The words about a texture.
LEMMA TexturedIs ==
  ASSUME NEW g, g.texture.on
  PROVE  /\ WordsOf(g).state.texW = g.texture.w /\ WordsOf(g).state.texH = g.texture.h
         /\ WordsOf(g).state.texPitch = g.texture.w
         /\ WordsOf(g).state.minmode = Minmode(g.texture)
<1>1. PICK tex : tex = BatchTexture(g.texture)
  OBVIOUS
<1>2. /\ tex.texW = g.texture.w /\ tex.texH = g.texture.h /\ tex.texPitch = g.texture.w
      /\ tex.minmode = Minmode(g.texture)
  BY <1>1 DEF BatchTexture, BatchUntextured
<1>3. WordsOf(g).state = FillState(g, tex)
  BY <1>1 DEF WordsOf
<1> QED
  BY <1>2, <1>3 DEF FillState

\* An admitted texture is sampled by the filters, levels and wraps GL names.
LEMMA SamplingIs ==
  ASSUME NEW g, IsGLState(g), ChooseTriangle(g), g.texture.on, NEW w, w = WordsOf(g)
  PROVE  EngineSampling(w) = GLSampling(g.texture)
<1>1. PICK t, st : t = g.texture /\ st = w.state /\ st = WordsOf(g).state
  OBVIOUS
<1>2. IsTexture(t) /\ TexStateOK(t)
  BY <1>1, Gated DEF IsGLState
<1>3. w.flags = TexFlags(t) /\ w.mips = MipMapnb(t)
  BY <1>1 DEF WordsOf
<1>4. st.minmode = Minmode(t) /\ st.texW = t.w /\ st.texH = t.h /\ st.texPitch = t.w
  BY <1>1, TexturedIs
<1>5. PICK filter, axes : filter = TexFilter(TexFlags(t), Minmode(t)) /\ axes = TexClampAxes(st, TexFlags(t))
  OBVIOUS
<1>6. FilterName(filter.mag) = t.mag /\ FilterName(filter.min) = t.min
  BY <1>2, <1>5, FiltersAgree
<1>7. /\ (IF "u" \in axes THEN "edge" ELSE "repeat") = GLWrap(t.wrapS, ~PointSampled(t))
      /\ (IF "v" \in axes THEN "edge" ELSE "repeat") = GLWrap(t.wrapT, ~PointSampled(t))
  BY <1>2, <1>4, <1>5, WrapsAgree
<1>8. EngineSampling(w) =
        [mag |-> t.mag, min |-> t.min, first |-> 0, last |-> MipMapnb(t), bias |-> 0,
         u |-> GLWrap(t.wrapS, ~PointSampled(t)), v |-> GLWrap(t.wrapT, ~PointSampled(t))]
  BY <1>1, <1>3, <1>4, <1>5, <1>6, <1>7 DEF EngineSampling
<1>9. t.base = 0
  BY <1>2 DEF TexStateOK, ImageGate
<1>10. CASE t.min \in MipFilters
  <2>1. /\ MipMapnb(t) = LastLevel(t) /\ LastLevel(t) \in 1..4
        /\ t.minLod <= 0 /\ t.maxLod >= LastLevel(t) /\ t.bias = 0
    BY <1>2, <1>10, LevelsAre DEF TexStateOK, MipGate
  <2>2. t.minLod \in Int /\ t.maxLod \in Int
    BY <1>2 DEF IsTexture
  <2>3. Max({0, t.minLod}) = 0
    BY <2>1, <2>2, GreaterOf
  <2>4. Min({LastLevel(t), t.maxLod}) = LastLevel(t)
    BY <2>1, <2>2, LesserOf
  <2>5. Max({0, LastLevel(t)}) = LastLevel(t)
    BY <2>1, GreaterOf
  <2>6. /\ t.base + Max({0, t.minLod}) = 0
        /\ t.base + Max({0, Min({LastLevel(t), t.maxLod})}) = MipMapnb(t)
    BY <1>9, <2>1, <2>3, <2>4, <2>5
  <2> QED
    BY <1>1, <1>8, <1>10, <2>1, <2>6 DEF GLSampling
<1>11. CASE t.min \notin MipFilters
  <2>1. MipMapnb(t) = 0
    BY <1>2, <1>11, LevelsAre
  <2> QED
    BY <1>1, <1>8, <1>9, <1>11, <2>1 DEF GLSampling
<1> QED
  BY <1>10, <1>11
-----------------------------------------------------------------------------
(* The hook's steps.                                                         *)

\* Between updates: what the gate said, and whose words these are.
Translated ==
  /\ choice = "none" => tier = "none"
  /\ choice = "hook" => ChooseTriangle(gl) /\ IsGLState(gl)
  /\ words # NoWords \/ Drawn =>
       /\ choice = "hook" /\ words = WordsOf(gl)
       /\ gl.texture.on => Resident(gl.texture)

\* Every step keeps it.
LEMMA TranslatedNext == Translated /\ [StateNext]_stateVars => Translated'
<1> SUFFICES ASSUME Translated, [StateNext]_stateVars PROVE Translated'
  OBVIOUS
<1> USE DEF Translated, Drawn
<1>1. CASE Update
  <2>1. PICK family \in States : \E g \in family : UpdateState(g)
    BY <1>1 DEF Update
  <2>2. PICK g \in family : UpdateState(g)
    BY <2>1
  <2>3. IsGLState(g) /\ gl' = g /\ choice = "none"
    BY <1>1, <2>2, StatesAssumption DEF UpdateState, Update
  <2>4. words = NoWords /\ tier = "none" /\ words' = NoWords /\ tier' = "none"
    BY <2>2, <2>3 DEF UpdateState
  <2>5. choice' = (IF ChooseTriangle(g) THEN "hook" ELSE "software")
    BY <2>2 DEF UpdateState
  <2> QED
    BY <2>3, <2>4, <2>5
<1>2. CASE DrawSoftware
  BY <1>2 DEF DrawSoftware
<1>3. CASE DrawNotResident
  BY <1>3 DEF DrawNotResident
<1>4. ASSUME NEW taken, Translate(taken) PROVE Translated'
  BY <1>4 DEF Translate
<1>5. CASE DrawWarp
  BY <1>4, <1>5 DEF DrawWarp
<1>6. CASE DrawTrapezoid
  BY <1>4, <1>6 DEF DrawTrapezoid
<1>7. CASE UNCHANGED stateVars
  BY <1>7 DEF stateVars
<1> QED
  BY <1>1, <1>2, <1>3, <1>5, <1>6, <1>7 DEF StateNext

\* It holds whenever the hook is between two updates.
LEMMA TranslatedAlways == StateSpec => []Translated
<1>1. StateInit => Translated
  BY DEF StateInit, Translated, Drawn, NoWords
<1> QED
  BY <1>1, TranslatedNext, PTL DEF StateSpec

\* The words of an admitted state are GL's.
LEMMA TranslatedIsDrawn == Translated => DrawnAsGL
<1> SUFFICES ASSUME Translated, Drawn
             PROVE  /\ \A f \in Fragments : EngineFragment(words, f) = GLFragment(gl, f)
                    /\ \A p \in Pixels(gl.surface) : InClip(words, p) <=> InScissor(gl.scissor, p)
                    /\ gl.texture.on => EngineSampling(words) = GLSampling(gl.texture)
  BY DEF DrawnAsGL, FragmentsAgree, SamplingAgrees
<1>1. ChooseTriangle(gl) /\ IsGLState(gl) /\ words = WordsOf(gl)
  BY DEF Translated
<1> QED BY <1>1, FragmentIs, BoxKeeps, SamplingIs

\* Whatever the state of GL, of any family and for any fragments: what the hook's words
\* make the engine draw of it is what GL's state asks for (osmgaMesaChooseTriangle's gate
\* and osmgaMesaTriangle's translation), and the texels it is made of are GL's.
THEOREM DrawnAsGLAlways == StateSpec => []DrawnAsGL
BY TranslatedIsDrawn, TranslatedAlways, PTL
-----------------------------------------------------------------------------
(* What the gate admits the driver takes.                                    *)

\* When none of the tests is true there is no refusal.
LEMMA Unrefused ==
  ASSUME NEW n \in Nat, NEW tests, DOMAIN tests = 1..n, \A i \in 1..n : ~tests[i][1]
  PROVE  FirstRefusal(tests) = "OK"
<1>1. {i \in DOMAIN tests : tests[i][1]} = {}
  OBVIOUS
<1> QED
  BY <1>1 DEF FirstRefusal

\* The factors' codes are in the register's range.
LEMMA FactorCodes ==
  ASSUME NEW g, ChooseTriangle(g), NEW b, b = Blended(g.blend)
  PROVE  b.src \in 0..8 /\ b.dst \in 0..7
<1>1. CASE ~g.blend.on
  BY <1>1 DEF Blended, BlendOpaque, BfOne, BfZero
<1>2. CASE g.blend.on
  <2>1. PICK s, d : s = g.blend.src /\ d = g.blend.dst
    OBVIOUS
  <2>2. s \in SrcFactors /\ d \in DstFactors
    BY <1>2, <2>1, Gated DEF BlendGate
  <2>3. b.src = SrcCode[s] /\ b.dst = DstCode[d]
    BY <1>2, <2>1 DEF Blended, BlendOver, BlendOpaque
  <2>4. SrcCode[s] \in 0..8
    BY <2>2 DEF SrcFactors, SrcCode, BfZero, BfOne, BfSrcA, BfOneMinusSrcA
  <2>5. DstCode[d] \in 0..7
    BY <2>2 DEF DstFactors, DstCode, BfZero, BfOne, BfSrcA, BfOneMinusSrcA
  <2> QED
    BY <2>3, <2>4, <2>5
<1> QED
  BY <1>1, <1>2

\* No alpha test is the one code without a meaning.
LEMMA TestCodes ==
  ASSUME NEW g, ChooseTriangle(g)
  PROVE  Tested(BlendOpaque, g.alpha).test # 1
<1>1. CASE g.alpha.on /\ g.alpha.func # "ALWAYS"
  <2>1. PICK func : func = g.alpha.func
    OBVIOUS
  <2>2. func \in {"LESS", "LEQUAL", "GREATER", "GEQUAL", "EQUAL", "NOTEQUAL"}
    BY <1>1, <2>1, Gated DEF AlphaGate, Compares
  <2>3. Tested(BlendOpaque, g.alpha).test = TestCode[func]
    BY <1>1, <2>1 DEF Tested, BlendOpaque
  <2> QED
    BY <2>2, <2>3 DEF TestCode
<1>2. CASE ~(g.alpha.on /\ g.alpha.func # "ALWAYS")
  BY <1>2 DEF Tested, BlendOpaque
<1> QED
  BY <1>1, <1>2

\* An admitted state's primitive is one the driver takes.
LEMMA PrimTaken ==
  ASSUME NEW g, ChooseTriangle(g), NEW prim, prim = WordsOf(g).prim
  PROVE  PrimState(prim) = "OK"
<1>1. PICK ac : ac = prim.ac
  OBVIOUS
<1>0. ac = Alphactrl(g)
  BY <1>1, PrimIs
<1>2. /\ ac.src \in 0..8 /\ ac.dst \in 0..7 /\ ac.mode = 1 /\ ac.stipple = FALSE
      /\ ac.test # 1
  BY <1>0, AlphaWords, FactorCodes, TestCodes
<1>3. prim.opcode \in {OpTrap, OpTex} /\ prim.atype \in {AtypeI, AtypeZI}
  BY PrimIs
<1>4. AlphaCross(ac)
  BY <1>2 DEF AlphaCross, ModeVideo
<1> DEFINE words0 == prim.opcode \notin {OpTrap, OpTex} \/ prim.atype \notin {AtypeI, AtypeZI}
           alpha0 == prim.ac.src > 8 \/ prim.ac.dst > 7 \/ prim.ac.mode = 3 \/ prim.ac.test = 1
           cross0 == ~AlphaCross(prim.ac)
           tests == << <<words0, "DWGCTL">>, <<alpha0, "ALPHA">>, <<cross0, "ALPHACROSS">> >>
<1>5. PrimState(prim) = FirstRefusal(tests)
  BY DEF PrimState
<1>6. ~words0 /\ ~alpha0 /\ ~cross0
  BY <1>1, <1>2, <1>3, <1>4
<1> HIDE DEF words0, alpha0, cross0
<1>7. DOMAIN tests = 1..3 /\ \A i \in 1..3 : ~tests[i][1]
  BY <1>6
<1> HIDE DEF tests
<1> QED
  BY <1>5, <1>7, Unrefused

\* A side of which eight texels are left after some halvings.
LEMMA SideIsLong ==
  ASSUME NEW n \in Nat, IsPow2(n), NEW l \in 1..4, n \div 2^l >= 8
  PROVE  Log2(n) >= 3 + l
<1>1. PICK k \in 0..30 : n = Power(k)
  BY DEF IsPow2, Power
<1>2. \E m \in 0..30 : Power(m) >= n /\ (m = 0 \/ Power(m - 1) < n)
  BY <1>1, PowersGrow
<1>3. Log2(n) = CHOOSE m \in 0..30 : Power(m) >= n /\ (m = 0 \/ Power(m - 1) < n)
  BY DEF Log2, Power
<1>4. PICK m \in 0..30 : m = Log2(n) /\ Power(m) >= n
  BY <1>2, <1>3
<1>5. l = 1 \/ l = 2 \/ l = 3 \/ l = 4
  OBVIOUS
<1>6. n >= 8 * Power(l)
  <2>1. 2^1 = 2 /\ 2^2 = 4 /\ 2^3 = 8 /\ 2^4 = 16
    OBVIOUS
  <2>2. CASE l = 1
    BY <2>1, <2>2 DEF Power
  <2>3. CASE l = 2
    BY <2>1, <2>3 DEF Power
  <2>4. CASE l = 3
    BY <2>1, <2>4 DEF Power
  <2>5. CASE l = 4
    BY <2>1, <2>5 DEF Power
  <2> QED
    BY <1>5, <2>2, <2>3, <2>4, <2>5
<1>7. SUFFICES ASSUME m < 3 + l PROVE FALSE
  BY <1>4
<1>8. m = 0 \/ m = 1 \/ m = 2 \/ m = 3 \/ m = 4 \/ m = 5 \/ m = 6
  BY <1>7
<1>9. /\ Power(0) = 1 /\ Power(1) = 2 /\ Power(2) = 4 /\ Power(3) = 8 /\ Power(4) = 16
      /\ Power(5) = 32 /\ Power(6) = 64
  BY DEF Power
<1> QED
  BY <1>4, <1>5, <1>6, <1>7, <1>8, <1>9

\* What the hook hands to the WARP tier about a texture's levels is what
\* the tier's rules ask.
LEMMA LevelsTaken ==
  ASSUME NEW g, IsGLState(g), ChooseTriangle(g), NEW w, w = WordsOf(g)
  PROVE  WarpAdmits(w.state, [prim |-> w.prim], w.mips)
<1>1. PICK t : t = g.texture
  OBVIOUS
<1>2. PICK st, mips : st = w.state /\ mips = w.mips
  OBVIOUS
<1>3. CASE ~t.on
  <2>1. w.prim.opcode = OpTrap
    BY <1>1, <1>3, PrimIs
  <2> QED
    BY <2>1 DEF WarpAdmits, OpTrap, OpTex
<1>4. CASE t.on
  <2>1. IsTexture(t) /\ TexStateOK(t)
    BY <1>1, <1>4, Gated DEF IsGLState
  <2>2. mips = MipMapnb(t) /\ st.texW = t.w /\ st.texH = t.h /\ st.texPitch = t.w
        /\ st.minmode = Minmode(t)
    BY <1>1, <1>2, <1>4, TexturedIs DEF WordsOf
  <2>3. st.tw32
    BY <1>1, <1>2, <1>4 DEF WordsOf, FillState, BatchTexture, BatchUntextured
  <2>4. CASE t.min \notin MipFilters
    <3>1. mips = 0 /\ st.minmode = 0
      BY <2>1, <2>2, <2>4, LevelsAre
    <3> QED
      BY <1>2, <3>1 DEF WarpAdmits
  <2>5. CASE t.min \in MipFilters
    <3>1. mips \in 1..4 /\ mips = LastLevel(t) /\ st.minmode \in {8, 9, 10, 12}
      BY <2>1, <2>2, <2>5, LevelsAre
    <3>2. IsPow2(t.w) /\ IsPow2(t.h) /\ t.w \div 2^mips >= 8 /\ t.h \div 2^mips >= 8
      BY <2>1, <2>5, <3>1 DEF TexStateOK, MipGate
    <3>3. Log2(t.w) >= 3 + mips /\ Log2(t.h) >= 3 + mips
      BY <2>1, <3>1, <3>2, SideIsLong DEF IsTexture
    <3>4. \A side \in {st.texW, st.texH} : Log2(side) >= 3 + mips
      BY <2>2, <3>3
    <3>5. (st.minmode # 0) = (mips # 0) /\ mips <= 4 /\ st.minmode \in MinModes
      BY <3>1 DEF MinModes
    <3> QED
      BY <1>2, <2>2, <2>3, <3>2, <3>4, <3>5 DEF WarpAdmits
  <2> QED
    BY <2>4, <2>5
<1> QED
  BY <1>3, <1>4

\* Rows that lie in the window are rows the driver reaches.
LEMMA RowsReached ==
  ASSUME NEW org, NEW rows \in Nat, NEW row \in Nat, org \in Aperture.start..(Aperture.end - 1),
         rows * row <= Aperture.end - org
  PROVE  Reach(org, rows, row, Aperture)
<1>1. PICK n \in Nat : n = rows * row
  OBVIOUS
<1>2. WordMax \in Nat /\ Aperture.start \in Nat /\ Aperture.end \in Nat /\ Aperture.end <= WordMax
  BY ApertureAssumption, WordAssumption
<1>3. n <= WordMax
  BY <1>1, <1>2
<1>4. row # 0 => rows <= WordMax \div row
  <2>1. SUFFICES ASSUME row # 0 PROVE rows <= WordMax \div row
    OBVIOUS
  <2>2. PICK q \in Int : q = WordMax \div row
    BY <1>2, <2>1
  <2>3. WordMax - q * row \in 0..(row - 1)
    BY <1>2, <2>1, <2>2
  <2>4. SUFFICES ASSUME q + 1 <= rows PROVE FALSE
    BY <2>2
  <2>5. (q + 1) * row <= rows * row
    BY <2>4
  <2>6. (q + 1) * row = q * row + row
    OBVIOUS
  <2>7. PICK m \in Int : m = q * row
    OBVIOUS
  <2> QED
    BY <1>1, <1>2, <1>3, <2>3, <2>5, <2>6, <2>7
<1> QED
  BY <1>4 DEF Reach

\* An admitted texture that is resident is one the driver takes.
LEMMA TextureTaken ==
  ASSUME NEW g, IsGLState(g), ChooseTriangle(g), g.texture.on, Resident(g.texture),
         NEW st, st = WordsOf(g).state, NEW mips, mips = WordsOf(g).mips
  PROVE  TextureState(st, mips, Aperture) = "OK"
<1>1. PICK t : t = g.texture
  OBVIOUS
<1>2. IsTexture(t) /\ TexStateOK(t) /\ Resident(t)
  BY <1>1, Gated DEF IsGLState
<1>3. mips = MipMapnb(t) /\ st.texW = t.w /\ st.texH = t.h /\ st.texPitch = t.w
      /\ st.minmode = Minmode(t)
  BY <1>1, TexturedIs DEF WordsOf
<1>4. st.tw32 /\ st.biasU = 0 /\ st.biasV = 0 /\ st.texorg = TexOrg
  BY <1>1 DEF WordsOf, FillState, BatchTexture, BatchUntextured
<1>5. /\ t.w \in 1..MaxPitch /\ t.h \in 1..MaxDim /\ MaxPitch \in Nat /\ MaxDim \in Nat
      /\ MaxPitch <= MaxDim /\ WordMax \in Nat /\ 4 * MaxPitch <= WordMax
  BY <1>2, TexAssumption, ApertureAssumption, WordAssumption DEF Resident, TexUsable
<1>6. Len(Ladder) = 6
  <2>1. Ladder \in [1..6 -> Int]
    BY LadderAssumption
  <2> QED
    BY <2>1, LenProperties
<1>7. st.minmode \in MinModes \cup {0} /\ ~(st.minmode # 0 /\ mips = 0)
  <2>1. CASE t.min \in MipFilters
    BY <1>2, <1>3, <2>1, LevelsAre DEF MinModes
  <2>2. CASE t.min \notin MipFilters
    BY <1>2, <1>3, <2>2, LevelsAre
  <2> QED
    BY <2>1, <2>2
<1>8. Word(4 * st.texPitch) = 4 * t.w
  BY <1>3, <1>5, WordStands
<1>9. Reach(TexOrg, t.h, 4 * t.w, Aperture)
  <2>1. PICK row \in Nat : row = 4 * t.w
    BY <1>5
  <2>2. t.h * row = row * t.h
    BY <1>5
  <2>3. t.h * row <= Aperture.end - TexOrg
    BY <1>2, <2>1, <2>2 DEF Resident
  <2>4. TexOrg \in Aperture.start..(Aperture.end - 1)
    BY ApertureAssumption
  <2>5. t.h \in Nat
    BY <1>5
  <2> QED
    BY <2>1, <2>3, <2>4, <2>5, RowsReached
<1> DEFINE rows == IF st.minmode # 0 /\ mips = 0 THEN Word(2 * st.texH) ELSE st.texH
           size == st.texW \notin 1..MaxDim \/ st.texH \notin 1..MaxDim
                     \/ st.texPitch \notin st.texW..MaxPitch
           biased == ~st.tw32 \/ st.biasU > Len(Ladder) \/ st.biasV > Len(Ladder)
           mode == st.minmode \notin MinModes \cup {0}
           crooked == ~Aligned(st.texorg, "tex")
           outside == ~Reach(st.texorg, rows, Word(4 * st.texPitch), Aperture)
           tests == << <<size, "TEXSIZE">>, <<biased, "TEXSIZE">>, <<mode, "TEXSIZE">>,
                       <<crooked, "TEXORGAL">>, <<outside, "TEXORG">> >>
<1>10. TextureState(st, mips, Aperture) = FirstRefusal(tests)
  BY DEF TextureState
<1>11. rows = t.h
  BY <1>3, <1>7
<1>12. ~size
  BY <1>3, <1>5
<1>13. ~biased
  BY <1>4, <1>6
<1>14. ~mode /\ ~crooked
  BY <1>4, <1>7, ApertureAssumption
<1>15. ~outside
  <2> HIDE DEF rows
  <2> QED
    BY <1>4, <1>8, <1>9, <1>11
<1> HIDE DEF size, biased, mode, crooked, outside
<1>16. DOMAIN tests = 1..5 /\ \A i \in 1..5 : ~tests[i][1]
  BY <1>12, <1>13, <1>14, <1>15
<1> HIDE DEF tests
<1> QED
  BY <1>10, <1>16, Unrefused

\* Depth is addressed only where the state has a depth buffer that is placed.
LEMMA DepthIsAsked ==
  ASSUME NEW g, ChooseTriangle(g), AddressesDepth(WordsOf(g).prim)
  PROVE  g.depth.placed
<1>1. PICK d, z, prim : d = g.depth /\ z = Zmode(d) /\ prim = WordsOf(g).prim
  OBVIOUS
<1>2. CASE z = ZmodeNone
  <2>1. prim.atype = AtypeI /\ prim.zmode = ZmodeNoZcmp
    BY <1>1, <1>2, PrimIs
  <2> QED
    BY <1>1, <2>1 DEF AddressesDepth, AtypeI, AtypeZI
<1>3. CASE z # ZmodeNone
  <2>1. d.on
    BY <1>1, <1>3 DEF Zmode
  <2> QED
    BY <1>1, <2>1, Gated DEF DepthGate
<1> QED
  BY <1>2, <1>3

\* An admitted state's words about the surface, the depth and the texture are taken.
LEMMA StateTaken ==
  ASSUME NEW g, IsGLState(g), ChooseTriangle(g), g.texture.on => Resident(g.texture),
         NEW w, w = WordsOf(g)
  PROVE  StateCommon(w.state, w.mips, Limits(w.state, Aperture), AddressesDepth(w.prim),
                     w.prim.opcode = OpTex) = "OK"
<1>1. PICK st, mips, s : st = w.state /\ mips = w.mips /\ s = g.surface
  OBVIOUS
<1>2. PICK t : t = g.texture
  OBVIOUS
<1>3. /\ st.dstorg = s.dstorg /\ st.dstWidth = s.width /\ st.dstHeight = s.height
      /\ st.dstPitch = s.stride /\ st.zorg = s.zorg
  BY <1>1 DEF WordsOf, FillState
<1>4. s.placed /\ s.stride % Align.pitch = 0
  BY <1>1 DEF ChooseTriangle, SurfaceGate
<1>5. /\ s.width \in Nat /\ s.height \in Nat /\ s.stride \in Nat /\ s.height > 0
      /\ s.width \in 1..s.stride /\ 4 * s.stride <= WordMax
      /\ Within(s.dstorg, s.height, 4 * s.stride, "dst")
  BY <1>1, <1>4 DEF IsGLState, SurfaceIsPlaced
<1>6. AddressesDepth(w.prim) => Within(s.zorg, s.height, 2 * s.stride, "z")
  BY <1>1, DepthIsAsked DEF IsGLState, DepthIsPlaced
<1>7. PICK pitch \in Nat, half \in Nat : pitch = 4 * s.stride /\ half = 2 * s.stride
  BY <1>5
<1>8. Word(4 * st.dstPitch) = pitch /\ pitch \div 4 = s.stride /\ (pitch \div 4) * 2 = half
  BY <1>3, <1>5, <1>7, WordStands
<1>9. s.height <= WordMax
  <2>1. s.height * pitch <= Aperture.end - s.dstorg
    BY <1>5, <1>7 DEF Within
  <2>2. s.dstorg \in Nat /\ Aperture.end \in Nat /\ Aperture.end <= WordMax /\ WordMax \in Nat
    BY <1>5, ApertureAssumption, WordAssumption DEF Within
  <2>3. PICK n \in Nat : n = s.height * pitch
    BY <1>5
  <2>4. pitch >= 1
    BY <1>5, <1>7
  <2>5. s.height <= n
    BY <1>5, <2>3, <2>4
  <2> QED
    BY <1>5, <2>1, <2>2, <2>3, <2>5
<1>10. Word(st.dstHeight - 1 + 1) = s.height
  <2>1. st.dstHeight - 1 + 1 = s.height
    BY <1>3, <1>5
  <2> QED
    BY <1>5, <1>9, <2>1, WordStands
<1>11. Aligned(s.dstorg, "dst") /\ Reach(s.dstorg, s.height, pitch, Aperture)
  BY <1>5, <1>7, RowsReached DEF Within
<1>12. AddressesDepth(w.prim) => Aligned(s.zorg, "z") /\ Reach(s.zorg, s.height, half, Aperture)
  BY <1>5, <1>6, <1>7, RowsReached DEF Within
<1>13. (w.prim.opcode = OpTex) => TextureState(st, mips, Aperture) = "OK"
  <2>1. SUFFICES ASSUME w.prim.opcode = OpTex PROVE TextureState(st, mips, Aperture) = "OK"
    OBVIOUS
  <2>2. g.texture.on
    BY <2>1, PrimIs DEF OpTex, OpTrap
  <2> QED
    BY <1>1, <2>2, TextureTaken
<1> DEFINE deep == AddressesDepth(w.prim)
           tex == TextureState(st, mips, Aperture)
           narrow == st.dstPitch = 0 \/ st.dstWidth > st.dstPitch \/ pitch \div 4 # st.dstPitch
           offPitch == ~Aligned(st.dstPitch, "pitch")
           offDst == ~Aligned(st.dstorg, "dst")
           noDst == ~Reach(st.dstorg, s.height, pitch, Aperture)
           offZ == deep /\ ~Aligned(st.zorg, "z")
           noZ == deep /\ ~Reach(st.zorg, s.height, half, Aperture)
           noTex == (w.prim.opcode = OpTex) /\ tex # "OK"
           tests == << <<narrow, "DSTPITCH">>, <<offPitch, "DSTPITCH">>, <<offDst, "DSTORGAL">>,
                       <<noDst, "DSTORG">>, <<offZ, "ZORGAL">>, <<noZ, "ZORG">>, <<noTex, tex>> >>
<1>14. PICK lim : lim = Limits(st, Aperture)
  OBVIOUS
<1>15. /\ lim.pitchBytes = pitch /\ Word(lim.clipY1 + 1) = s.height
       /\ lim.colour = Aperture /\ lim.depth = Aperture /\ lim.tex = Aperture
  BY <1>8, <1>10, <1>14 DEF Limits
<1>16. StateCommon(st, mips, lim, deep, w.prim.opcode = OpTex) = FirstRefusal(tests)
  BY <1>8, <1>15 DEF StateCommon
<1>17. ~narrow /\ ~offPitch
  BY <1>3, <1>4, <1>5, <1>8 DEF Aligned
<1>18. ~offDst /\ ~noDst
  BY <1>3, <1>11
<1>19. ~offZ /\ ~noZ
  BY <1>3, <1>12
<1>20. ~noTex
  BY <1>13
<1> HIDE DEF narrow, offPitch, offDst, noDst, offZ, noZ, noTex, tex
<1>21. DOMAIN tests = 1..7 /\ \A i \in 1..7 : ~tests[i][1]
  BY <1>17, <1>18, <1>19, <1>20
<1> HIDE DEF tests
<1>22. FirstRefusal(tests) = "OK"
  BY <1>21, Unrefused
<1> QED
  BY <1>1, <1>14, <1>16, <1>22

\* A state that the gate lets through, on surfaces the driver placed and with a texture
\* that is resident, is one that the WARP tier's rules and the driver's checks of a batch's
\* state take: no triangle of it is lost to a refusal the gate could have foreseen.
LEMMA TranslatedIsTaken == Translated => AdmittedIsTaken
<1> SUFFICES ASSUME Translated, words # NoWords
             PROVE  /\ WarpTakes(words)
                    /\ StateCommon(words.state, words.mips, Limits(words.state, Aperture),
                                   AddressesDepth(words.prim), words.prim.opcode = OpTex) = "OK"
  BY DEF AdmittedIsTaken
<1>1. /\ ChooseTriangle(gl) /\ IsGLState(gl) /\ words = WordsOf(gl)
      /\ gl.texture.on => Resident(gl.texture)
  BY DEF Translated
<1> QED
  BY <1>1, PrimTaken, LevelsTaken, StateTaken DEF WarpTakes
===============================================================================
