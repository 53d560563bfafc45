-------------------------------- MODULE HW3D --------------------------------
(***************************************************************************)
(* The portable checks of hw3d/OpenStepMGAHW3D.c: what the kernel driver   *)
(* asks of a batch before an engine register is written for it.  Refusals  *)
(* are named after OSMGA_HW3D_E_*.                                         *)
(*                                                                         *)
(* The word, the coordinate ranges and the register fields are parameters: *)
(* the code's are 2^32 - 1, Q_ONE = 2^16, Q_MIN = 2^13, Q_MAX = 2^23,      *)
(* TEX_SPAN = 2^20 and fields of 22 and 24 bits.                           *)
(***************************************************************************)
EXTENDS Integers, Sequences, FiniteSets, SequencesExt

CONSTANTS
  WordMax,                     \* largest unsigned long
  QOne, QMin, QMax, Span,      \* OSMGA_HW3D_Q_ONE, Q_MIN, Q_MAX, TEX_SPAN
  Ladder, LadderTop,           \* osmgaHW3DBiasLadder, and 511
  EdgeWalk,                    \* OSMGA_HW3D_EDGE_WALK
  Bits,                        \* [ar, ar1, dr, alpha]: OSMGA_HW3D_F_*
  Align,                       \* [pitch, dst, z, tex]: OSMGA_HW3D_*_ALIGN
  MaxDim, MaxPitch,            \* OSMGA_HW3D_TEX_MAX_DIM, _MAX_PIT
  ExpBits, ManBits,            \* the float: 8 and 23
  Float,                       \* [one, coord, rhwMin, rhwMax]: OSMGA_HW3D_F32_*
  MaxTris, MaxRuns, MaxVertices  \* OSMGA_HW3D_MAX_TRI, _MAX_RUN, _MAX_VTX

ASSUME WordAssumption == WordMax \in Nat /\ WordMax > 0

Word(x) == x % (WordMax + 1)
Abs(x) == IF x < 0 THEN -x ELSE x
CoordMax == 8 * Span
SlopeRoom == CoordMax                        \* what a slope may add over a trapezoid
(* The header's own checks of these, which stop its build.                 *)
ASSUME SlopeAssumption == SlopeRoom <= (WordMax \div 2 - CoordMax) \div 3
ASSUME SpanAssumption == Span % QOne = 0
(* The largest product of a denominator is formed in a long.               *)
ASSUME CoordAssumption ==
  /\ {QMin, QMax} \subseteq Nat /\ {Span, QOne} \subseteq Nat \ {0}
  /\ (CoordMax \div QOne) * QMax <= WordMax \div 2
(* Six rungs, each worth no more than the one before.                      *)
ASSUME LadderAssumption ==
  Ladder \in [1..6 -> Int] /\ \A i, j \in 1..6 : i <= j => Ladder[j] <= Ladder[i]
(* A row of a texture is no longer than a word can say in bytes.           *)
ASSUME TexAssumption ==
  {MaxDim, MaxPitch} \subseteq Nat /\ 4 * MaxDim <= WordMax /\ 4 * MaxPitch <= WordMax

(* What a batch says, a primitive, a vertex and a run of vertices.  A      *)
(* batch here has the magic and the version of the path that reads it.     *)
StateFields ==
  {"dstorg", "dstWidth", "dstHeight", "dstPitch", "zorg", "texorg", "texW", "texH", "texPitch",
   "tw32", "minmode", "persp", "tmr", "biasU", "biasV",
   "scissorOn", "scissorX", "scissorY", "scissorW", "scissorH"}
TriFields ==
  {"prim", "y", "h", "ar0", "ar1", "ar2", "ar4", "ar5", "ar6", "sgn", "left", "right", "dr",
   "colour", "depth", "tu0", "tv0", "tq0"}
VertexFields == {"x", "y", "z", "rhw", "tu0", "tv0"}
RunFields == {"prim", "first", "count"}
WarpFields == {"mips", "mipOrg", "runs", "vtxCount", "vtx"}
(* The first test that is true names the refusal.                          *)
FirstRefusal(tests) ==
  LET failed == {i \in DOMAIN tests : tests[i][1]}
  IN  IF failed = {} THEN "OK" ELSE tests[Min(failed)][2]

-----------------------------------------------------------------------------
(* Registers and memory.                                                   *)

(* An origin's low bits are not part of an address.                        *)
Aligned(org, kind) == org % Align[kind] = 0

(* osmgaHW3DField: the value fits the register's signed field.             *)
Field(v, bits) == v \in (-(2^(bits - 1)))..(2^(bits - 1) - 1)

Reach(org, rows, stride, win) ==
  /\ org \in win.start..(win.end - 1)
  /\ stride # 0 => rows <= WordMax \div stride
  /\ rows * stride <= win.end - org

(* The declared destination against the driver's window.  pitch * 4 is an  *)
(* unsigned long: where it wraps to nought the division has no answer.     *)
DestFits(st, win) ==
  LET avail == win.end - st.dstorg
      row == Word(4 * st.dstPitch)
  IN FirstRefusal(<<
       <<st.dstWidth = 0 \/ st.dstHeight = 0 \/ st.dstPitch = 0, "DSTSIZE">>,
       <<st.dstorg \notin win.start..(win.end - 1), "DSTORG">>,
       <<Word(4 * st.dstWidth) > avail, "DSTSIZE">>,
       <<row = 0, "UNDEFINED">>,
       <<row # 0 /\ st.dstHeight - 1 > (avail - Word(4 * st.dstWidth)) \div row, "DSTSIZE">> >>)

(* osmgaWarpFillLimits, and what the caller adds once DestFits agreed.     *)
Limits(st, win) ==
  [pitchBytes |-> Word(4 * st.dstPitch), clipX1 |-> st.dstWidth - 1, clipY1 |-> st.dstHeight - 1,
   colour |-> win, depth |-> win, tex |-> win]

-----------------------------------------------------------------------------
(* The primitive's words: opcode, access type and comparison; the blend.   *)

OpTrap == 4
OpTex == 6
AtypeI == 7
AtypeZI == 3
ZmodeNoZcmp == 0

AddressesDepth(prim) ==
  prim.atype = AtypeZI \/ (prim.atype = AtypeI /\ prim.zmode # ZmodeNoZcmp)

(* Blend factors, as the register encodes them.                            *)
BfZero == 0
BfOne == 1
BfSrcA == 4
BfOneMinusSrcA == 5
ModeVideo == 2

AlphaCross(ac) ==
  /\ ac.mode = ModeVideo => ac.dst # BfZero /\ ~ac.stipple
  /\ ac.stipple => {ac.src, ac.dst} \in {{BfZero, BfOne}, {BfSrcA, BfOneMinusSrcA}}

PrimState(prim) ==
  FirstRefusal(<<
    <<prim.opcode \notin {OpTrap, OpTex} \/ prim.atype \notin {AtypeI, AtypeZI}, "DWGCTL">>,
    <<prim.ac.src > 8 \/ prim.ac.dst > 7 \/ prim.ac.mode = 3 \/ prim.ac.test = 1, "ALPHA">>,
    <<~AlphaCross(prim.ac), "ALPHACROSS">> >>)

-----------------------------------------------------------------------------
(* The state the primitives share.                                         *)

MinModes == {8, 9, 10, 12}                             \* MM1S MM2S MM4S MM8S

TextureState(st, mips, win) ==
  FirstRefusal(<<
    <<st.texW \notin 1..MaxDim \/ st.texH \notin 1..MaxDim
        \/ st.texPitch \notin st.texW..MaxPitch, "TEXSIZE">>,
    <<~st.tw32 \/ st.biasU > Len(Ladder) \/ st.biasV > Len(Ladder), "TEXSIZE">>,
    <<st.minmode \notin MinModes \cup {0}, "TEXSIZE">>,
    <<~Aligned(st.texorg, "tex"), "TEXORGAL">>,
    <<~Reach(st.texorg, IF st.minmode # 0 /\ mips = 0 THEN Word(2 * st.texH) ELSE st.texH,
             Word(4 * st.texPitch), win), "TEXORG">> >>)

StateCommon(st, mips, lim, anyDepth, anyTex) ==
  LET rows == Word(lim.clipY1 + 1)
      tex == TextureState(st, mips, lim.tex)
  IN FirstRefusal(<<
       <<st.dstPitch = 0 \/ st.dstWidth > st.dstPitch
           \/ lim.pitchBytes \div 4 # st.dstPitch, "DSTPITCH">>,
       <<~Aligned(st.dstPitch, "pitch"), "DSTPITCH">>,
       <<~Aligned(st.dstorg, "dst"), "DSTORGAL">>,
       <<~Reach(st.dstorg, rows, lim.pitchBytes, lim.colour), "DSTORG">>,
       <<anyDepth /\ ~Aligned(st.zorg, "z"), "ZORGAL">>,
       <<anyDepth /\ ~Reach(st.zorg, rows, (lim.pitchBytes \div 4) * 2, lim.depth), "ZORG">>,
       <<anyTex /\ tex # "OK", tex>> >>)

-----------------------------------------------------------------------------
(* One trapezoid's edges.  osmgaHW3DStep row after row comes to this many  *)
(* columns before row k: an error that starts below nought is only settled *)
(* by the first step.                                                      *)

Columns(error, slope, div, k) ==
  IF k = 0 THEN 0 ELSE LET z == error - slope + k * slope IN IF z >= 0 THEN 0 ELSE -(z \div div)
Toward(sgn, side) == IF side \in sgn THEN -1 ELSE 1
LeftAt(t, k) == t.left + Toward(t.sgn, "left") * Columns(t.ar1, t.ar2, t.ar0, k)
RightAt(t, k) == t.right + Toward(t.sgn, "right") * Columns(t.ar4, t.ar5, t.ar6, k)
Rows(t) == 0..(t.h - 1)
DrawnRows(t) == {k \in Rows(t) : LeftAt(t, k) < RightAt(t, k)}

EdgesCrossStart(t, lim) ==                   \* mutant: only the first row is walked
  t.left > t.right
EdgesCross(t, lim) ==
  \E k \in Rows(t) :
    \/ LeftAt(t, k) > RightAt(t, k)
    \/ k > 0 /\ {LeftAt(t, k), RightAt(t, k)} \ (0..(lim.clipX1 + 1)) # {}

FieldsFit(t) ==
  /\ \A a \in {t.ar0, t.ar2, t.ar5, t.ar6} : Field(a, Bits.ar)
  /\ \A a \in {t.ar1, t.ar4} : Field(a, Bits.ar1)
  /\ \A v \in t.dr : Field(v, Bits.dr)
RowOffScreen(t, lim) ==
  t.y < 0 \/ t.h <= 0 \/ t.y > lim.clipY1 \/ t.h > lim.clipY1 + 1 - t.y

(* Everything of a trapezoid that is refused at once, but its texture.     *)
Geometry(t, lim) ==
  FirstRefusal(<<
    <<PrimState(t.prim) # "OK", PrimState(t.prim)>>,
    <<RowOffScreen(t, lim), "TRIROW">>,
    <<\E a \in {t.ar1, t.ar2, t.ar4, t.ar5} : Abs(a) > EdgeWalk, "TRISLOPE">>,
    <<t.ar0 <= 0 \/ t.ar6 <= 0, "EDGEDIV">>,
    <<~FieldsFit(t), "TRIFIELD">>,
    <<t.ar2 > 0 \/ t.ar5 > 0, "TRISLOPE">>,
    <<t.left > lim.clipX1 + 1 \/ t.right > lim.clipX1 + 1 \/ t.left > t.right, "TRICOL">>,
    <<~(t.sgn \subseteq {"left", "right"}), "TRISGN">> >>)

-----------------------------------------------------------------------------
(* Texture coordinates: u = p / q, both linear in the offsets from the     *)
(* anchor, the top left corner of the trapezoid.                           *)

QOK(q) == q \in QMin..QMax
RatioOK(p, q) ==
  /\ QOK(q)
  /\ p >= -(q * (Span \div QOne))
  /\ p <= (CoordMax \div QOne) * q

UAt(st, t, dx, dy) == t.tu0 + st.tmr[1] * dx + st.tmr[2] * dy
VAt(st, t, dx, dy) == t.tv0 + st.tmr[3] * dx + st.tmr[4] * dy
QAt(st, t, dx, dy) == IF st.persp THEN t.tq0 + st.tmr[5] * dx + st.tmr[6] * dy ELSE QOne
PointOK(st, t, dx, dy) ==
  RatioOK(UAt(st, t, dx, dy), QAt(st, t, dx, dy)) /\ RatioOK(VAt(st, t, dx, dy), QAt(st, t, dx, dy))

(* The columns the rows reach, an empty row's one column included.         *)
BoxLeft(t) == Min({LeftAt(t, k) : k \in Rows(t)})
BoxRight(t) == Max({Max({LeftAt(t, k), RightAt(t, k) - 1}) : k \in Rows(t)})
Width(t) == BoxRight(t) - BoxLeft(t)

AnchorsOK(t) == Abs(t.tu0) <= CoordMax /\ Abs(t.tv0) <= CoordMax

(* What the denominator may gain before its sum leaves a long.             *)
Budget == ((WordMax + 1) \div 4 - QMax) \div 2
BudgetOK(st, t) ==
  st.persp =>
    LET mdx == Max({Abs(BoxLeft(t) - t.left), Abs(BoxRight(t) - t.left), 1})
        mrow == Max({t.h - 1, 1})
    IN  /\ QOK(t.tq0)
        /\ Abs(st.tmr[5]) <= Budget \div mdx /\ Abs(st.tmr[6]) <= Budget \div mrow

SlopesOK(st, t) ==
  LET ex == Width(t)
      ey == t.h - 1
  IN  /\ ex > 0 => \A i \in {1, 3} : Abs(st.tmr[i]) <= SlopeRoom \div ex
      /\ ey > 0 => \A i \in {2, 4} : Abs(st.tmr[i]) <= SlopeRoom \div ey

Corners(t) == {BoxLeft(t) - t.left, BoxRight(t) - t.left} \X {0, t.h - 1}
BoxOK(st, t) == \A c \in Corners(t) : PointOK(st, t, c[1], c[2])

Ends(t) == UNION {{<<LeftAt(t, k) - t.left, k>>, <<RightAt(t, k) - 1 - t.left, k>>} :
                  k \in DrawnRows(t)}
RowEndsOKLeft(st, t) ==                      \* mutant: the right end of a row is not asked
  \A k \in DrawnRows(t) : PointOK(st, t, LeftAt(t, k) - t.left, k)
RowEndsOK(st, t) == \A e \in Ends(t) : PointOK(st, t, e[1], e[2])

(* The corners answer for the rows when nobody asked for the reach.        *)
CoordinatesOK(st, t, asked) ==
  SlopesOK(st, t) /\ ((~asked /\ BoxOK(st, t)) \/ RowEndsOK(st, t))

(* The rung of the bias ladder a reach stands on; the largest whose        *)
(* residual stays in range; the rung used.                                 *)
BandFor(reach) == Cardinality({i \in 0..4 : reach > Span * 2^i})
BiasOfBand(band) == Ladder[band + 1]
Addend(v) == IF v < 0 THEN LadderTop ELSE BiasOfBand(BandFor(v))
Headroom(reach) ==
  Max({0} \cup {r \in 0..5 : reach + Addend(reach) - BiasOfBand(r) <= CoordMax})
UsedBand(request, reach) ==
  IF request = 0 THEN BandFor(reach)
  ELSE Max({BandFor(reach), Min({request - 1, Headroom(reach)})})
ReachU(st, t) == Max({0} \cup {Abs(UAt(st, t, e[1], e[2])) : e \in Ends(t)})
ReachV(st, t) == Max({0} \cup {Abs(VAt(st, t, e[1], e[2])) : e \in Ends(t)})

-----------------------------------------------------------------------------
(* A trapezoid's verdict.  The coordinates of its drawn pixels are held    *)
(* against the batch only after every trapezoid was seen, and once one is  *)
(* refused for them the later ones are not asked for theirs.               *)
Textured(t) == t.prim.opcode = OpTex
TriVerdict(st, t, lim, late) ==
  IF Geometry(t, lim) # "OK" THEN Geometry(t, lim)
  ELSE IF EdgesCross(t, lim) THEN "TRICROSS"
  ELSE IF ~Textured(t) THEN "OK"
  ELSE FirstRefusal(<< <<~late /\ ~(AnchorsOK(t) /\ BudgetOK(st, t)), "TEXCOORD">>,
                       <<DrawnRows(t) = {}, "TRIEMPTY">> >>)

Validate(st, tris, lim, asked) ==
  LET common == StateCommon(st, 0, lim, \E i \in DOMAIN tris : AddressesDepth(tris[i].prim),
                            \E i \in DOMAIN tris : Textured(tris[i]))
      Strays(i) == Textured(tris[i]) /\ TriVerdict(st, tris[i], lim, FALSE) = "OK"
                   /\ ~CoordinatesOK(st, tris[i], asked)
      Late(i) == \E j \in 1..(i - 1) : Strays(j)
      bad == {i \in DOMAIN tris : TriVerdict(st, tris[i], lim, Late(i)) # "OK"}
  IN  IF Len(tris) > MaxTris THEN "COUNT"
      ELSE IF common # "OK" THEN common
      ELSE IF bad # {} THEN TriVerdict(st, tris[Min(bad)], lim, Late(Min(bad)))
      ELSE IF Late(Len(tris) + 1) THEN "TEXCOORD" ELSE "OK"

-----------------------------------------------------------------------------
(* The scissor box, half open; there is none when nothing of it is left.   *)

ClipAxis(lo, size, dst) ==
  IF size = 0 \/ dst = 0 \/ lo >= dst THEN <<>>
  ELSE IF lo < 0 THEN IF size <= -lo THEN <<>> ELSE <<0, Min({size + lo, dst})>>
  ELSE <<lo, IF size >= dst - lo THEN dst ELSE lo + size>>

(* [x, y] as <<first, end>>; an empty side when there is nothing to draw.  *)
ClipBox(st) ==
  IF ~st.scissorOn THEN [x |-> <<0, st.dstWidth>>, y |-> <<0, st.dstHeight>>]
  ELSE [x |-> ClipAxis(st.scissorX, st.scissorW, st.dstWidth),
        y |-> ClipAxis(st.scissorY, st.scissorH, st.dstHeight)]
ClipEmpty(box) == box.x = <<>> \/ box.y = <<>>

-----------------------------------------------------------------------------
(* What both encoders derive from the client's texture flags.              *)

IsPow2(n) == \E k \in 0..30 : n = 2^k

(* osmgaHW3DTexClampAxes: repeat is granted where a mask can wrap.         *)
TexClampAxes(st, flags) ==
  IF st.texPitch # st.texW THEN {"u", "v"}
  ELSE {"u", "v"} \ ({a \in {"u"} : "REPEATU" \in flags /\ IsPow2(st.texW)}
                     \cup {a \in {"v"} : "REPEATV" \in flags /\ IsPow2(st.texH)})

(* osmgaHW3DTexFilter: a mode of levels takes the minification field.      *)
FilterNearest == 0
FilterBilinear == 2
TexFilter(flags, minmode) ==
  [mag |-> IF "BILIN" \in flags THEN FilterBilinear ELSE FilterNearest,
   min |-> IF minmode # 0 THEN minmode
           ELSE IF "BILINMIN" \in flags THEN FilterBilinear ELSE FilterNearest]

(* osmgaHW3DTexDualStage: what the stage makes of the texel and of the     *)
(* interpolated colour and alpha.                                          *)
TexDualStage(flags, textured) ==
  [colourMul |-> ~textured \/ "MODULATE" \in flags,
   alpha |-> IF ~textured THEN "ARG1"
             ELSE IF "TEXALPHA" \notin flags THEN "ARG2"
             ELSE IF "MODULATE" \in flags THEN "MUL" ELSE "ARG1"]

-----------------------------------------------------------------------------
(* Floats, as bit patterns: sign, ExpBits, ManBits.                        *)

F32Sign(p) == p \div 2^(ExpBits + ManBits)
F32Mag(p) == p % 2^(ExpBits + ManBits)
F32Exp(p) == F32Mag(p) \div 2^ManBits
F32Finite(p) == F32Exp(p) # 2^ExpBits - 1
F32PosNormal(p) == F32Sign(p) = 0 /\ F32Exp(p) \notin {0, 2^ExpBits - 1}
F32InUnit(p) ==
  F32Finite(p) /\ IF F32Sign(p) = 1 THEN F32Mag(p) = 0 ELSE p <= Float.one
F32AbsAtMost(p, limit) == F32Finite(p) /\ F32Mag(p) <= F32Mag(limit)
F32Between(p, lo, hi) == F32Finite(p) /\ F32Sign(p) = 0 /\ p >= lo /\ p <= hi

-----------------------------------------------------------------------------
(* The WARP batch: runs of vertices, each run with words of its own.       *)

Log2(n) == CHOOSE k \in 0..30 : 2^k >= n /\ (k = 0 \/ 2^(k - 1) < n)

WarpAdmits(st, run, mips) ==
  run.prim.opcode = OpTex =>
    /\ (st.minmode # 0) = (mips # 0)
    /\ mips # 0 =>
         /\ st.minmode \in MinModes /\ mips <= 4 /\ st.tw32
         /\ IsPow2(st.texW) /\ IsPow2(st.texH) /\ st.texPitch = st.texW
         /\ \A side \in {st.texW, st.texH} : Log2(side) >= 3 + mips

(* A run begins where the one before it ended, in whole triangles.         *)
RunFollows(b, r) ==
  /\ b.runs[r].first = (IF r = 1 THEN 0 ELSE b.runs[r - 1].first + b.runs[r - 1].count)
  /\ b.runs[r].count # 0 /\ b.runs[r].count % 3 = 0
  /\ b.runs[r].count <= b.vtxCount - b.runs[r].first
RunVerdict(b, r) ==
  FirstRefusal(<< <<~RunFollows(b, r), "VTXCOUNT">>,
                  <<PrimState(b.runs[r].prim) # "OK", PrimState(b.runs[r].prim)>>,
                  <<~WarpAdmits(b.state, b.runs[r], b.mips), "WARPPOLICY">> >>)

(* Level l of the chain: at least eight texels a side, aligned, in memory. *)
LevelVerdict(b, l, lim) ==
  LET w == b.state.texW \div 2^l
      h == b.state.texH \div 2^l
  IN  FirstRefusal(<< <<w < 8 \/ h < 8, "WARPPOLICY">>,
                      <<~Aligned(b.mipOrg[l], "tex"), "TEXORGAL">>,
                      <<~Reach(b.mipOrg[l], h, Word(4 * w), lim.tex), "TEXORG">> >>)

VertexOK(v) ==
  /\ F32AbsAtMost(v.x, Float.coord) /\ F32AbsAtMost(v.y, Float.coord)
  /\ F32InUnit(v.z)
  /\ F32PosNormal(v.rhw) /\ F32Between(v.rhw, Float.rhwMin, Float.rhwMax)
  /\ F32Finite(v.tu0) /\ F32Finite(v.tv0)

(* Runs in order, then the levels, then the state, then the vertices.      *)
ValidateWarp(b, lim) ==
  LET badRuns == {r \in DOMAIN b.runs : RunVerdict(b, r) # "OK"}
      badLevels == {l \in 1..b.mips : LevelVerdict(b, l, lim) # "OK"}
      last == b.runs[Len(b.runs)]
      common == StateCommon(b.state, b.mips, lim,
                            \E r \in DOMAIN b.runs : AddressesDepth(b.runs[r].prim),
                            \E r \in DOMAIN b.runs : b.runs[r].prim.opcode = OpTex)
  IN  IF \/ Len(b.runs) \notin 1..MaxRuns \/ b.vtxCount \notin 1..MaxVertices
         \/ b.vtxCount % 3 # 0
      THEN "VTXCOUNT"
      ELSE IF badRuns # {} THEN RunVerdict(b, Min(badRuns))
      ELSE IF b.mips > 4 THEN "WARPPOLICY"
      ELSE IF badLevels # {} THEN LevelVerdict(b, Min(badLevels), lim)
      ELSE IF last.first + last.count # b.vtxCount THEN "VTXCOUNT"
      ELSE IF common # "OK" THEN common
      ELSE IF \E i \in DOMAIN b.vtx : ~VertexOK(b.vtx[i]) THEN "VTXFLOAT" ELSE "OK"
=============================================================================
