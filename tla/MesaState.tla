------------------------------ MODULE MesaState ------------------------------
(***************************************************************************)
(* From the state of GL to the words of the engine.  When GL's state is    *)
(* updated, osmgaMesaChooseTriangle decides whether the hook may draw it;  *)
(* osmgaMesaTriangle then translates the depth, blend, alpha and texture   *)
(* state into the words of a primitive and of a batch, offers them to the  *)
(* WARP tier first and to the trapezoids second.                           *)
(*                                                                         *)
(* What the words make the engine do to a fragment is in EngineFragment    *)
(* and EngineSampling, external; what GL asks for in GLFragment and        *)
(* GLSampling.  Products are exact: the one level by which the engine's    *)
(* differ from Mesa's is accepted at Hook.c 3249.                          *)
(***************************************************************************)
EXTENDS HW3D

CONSTANTS
  States,      \* families of GL states
  Fragments,   \* sample fragments
  Full,        \* a channel at its largest: 255
  Aperture,    \* the driver's window
  TexOrg       \* where the texture is resident

(* The driver's window is in a word's reach, and holds the textures.       *)
ASSUME ApertureAssumption ==
  /\ {Aperture.start, Aperture.end, TexOrg} \subseteq Nat /\ Aperture.end <= WordMax
  /\ Aligned(TexOrg, "tex") /\ TexOrg \in Aperture.start..(Aperture.end - 1)
  /\ MaxPitch <= MaxDim

(* Rows of memory the driver handed out.                                   *)
Within(org, rows, row, kind) ==
  /\ org \in Aperture.start..(Aperture.end - 1) /\ Aligned(org, kind)
  /\ rows * row <= Aperture.end - org
(* What OpenStepMesaAccelBuffer and OpenStepMesaAccelDepthBuffer made sure *)
(* of before they said where a surface is, and its depth.                  *)
SurfaceIsPlaced(s) ==
  s.placed => /\ s.height > 0 /\ s.width \in 1..s.stride /\ 4 * s.stride <= WordMax
              /\ Within(s.dstorg, s.height, 4 * s.stride, "dst")
DepthIsPlaced(g) ==
  g.depth.placed => Within(g.surface.zorg, g.surface.height, 2 * g.surface.stride, "z")

(* GL's numbers are integers here, and sizes are not negative.             *)
IsTexture(t) ==
  /\ {t.w, t.h} \subseteq Nat
  /\ {t.base, t.maxLevel, t.p, t.minLod, t.maxLod} \subseteq Int
IsGLState(g) ==
  /\ IsTexture(g.texture)
  /\ {g.surface.width, g.surface.height, g.surface.stride} \subseteq Nat
  /\ {g.scissor.x, g.scissor.y, g.scissor.w, g.scissor.h} \subseteq Int
  /\ SurfaceIsPlaced(g.surface) /\ DepthIsPlaced(g)
ASSUME StatesAssumption == \A family \in States : \A g \in family : IsGLState(g)

VARIABLES
  gl,
  choice,      \* of the last state update: "none", "hook", "software"
  tier,        \* who drew: "none", "software", "warp", "trapezoid"
  words        \* what was asked of the engine, or NoWords

stateVars == <<gl, choice, tier, words>>

NoState == [kind |-> "none"]
NoWords == [kind |-> "none"]

StateInit == gl = NoState /\ choice = "none" /\ tier = "none" /\ words = NoWords

-----------------------------------------------------------------------------
(* The gate.                                                               *)

Compares == {"LESS", "LEQUAL", "GREATER", "GEQUAL", "EQUAL", "NOTEQUAL", "ALWAYS"}
SrcFactors ==
  {"ZERO", "ONE", "DST_COLOR", "ONE_MINUS_DST_COLOR", "SRC_ALPHA", "ONE_MINUS_SRC_ALPHA",
   "DST_ALPHA", "ONE_MINUS_DST_ALPHA"}
DstFactors ==
  {"ZERO", "ONE", "SRC_COLOR", "ONE_MINUS_SRC_COLOR", "SRC_ALPHA", "ONE_MINUS_SRC_ALPHA",
   "DST_ALPHA", "ONE_MINUS_DST_ALPHA"}
MipFilters ==
  {"NEAREST_MIPMAP_NEAREST", "LINEAR_MIPMAP_NEAREST", "NEAREST_MIPMAP_LINEAR",
   "LINEAR_MIPMAP_LINEAR"}

BlendGate(b) ==
  /\ b.src \in SrcFactors /\ b.dst \in DstFactors
  /\ b.srcA = b.src /\ b.dstA = b.dst
  /\ b.equation = "ADD" /\ ~b.swAlpha
DepthGate(d) == d.func \in Compares /\ d.bits = 16 /\ d.placed
AlphaGate(a) == a.func \in Compares

(* osmgaMesaTexStateOK.                                                    *)
LastLevel(t) == Min({t.maxLevel, t.p}) - t.base
PointSampled(t) ==
  t.min \in {"NEAREST", "NEAREST_MIPMAP_NEAREST", "NEAREST_MIPMAP_LINEAR"} /\ t.mag = "NEAREST"
WrapGate(t) ==
  {t.wrapS, t.wrapT}
    \subseteq {"CLAMP_TO_EDGE", "REPEAT"} \cup (IF PointSampled(t) THEN {"CLAMP"} ELSE {})
ImageGate(t) ==
  /\ t.base = 0 /\ t.data /\ ~t.compressed /\ ~t.border
  /\ t.wrapS = "REPEAT" => IsPow2(t.w)
  /\ t.wrapT = "REPEAT" => IsPow2(t.h)
  /\ t.format \in {"RGB", "RGBA"}
MipGate(t) ==
  t.min \in MipFilters =>
    /\ t.complete /\ t.bias = 0 /\ t.minLod <= 0 /\ t.maxLod >= LastLevel(t)
    /\ IsPow2(t.w) /\ IsPow2(t.h) /\ LastLevel(t) \in 1..4
    /\ t.w \div 2^LastLevel(t) >= 8 /\ t.h \div 2^LastLevel(t) >= 8
TexStateOK(t) ==
  /\ t.only2D /\ ~t.gen /\ t.env \in {"REPLACE", "MODULATE"} /\ t.single /\ t.bound
  /\ t.min \in MipFilters \cup {"NEAREST", "LINEAR"} /\ t.mag \in {"NEAREST", "LINEAR"}
  /\ WrapGate(t) /\ ImageGate(t) /\ MipGate(t)

(* The bits of Mesa's RasterMask: what of GL's state touches a fragment.   *)
RasterMask(g) ==
  {k \in {"DEPTH", "BLEND", "ALPHATEST", "TEXTURE", "SCISSOR"} :
     CASE k = "DEPTH" -> g.depth.on [] k = "BLEND" -> g.blend.on
       [] k = "ALPHATEST" -> g.alpha.on [] k = "TEXTURE" -> g.texture.on
       [] k = "SCISSOR" -> g.scissor.on}
    \cup g.raster.others

RasterGate(r) == r.hardware /\ r.render /\ ~r.noRaster /\ r.rgba /\ ~r.smooth /\ ~r.stipple
SurfaceGateUnaligned(s) == s.batch /\ s.placed   \* mutant: any stride will do
SurfaceGate(s) == s.batch /\ s.placed /\ s.stride % Align.pitch = 0

ChooseTriangle(g) ==
  /\ RasterGate(g.raster) /\ SurfaceGate(g.surface)
  /\ g.blend.on => BlendGate(g.blend)
  /\ g.depth.on => DepthGate(g.depth)
  /\ g.texture.on => TexStateOK(g.texture)
  /\ g.alpha.on => AlphaGate(g.alpha)
  /\ RasterMask(g)
       \subseteq {"ALPHABUF", "DEPTH", "BLEND", "TEXTURE", "ALPHATEST", "SCISSOR"}

(* A state update.                                                         *)
UpdateState(g) ==
  /\ gl' = g /\ choice' = (IF ChooseTriangle(g) THEN "hook" ELSE "software")
  /\ UNCHANGED <<tier, words>>

-----------------------------------------------------------------------------
(* The translation.                                                        *)

ZmodeNone == -1
ZmodeCode ==
  [ALWAYS |-> ZmodeNoZcmp, EQUAL |-> 2, NOTEQUAL |-> 3, LESS |-> 4, LEQUAL |-> 5, GREATER |-> 6,
   GEQUAL |-> 7]
Zmode(d) == IF ~(d.on /\ d.bits > 0) THEN ZmodeNone ELSE ZmodeCode[d.func]

(* OSMGAMesaDwgctl.                                                        *)
Dwgctl(zmode, depthWrite, textured, ac) ==
  [opcode |-> IF textured THEN OpTex ELSE OpTrap,
   atype |-> IF zmode # ZmodeNone /\ depthWrite THEN AtypeZI ELSE AtypeI,
   zmode |-> IF zmode = ZmodeNone THEN ZmodeNoZcmp ELSE zmode,
   ac |-> ac]

(* ALPHACTRL: the factors, the mode, the alpha test and which alpha both   *)
(* use.                                                                    *)
BlendOpaque ==
  [src |-> BfOne, dst |-> BfZero, mode |-> 1, stipple |-> FALSE, test |-> 0, ref |-> 0,
   sel |-> "texture"]
BlendOver == [BlendOpaque EXCEPT !.src = BfSrcA, !.dst = BfOneMinusSrcA, !.sel = "diffused"]
SrcCode ==
  [ZERO |-> BfZero, ONE |-> BfOne, DST_COLOR |-> 2, ONE_MINUS_DST_COLOR |-> 3,
   SRC_ALPHA |-> BfSrcA, ONE_MINUS_SRC_ALPHA |-> BfOneMinusSrcA,
   DST_ALPHA |-> 6, ONE_MINUS_DST_ALPHA |-> 7]
DstCode ==
  [ZERO |-> BfZero, ONE |-> BfOne, SRC_COLOR |-> 2, ONE_MINUS_SRC_COLOR |-> 3,
   SRC_ALPHA |-> BfSrcA, ONE_MINUS_SRC_ALPHA |-> BfOneMinusSrcA,
   DST_ALPHA |-> 6, ONE_MINUS_DST_ALPHA |-> 7]
TestCode ==
  [EQUAL |-> 2, NOTEQUAL |-> 3, LESS |-> 4, LEQUAL |-> 5, GREATER |-> 6, GEQUAL |-> 7]

Blended(b) ==
  IF b.on THEN [BlendOver EXCEPT !.src = SrcCode[b.src], !.dst = DstCode[b.dst]] ELSE BlendOpaque
(* "Always" switches the test off.                                         *)
Tested(ac, a) ==
  IF a.on /\ a.func # "ALWAYS" THEN [ac EXCEPT !.test = TestCode[a.func], !.ref = a.ref]
  ELSE ac
SelectedDiffuse(ac, g) == ac                 \* mutant: a textured blend keeps the diffused alpha
Selected(ac, g) == IF g.blend.on /\ g.texture.on THEN [ac EXCEPT !.sel = "texture"] ELSE ac
Alphactrl(g) == Selected(Tested(Blended(g.blend), g.alpha), g)

MipMapnb(t) == IF t.min \in MipFilters /\ LastLevel(t) \in 1..4 THEN LastLevel(t) ELSE 0
Minmode(t) ==
  IF MipMapnb(t) = 0 THEN 0
  ELSE [NEAREST_MIPMAP_NEAREST |-> 8, LINEAR_MIPMAP_NEAREST |-> 10, NEAREST_MIPMAP_LINEAR |-> 9,
        LINEAR_MIPMAP_LINEAR |-> 12][t.min]
TexFlags(t) ==
  {f \in {"BILIN", "BILINMIN", "TEXALPHA", "MODULATE", "REPEATU", "REPEATV"} :
     CASE f = "BILIN" -> t.mag = "LINEAR"
       [] f = "BILINMIN" -> t.min \in {"LINEAR", "LINEAR_MIPMAP_NEAREST", "LINEAR_MIPMAP_LINEAR"}
       [] f = "TEXALPHA" -> t.format = "RGBA" [] f = "MODULATE" -> t.env = "MODULATE"
       [] f = "REPEATU" -> t.wrapS = "REPEAT" [] f = "REPEATV" -> t.wrapT = "REPEAT"}

(* osmgaMesaFillState, and the texture's words on top: osmgaMesaFlushWarp  *)
(* and osmgaMesaFlushPending zero them when nothing pending is textured.   *)
FillState(g, tex) ==
  LET box(v) == IF g.scissor.on THEN v ELSE 0
  IN  [dstorg |-> g.surface.dstorg, dstWidth |-> g.surface.width, dstHeight |-> g.surface.height,
       dstPitch |-> g.surface.stride, zorg |-> g.surface.zorg,
       scissorOn |-> g.scissor.on, scissorX |-> box(g.scissor.x), scissorY |-> box(g.scissor.y),
       scissorW |-> box(Max({g.scissor.w, 0})), scissorH |-> box(Max({g.scissor.h, 0})),
       texorg |-> tex.texorg, texW |-> tex.texW, texH |-> tex.texH, texPitch |-> tex.texPitch,
       tw32 |-> tex.tw32, minmode |-> tex.minmode, biasU |-> tex.biasU, biasV |-> tex.biasV,
       persp |-> tex.persp, tmr |-> tex.tmr]
BatchUntextured ==
  [texorg |-> 0, texW |-> 0, texH |-> 0, texPitch |-> 0, tw32 |-> FALSE, minmode |-> 0,
   biasU |-> 0, biasV |-> 0, persp |-> FALSE, tmr |-> <<0, 0, 0, 0, 0, 0>>]
BatchTexture(t) ==
  [BatchUntextured EXCEPT !.texorg = TexOrg, !.texW = t.w, !.texH = t.h, !.texPitch = t.w,
                          !.tw32 = TRUE, !.minmode = Minmode(t)]

WordsOf(g) ==
  LET t == g.texture
  IN  [prim |-> Dwgctl(Zmode(g.depth), g.depth.mask, t.on, Alphactrl(g)),
       state |-> FillState(g, IF t.on THEN BatchTexture(t) ELSE BatchUntextured),
       flags |-> IF t.on THEN TexFlags(t) ELSE {},
       mips |-> IF t.on THEN MipMapnb(t) ELSE 0]

(* osmgaMesaWarpTakes.                                                     *)
WarpTakes(w) ==
  PrimState(w.prim) = "OK" /\ WarpAdmits(w.state, [prim |-> w.prim], w.mips)

-----------------------------------------------------------------------------
(* One triangle.                                                           *)

(* osmgaTexUsable: what the arena takes; and there is room for it.         *)
TexUsable(t) == t.w \in 1..MaxPitch /\ t.h \in 1..MaxDim
Resident(t) == TexUsable(t) /\ 4 * t.w * t.h <= Aperture.end - TexOrg

(* The gate chose software.                                                *)
DrawSoftware ==
  /\ choice = "software" /\ tier = "none" /\ tier' = "software" /\ UNCHANGED <<gl, choice, words>>

(* A weight that is not positive, or a texture that is not resident.       *)
DrawNotResident ==
  /\ choice = "hook" /\ tier = "none" /\ gl.texture.on
  /\ tier' = "software" /\ UNCHANGED <<gl, choice, words>>

Translate(taken) ==
  /\ choice = "hook" /\ tier = "none"
  /\ gl.texture.on => Resident(gl.texture)
  /\ words' = WordsOf(gl)
  /\ tier' = IF taken /\ WarpTakes(WordsOf(gl)) THEN "warp"
             ELSE IF WordsOf(gl).state.minmode # 0 THEN "software" ELSE "trapezoid"
  /\ UNCHANGED <<gl, choice>>

(* The WARP tier is on and takes the triangle's geometry.                  *)
DrawWarp == Translate(TRUE)
(* It is off, or forced off, or declines the geometry.                     *)
DrawTrapezoid == Translate(FALSE)

Update == choice = "none" /\ \E f \in States : \E g \in f : UpdateState(g)
StateNext == Update \/ DrawSoftware \/ DrawNotResident \/ DrawWarp \/ DrawTrapezoid
StateSpec == StateInit /\ [][StateNext]_stateVars

-----------------------------------------------------------------------------
(* What GL asks for, and what the engine's words do.                       *)

(* Comparisons, of an incoming value with a stored one.                    *)
Holds(func, a, b) ==
  CASE func = "NEVER" -> FALSE [] func = "LESS" -> a < b [] func = "LEQUAL" -> a <= b
    [] func = "GREATER" -> a > b [] func = "GEQUAL" -> a >= b [] func = "EQUAL" -> a = b
    [] func = "NOTEQUAL" -> a # b [] func = "ALWAYS" -> TRUE

(* Sums are over Full^4: a stage's output over Full^2, a factor over       *)
(* Full^2 too.                                                             *)
Unit == Full * Full
Saturated(v) == Min({v, Unit * Unit})

(* A fragment: its colour and alpha, its texel's, those and the depth that *)
(* are stored already, and its depth.                                      *)
GLStage(t, f) ==
  LET mul == t.env = "MODULATE"
  IN  [c |-> IF ~t.on THEN f.c * Full ELSE IF mul THEN f.c * f.tc ELSE f.tc * Full,
       a |-> IF ~t.on \/ t.format = "RGB" THEN f.a * Full
             ELSE IF mul THEN f.a * f.ta ELSE f.ta * Full]
GLFactor(name, s, f) ==
  CASE name = "ZERO" -> [c |-> 0, a |-> 0]
    [] name = "ONE" -> [c |-> Unit, a |-> Unit]
    [] name = "DST_COLOR" -> [c |-> f.dc * Full, a |-> f.da * Full]
    [] name = "ONE_MINUS_DST_COLOR" -> [c |-> Unit - f.dc * Full, a |-> Unit - f.da * Full]
    [] name = "SRC_COLOR" -> [c |-> s.c, a |-> s.a]
    [] name = "ONE_MINUS_SRC_COLOR" -> [c |-> Unit - s.c, a |-> Unit - s.a]
    [] name = "SRC_ALPHA" -> [c |-> s.a, a |-> s.a]
    [] name = "ONE_MINUS_SRC_ALPHA" -> [c |-> Unit - s.a, a |-> Unit - s.a]
    [] name = "DST_ALPHA" -> [c |-> f.da * Full, a |-> f.da * Full]
    [] name = "ONE_MINUS_DST_ALPHA" -> [c |-> Unit - f.da * Full, a |-> Unit - f.da * Full]
GLFragment(g, f) ==
  LET s == GLStage(g.texture, f)
      fs == IF g.blend.on THEN GLFactor(g.blend.src, s, f).c ELSE Unit
      fd == IF g.blend.on THEN GLFactor(g.blend.dst, s, f).c ELSE 0
      fsA == IF g.blend.on THEN GLFactor(g.blend.srcA, s, f).a ELSE Unit
      fdA == IF g.blend.on THEN GLFactor(g.blend.dstA, s, f).a ELSE 0
      passes == /\ g.alpha.on => Holds(g.alpha.func, s.a, g.alpha.ref * Full)
                /\ g.depth.on => Holds(g.depth.func, f.z, f.dz)
  IN  IF ~passes THEN [z |-> f.dz, c |-> f.dc * Full * Unit, a |-> f.da * Full * Unit]
      ELSE [z |-> IF g.depth.on /\ g.depth.mask THEN f.z ELSE f.dz,
            c |-> Saturated(s.c * fs + f.dc * Full * fd),
            a |-> Saturated(s.a * fsA + f.da * Full * fdA)]

(* The engine.  Without a texture the stage hands on the interpolated      *)
(* colour and alpha, and an alpha test of the stage's alpha was measured   *)
(* to see that (docs/W17, section 9).                                      *)
EngineStage(w, f) ==
  LET s == TexDualStage(w.flags, w.prim.opcode = OpTex)
      textured == w.prim.opcode = OpTex
  IN  [c |-> IF ~textured THEN f.c * Full ELSE IF s.colourMul THEN f.c * f.tc ELSE f.tc * Full,
       a |-> IF ~textured \/ s.alpha = "ARG2" THEN f.a * Full
             ELSE IF s.alpha = "MUL" THEN f.a * f.ta ELSE f.ta * Full]
EngineFactor(code, alpha, other, f) ==
  LET of == <<0, Unit, other, Unit - other, alpha, Unit - alpha, f.da * Full, Unit - f.da * Full>>
  IN  of[code + 1]
CompareName == <<"NEVER", "EQUAL", "NOTEQUAL", "LESS", "LEQUAL", "GREATER", "GEQUAL">>
EngineCompares(code, a, b) == code = 0 \/ Holds(CompareName[code], a, b)
EngineFragment(w, f) ==
  LET s == EngineStage(w, f)
      ac == w.prim.ac
      alpha == IF ac.sel = "texture" THEN s.a ELSE f.a * Full
      passes == /\ EngineCompares(ac.test, alpha, ac.ref * Full)
                /\ AddressesDepth(w.prim) => EngineCompares(w.prim.zmode, f.z, f.dz)
      Blend(v, d) ==
        Saturated(v * EngineFactor(ac.src, alpha, d, f) + d * EngineFactor(ac.dst, alpha, v, f))
  IN  IF ~passes THEN [z |-> f.dz, c |-> f.dc * Full * Unit, a |-> f.da * Full * Unit]
      ELSE [z |-> IF w.prim.atype = AtypeZI THEN f.z ELSE f.dz,
            c |-> Blend(s.c, f.dc * Full), a |-> Blend(s.a, f.da * Full)]

(* Which texels a fragment is made of: the filters, the levels and what    *)
(* happens past an edge.  A border is blended in only by a linear filter.  *)
GLWrap(wrap, linear) ==
  CASE wrap = "REPEAT" -> "repeat" [] wrap = "CLAMP_TO_EDGE" -> "edge"
    [] wrap = "CLAMP" -> IF linear THEN "border" ELSE "edge"
GLSampling(t) ==
  LET mip == t.min \in MipFilters
      last == t.base + Max({0, Min({LastLevel(t), t.maxLod})})
  IN  [mag |-> t.mag, min |-> t.min,
       first |-> t.base + IF mip THEN Max({0, t.minLod}) ELSE 0,
       last |-> IF mip THEN last ELSE t.base,
       bias |-> IF mip THEN t.bias ELSE 0,
       u |-> GLWrap(t.wrapS, ~PointSampled(t)), v |-> GLWrap(t.wrapT, ~PointSampled(t))]
FilterName(code) ==
  CASE code = FilterNearest -> "NEAREST" [] code = FilterBilinear -> "LINEAR"
    [] code = 8 -> "NEAREST_MIPMAP_NEAREST" [] code = 9 -> "NEAREST_MIPMAP_LINEAR"
    [] code = 10 -> "LINEAR_MIPMAP_NEAREST" [] code = 12 -> "LINEAR_MIPMAP_LINEAR"
EngineSampling(w) ==
  LET filter == TexFilter(w.flags, w.state.minmode)
      axes == TexClampAxes(w.state, w.flags)
      Past(a) == IF a \in axes THEN "edge" ELSE "repeat"
  IN  [mag |-> FilterName(filter.mag), min |-> FilterName(filter.min), first |-> 0,
       last |-> w.mips, bias |-> 0, u |-> Past("u"), v |-> Past("v")]

(* The scissor's pixels, and the clip box's.                               *)
Pixels(s) == (0..(s.width - 1)) \X (0..(s.height - 1))
InScissor(s, p) ==
  s.on => p[1] \in s.x..(s.x + s.w - 1) /\ p[2] \in s.y..(s.y + s.h - 1)
InClip(w, p) ==
  LET box == ClipBox(w.state)
  IN  /\ ~ClipEmpty(box)
      /\ p[1] \in box.x[1]..(box.x[2] - 1) /\ p[2] \in box.y[1]..(box.y[2] - 1)

-----------------------------------------------------------------------------
(* Properties.                                                             *)

StateTypeOK ==
  /\ choice \in {"none", "hook", "software"}
  /\ tier \in {"none", "software", "warp", "trapezoid"}
  /\ (tier = "none" \/ choice = "software") => words = NoWords

Drawn == tier \in {"warp", "trapezoid"}

(* A state the gate let through is one both the hook's own question to the *)
(* WARP tier and the driver's checks of the state accept: no triangle of   *)
(* it is declined silently, or refused in the ring, for what the state is  *)
(* (osmgaMesaChooseTriangle against osmgaHW3DValidateStateCommon and       *)
(* osmgaHW3DWarpAdmits).                                                   *)
AdmittedIsTaken ==
  words # NoWords =>
    /\ WarpTakes(words)
    /\ StateCommon(words.state, words.mips, Limits(words.state, Aperture),
                   AddressesDepth(words.prim), words.prim.opcode = OpTex) = "OK"

(* Whatever the depth, blend, alpha and texture state, the words make of   *)
(* every fragment what GL's state says: the same colour, alpha and depth,  *)
(* and the same fragments discarded (osmgaMesaTriangle's translation, the  *)
(* encoders' stage word); and the clip box keeps the pixels GL's scissor   *)
(* keeps (osmgaMesaFillState, osmgaHW3DClipBox).                           *)
FragmentsAgree ==
  Drawn => /\ \A f \in Fragments : EngineFragment(words, f) = GLFragment(gl, f)
           /\ \A p \in Pixels(gl.surface) : InClip(words, p) <=> InScissor(gl.scissor, p)

(* A textured fragment is made of the texels GL's filters, levels and      *)
(* wraps name (osmgaHW3DTexFilter, osmgaHW3DTexClampAxes).                 *)
SamplingAgrees ==
  Drawn /\ gl.texture.on => EngineSampling(words) = GLSampling(gl.texture)

(* Both: what is drawn is drawn as GL has it.                              *)
DrawnAsGL == FragmentsAgree /\ SamplingAgrees
=============================================================================
