----------------------------- MODULE MCMesaState -----------------------------
(* States for MesaState, in the scale of MCBatchPath: textures of at most 64 *)
(* texels a side, channels of two bits.                                      *)
EXTENDS MesaState

-----------------------------------------------------------------------------
(* A plain state, and the states around it, one group of it at a time.     *)
NoTexture ==
  [on |-> FALSE, only2D |-> TRUE, gen |-> FALSE, env |-> "REPLACE", single |-> TRUE, bound |-> TRUE,
   min |-> "NEAREST", mag |-> "NEAREST", wrapS |-> "REPEAT", wrapT |-> "REPEAT", base |-> 0,
   maxLevel |-> 1000, p |-> 5, complete |-> TRUE, bias |-> 0, minLod |-> -1000, maxLod |-> 1000,
   data |-> TRUE, compressed |-> FALSE, border |-> FALSE, format |-> "RGB", w |-> 32, h |-> 32]
Plain ==
  [kind |-> "state",
   depth |-> [on |-> FALSE, func |-> "LESS", mask |-> TRUE, bits |-> 16, placed |-> TRUE],
   blend |-> [on |-> FALSE, src |-> "ONE", dst |-> "ZERO", srcA |-> "ONE", dstA |-> "ZERO",
              equation |-> "ADD", swAlpha |-> FALSE],
   alpha |-> [on |-> FALSE, func |-> "ALWAYS", ref |-> 0],
   texture |-> NoTexture,
   scissor |-> [on |-> FALSE, x |-> 0, y |-> 0, w |-> 4, h |-> 4],
   raster |-> [hardware |-> TRUE, render |-> TRUE, noRaster |-> FALSE, rgba |-> TRUE,
               smooth |-> FALSE, stipple |-> FALSE, others |-> {}],
   surface |-> [batch |-> TRUE, placed |-> TRUE, dstorg |-> 128, zorg |-> 640, width |-> 4,
                height |-> 4, stride |-> 32]]
Texture == [NoTexture EXCEPT !.on = TRUE]
Skins ==
  {NoTexture} \cup {[Texture EXCEPT !.format = f, !.env = e] : f \in {"RGB", "RGBA"},
                                                             e \in {"REPLACE", "MODULATE"}}
SkinOdd == [Texture EXCEPT !.env = "DECAL"]
Funcs == Compares \cup {"NEVER"}

Depths ==
  {[Plain EXCEPT !.depth = [on |-> on, func |-> f, mask |-> m, bits |-> b, placed |-> p],
                 !.texture = t] :
     on \in BOOLEAN, f \in Funcs, m \in BOOLEAN, b \in {0, 16, 24}, p \in BOOLEAN,
     t \in {NoTexture, Texture}}
Alphas ==
  {[Plain EXCEPT !.alpha = [on |-> TRUE, func |-> f, ref |-> r], !.texture = t, !.depth.on = TRUE,
                 !.blend.on = b] :
     f \in Funcs, r \in 0..Full, t \in Skins, b \in BOOLEAN}
Blending(s, d, sA, dA, eq, sw) ==
  [on |-> TRUE, src |-> s, dst |-> d, srcA |-> sA, dstA |-> dA, equation |-> eq, swAlpha |-> sw]
Blends ==
  {[Plain EXCEPT !.blend = Blending(s, d, s, d, "ADD", FALSE), !.texture = t,
                 !.alpha = [on |-> a, func |-> "GREATER", ref |-> 1]] :
     s \in SrcFactors \cup {"SRC_COLOR", "SRC_ALPHA_SATURATE"},
     d \in DstFactors \cup {"DST_COLOR"}, t \in Skins, a \in BOOLEAN}
OddBlends ==
  {[Plain EXCEPT !.blend = Blending("SRC_ALPHA", d, s, a, e, w)] :
     d \in {"ZERO", "ONE_MINUS_SRC_ALPHA"}, s \in {"ONE", "SRC_ALPHA"}, a \in {"ZERO", "ONE_MINUS_SRC_ALPHA"},
     e \in {"ADD", "SUBTRACT"}, w \in BOOLEAN}

Filters == MipFilters \cup {"NEAREST", "LINEAR", "OTHER"}
Sides == {0, 8, 12, 16, 32, 63, 64}
Deepest(w, h) == IF Max({w, h}) = 0 THEN 0 ELSE Max({k \in 0..6 : 2^k <= Max({w, h})})
Sized(t, w, h) == [t EXCEPT !.w = w, !.h = h, !.p = Deepest(w, h), !.data = w * h # 0]
Wraps == {"REPEAT", "CLAMP", "CLAMP_TO_EDGE", "MIRROR"}
Wrapping ==
  {[Plain EXCEPT !.texture =
      [Sized(Texture, w, h) EXCEPT !.min = n, !.mag = m, !.wrapS = s, !.wrapT = t, !.maxLevel = 1]] :
     w \in {12, 16, 64}, h \in {12, 16, 64}, n \in Filters, m \in {"NEAREST", "LINEAR", "OTHER"},
     s \in Wraps, t \in Wraps}
Levels ==
  {[Plain EXCEPT !.texture =
      [Sized(Texture, w, h) EXCEPT !.min = n, !.maxLevel = l, !.minLod = lo, !.maxLod = hi, !.bias = b]] :
     w \in Sides, h \in Sides, n \in {"NEAREST", "LINEAR_MIPMAP_NEAREST", "LINEAR_MIPMAP_LINEAR"},
     l \in {0, 1, 2, 1000}, lo \in {-1000, 1}, hi \in {1, 1000}, b \in {0, 1}}
OddTextures ==
  {[Plain EXCEPT !.texture = t] :
     t \in {SkinOdd, [Texture EXCEPT !.only2D = FALSE], [Texture EXCEPT !.gen = TRUE],
            [Texture EXCEPT !.single = FALSE], [Texture EXCEPT !.bound = FALSE],
            [Texture EXCEPT !.base = 1], [Texture EXCEPT !.data = FALSE],
            [Texture EXCEPT !.compressed = TRUE], [Texture EXCEPT !.border = TRUE],
            [Texture EXCEPT !.format = "LUMINANCE"],
            [Texture EXCEPT !.complete = FALSE, !.min = "NEAREST_MIPMAP_NEAREST", !.maxLevel = 1]}}
OddRasters ==
  {[Plain EXCEPT !.raster.hardware = FALSE], [Plain EXCEPT !.raster.render = FALSE],
   [Plain EXCEPT !.raster.noRaster = TRUE], [Plain EXCEPT !.raster.rgba = FALSE],
   [Plain EXCEPT !.raster.smooth = TRUE], [Plain EXCEPT !.raster.stipple = TRUE],
   [Plain EXCEPT !.surface.batch = FALSE], [Plain EXCEPT !.surface.placed = FALSE],
   [Plain EXCEPT !.surface.stride = 33]}
    \cup {[Plain EXCEPT !.raster.others = {k}] :
            k \in {"ALPHABUF", "FOG", "STENCIL", "LOGIC_OP", "MASKING", "WINCLIP", "MULTI_DRAW", "OCCLUSION"}}
Clippings ==
  {[Plain EXCEPT !.scissor = [on |-> TRUE, x |-> x, y |-> y, w |-> w, h |-> h]] :
     x \in {-3, 0, 2, 4}, y \in {-1, 1, 5}, w \in {0, 1, 3, 9}, h \in {0, 2, 6}}

AllStates ==
  {Depths, Alphas, Blends, OddBlends, Wrapping, Levels, OddTextures, OddRasters, Clippings}

(* One colour and one stored colour; every alpha beside them.              *)
SampleFragments ==
  [c : {1}, a : {0, 1, 3}, tc : {2}, ta : {0, 2, 3}, dc : {2}, da : {1, 3}, z : {1}, dz : 0..2]
=============================================================================
