------------------------- MODULE MesaPictures_proofs -------------------------
(* What holds of the two pictures for any number of contexts, arrays, sizes  *)
(* and tiles, and for any number of brackets.                                *)
EXTENDS MesaPictures, TLAPS

BufType ==
  [mapped : BOOLEAN, ctx : Contexts \cup {Nobody}, bound : Contexts \cup {Nobody},
   app : Arrays \cup {Nobody}, size : Sizes \cup {0}, dirty : BOOLEAN,
   full : BOOLEAN, present : BOOLEAN]
PictureType == [Arrays -> [Tiles -> BOOLEAN]]

\* The types an induction needs: those of TypeOK, of the context that is current,
\* of the armed clear and of the box that the writers report.
PicturesOK ==
  /\ hw \in BOOLEAN /\ narrow \in BOOLEAN
  /\ current \in Contexts \cup {Nobody} /\ hooked \subseteq Contexts
  /\ buf \in BufType
  /\ buf.bound # Nobody => buf.mapped /\ buf.ctx = buf.bound /\ buf.app # Nobody
  /\ same \in PictureType
  /\ depth \in [ctx : Contexts \cup {Nobody}, size : Sizes \cup {0}]
BracketOK ==
  /\ pend \subseteq Tiles /\ readInto \subseteq Tiles /\ unreported \subseteq Tiles
  /\ area \in [full : BOOLEAN, valid : BOOLEAN, lo : Int, hi : Int]
  /\ area.valid => <<area.lo, area.hi>> \in Boxes
  /\ span \in [wrote : BOOLEAN, read : BOOLEAN, was : BOOLEAN]
  /\ uniform \in [armed : BOOLEAN, own : BOOLEAN]
Inv == PicturesOK /\ BracketOK /\ DepthHasItsSurface

\* A step that leaves the surface with whom it belongs to.
SameOwner ==
  /\ buf' \in BufType
  /\ buf'.mapped = buf.mapped /\ buf'.ctx = buf.ctx /\ buf'.bound = buf.bound
  /\ buf'.app = buf.app /\ buf'.size = buf.size /\ buf'.present = buf.present
\* A step that copies nothing: a tile that agrees afterwards agreed before.
Shrinks == \A a \in Arrays : \A t \in Tiles : same'[a][t] => same[a][t]
LiveStep == buf.present /\ buf'.present => Shrinks

\* Nothing is mapped, bound or reported at the start.
LEMMA InvInit == Init => Inv
<1> SUFFICES ASSUME Init PROVE Inv
  OBVIOUS
<1>1. buf \in BufType /\ buf.bound = Nobody
  BY DEF Init, Free, BufType
<1>2. same \in PictureType
  BY DEF Init, PictureType
<1>3. PicturesOK
  BY <1>1, <1>2 DEF Init, PicturesOK
<1>4. BracketOK
  BY DEF Init, BracketOK, NoArea, NoUniform
<1> QED BY <1>3, <1>4 DEF Inv, DepthHasItsSurface, Init

\* The depth mapping survives every step that leaves it and its surface alone.
LEMMA DepthStands ==
  DepthHasItsSurface /\ UNCHANGED depth /\ SameOwner => DepthHasItsSurface'
BY DEF DepthHasItsSurface, SameOwner

\* Whatever a delivery copies, it moves nothing but the marks of the surface, and
\* while the surface is presented it copies nothing at all.
LEMMA DeliverStep ==
  ASSUME PicturesOK, BracketOK, Deliver
  PROVE  SameOwner /\ same' \in PictureType /\ LiveStep
<1> USE DEF PicturesOK, BracketOK
<1> DEFINE Wanted == SameOwner /\ same' \in PictureType /\ LiveStep
<1>1. CASE Nothing
  <2>1. buf' = buf /\ same' = same
    BY <1>1 DEF Nothing
  <2> QED BY <2>1 DEF SameOwner, LiveStep, Shrinks
<1>2. CASE Unsoil
  BY <1>2 DEF Unsoil, SameOwner, LiveStep, Shrinks, BufType
<1>3. ASSUME NEW STATE tiles, NEW STATE full, full \in BOOLEAN, ~buf.present,
             buf' = [buf EXCEPT !.dirty = FALSE, !.full = full], same' = Delivered(tiles)
      PROVE  Wanted
  <2>1. SameOwner
    BY <1>3 DEF SameOwner, BufType
  <2>2. same' \in PictureType
    BY <1>3 DEF Delivered, PictureType
  <2> QED BY <2>1, <2>2, <1>3 DEF LiveStep
<1>4. CASE Mirror
  <2>1. CASE buf.present \/ ~buf.mapped \/ buf.app = Nobody \/ ~buf.dirty
    BY <2>1, <1>4, <1>1 DEF Mirror
  <2>2. CASE ~(buf.present \/ ~buf.mapped \/ buf.app = Nobody \/ ~buf.dirty)
    <3>1. buf' = [buf EXCEPT !.dirty = FALSE, !.full = buf.full]
      BY <2>2, <1>4 DEF Mirror, BufType
    <3>2. same' = Delivered(Tiles) /\ ~buf.present /\ buf.full \in BOOLEAN
      BY <2>2, <1>4 DEF Mirror, BufType
    <3> QED BY <3>1, <3>2, <1>3
  <2> QED BY <2>1, <2>2
<1>5. ASSUME NEW lo, NEW hi, MirrorNarrow(lo, hi) PROVE Wanted
  <2>1. CASE buf.present \/ ~buf.mapped \/ buf.app = Nobody \/ ~buf.dirty
    BY <2>1, <1>5, <1>1 DEF MirrorNarrow
  <2>2. CASE ~(buf.present \/ ~buf.mapped \/ buf.app = Nobody \/ ~buf.dirty)
    BY <2>2, <1>5, <1>3 DEF MirrorNarrow
  <2> QED BY <2>1, <2>2
<1>6. CASE Fill(uniform.own)
  <2>1. CASE buf.present \/ ~buf.mapped \/ buf.app = Nobody
    BY <2>1, <1>6, <1>1 DEF Fill
  <2>2. CASE ~(buf.present \/ ~buf.mapped \/ buf.app = Nobody)
    <3>1. same' \in PictureType
      BY <2>2, <1>6 DEF Fill, PictureType
    <3>2. SameOwner
      BY <2>2, <1>6 DEF Fill, SameOwner, BufType
    <3> QED BY <2>2, <3>1, <3>2 DEF LiveStep
  <2> QED BY <2>1, <2>2
<1> HIDE DEF Wanted
<1>7. Nothing \/ Unsoil \/ Fill(uniform.own) \/ Mirror \/ (\E lo, hi : MirrorNarrow(lo, hi))
  BY Zenon DEF Deliver
<1>8. Wanted
  BY <1>1, <1>2, <1>4, <1>5, <1>6, <1>7 DEF Wanted
<1> QED BY <1>8 DEF Wanted

\* Painting makes tiles differ and never agree.
LEMMA PaintedStep ==
  ASSUME same \in PictureType, NEW STATE tiles, same' = Painted(same, tiles)
  PROVE  same' \in PictureType /\ Shrinks
BY DEF Painted, PictureType, Shrinks

\* A step outside binding: given what it does to the surface, the picture and the
\* depth mapping, the first part of the invariant stands.
LEMMA PicturesStand ==
  ASSUME PicturesOK, DepthHasItsSurface, SameOwner, same' \in PictureType, UNCHANGED depth,
         hw' \in BOOLEAN, narrow' \in BOOLEAN, UNCHANGED current, hooked' \subseteq Contexts
  PROVE  PicturesOK' /\ DepthHasItsSurface'
<1>1. DepthHasItsSurface'
  BY DepthStands
<1>2. PicturesOK'
  BY DEF PicturesOK, SameOwner
<1> QED BY <1>1, <1>2

-----------------------------------------------------------------------------
\* Rebinding, rebinding refused and a fresh surface: the surface has one owner, and
\* an array is made equal to it only when it is not presented.
LEMMA BufferStep ==
  ASSUME PicturesOK, NEW c \in Contexts, NEW a \in Arrays, NEW size \in Sizes,
         NEW room \in BOOLEAN, AccelBuffer(c, a, size, room)
  PROVE  /\ buf' \in BufType
         /\ buf'.bound # Nobody => buf'.mapped /\ buf'.ctx = buf'.bound /\ buf'.app # Nobody
         /\ buf.mapped => buf'.mapped /\ buf'.ctx = buf.ctx /\ buf'.size = buf.size
         /\ same' \in PictureType /\ LiveStep
<1> USE NobodyAssumption DEF PicturesOK
<1>1. ASSUME NEW STATE b, b.present = buf.present, b.app \in Arrays, buf'.present = b.present, Import(b)
      PROVE  same' \in PictureType /\ LiveStep
  <2>1. CASE buf.present
    BY <2>1, <1>1 DEF Import, LiveStep, Shrinks
  <2>2. CASE ~buf.present
    <3>1. same' = [z \in Arrays |-> [t \in Tiles |-> z = b.app \/ (same[z][t] /\ same[b.app][t])]]
      BY <2>2, <1>1 DEF Import
    <3>2. \A z \in Arrays : \A t \in Tiles : (z = b.app \/ (same[z][t] /\ same[b.app][t])) \in BOOLEAN
      OBVIOUS
    <3>3. same' \in PictureType
      BY <3>1, <3>2, Zenon DEF PictureType
    <3> QED BY <2>2, <3>3 DEF LiveStep
  <2> QED BY <2>1, <2>2
<1>2. CASE buf' = Unbound(c) /\ UNCHANGED same
  BY <1>2 DEF Unbound, BufType, LiveStep, Shrinks
<1>3. CASE hw /\ buf.mapped /\ buf.ctx = c /\ buf' = Rebound(a) /\ Import(Rebound(a))
  <2>1. /\ buf' \in BufType /\ buf'.mapped /\ buf'.ctx = buf.ctx /\ buf'.size = buf.size
        /\ buf'.bound = buf.ctx /\ buf'.app = a /\ buf'.present = buf.present
    BY <1>3 DEF Rebound, BufType
  <2>2. same' \in PictureType /\ LiveStep
    BY <2>1, <1>1, <1>3
  <2> QED BY <2>1, <2>2
<1>4. CASE ~buf.mapped /\ buf' = Fresh(c, a, size) /\ Import(Fresh(c, a, size))
  <2>1. /\ buf' \in BufType /\ buf'.mapped /\ buf'.ctx = c /\ buf'.bound = c /\ buf'.app = a
        /\ buf'.present = buf.present
    BY <1>4 DEF Fresh, BufType
  <2>2. same' \in PictureType /\ LiveStep
    BY <2>1, <1>1, <1>4
  <2> QED BY <2>1, <2>2, <1>4
<1> QED BY <1>2, <1>3, <1>4, Zenon DEF AccelBuffer

\* MakeCurrent binds or unbinds; the depth mapping keeps its surface.
LEMMA BindStep ==
  ASSUME Inv, NEW c \in Contexts, NEW a \in Arrays, NEW size \in Sizes, NEW room \in BOOLEAN,
         MakeCurrent(c, a, size, room)
  PROVE  Inv' /\ LiveStep
<1> USE DEF Inv
<1>1. AccelBuffer(c, a, size, room) /\ UNCHANGED <<hw, depth, hookState>> /\ current' = c
  BY DEF MakeCurrent
<1>2. /\ buf' \in BufType
      /\ buf'.bound # Nobody => buf'.mapped /\ buf'.ctx = buf'.bound /\ buf'.app # Nobody
      /\ buf.mapped => buf'.mapped /\ buf'.ctx = buf.ctx /\ buf'.size = buf.size
      /\ same' \in PictureType /\ LiveStep
  BY <1>1, BufferStep
<1>3. PicturesOK'
  BY <1>1, <1>2 DEF PicturesOK, hookState
<1>4. DepthHasItsSurface'
  BY <1>1, <1>2 DEF DepthHasItsSurface
<1>5. /\ readInto' = readInto \/ readInto' = {}
      /\ unreported' = unreported \/ unreported' = {}
  BY DEF MakeCurrent
<1>6. BracketOK'
  BY <1>1, <1>5 DEF BracketOK, hookState
<1> QED BY <1>2, <1>3, <1>4, <1>6

\* The depth mapping is made for the context and the size of the surface there is.
LEMMA DepthStep ==
  ASSUME Inv, NEW c \in Contexts, NEW size \in Sizes, NEW fits, DepthBuffer(c, size, fits)
  PROVE  Inv' /\ LiveStep
<1> USE DEF Inv, DepthBuffer, hookState
<1>1. PicturesOK'   BY DEF PicturesOK
<1>2. BracketOK'    BY DEF BracketOK
<1>3. DepthHasItsSurface'  BY DEF DepthHasItsSurface
<1>4. LiveStep      BY DEF LiveStep, Shrinks
<1> QED BY <1>1, <1>2, <1>3, <1>4

\* Release gives both mappings back together.
LEMMA ReleaseStep ==
  ASSUME Inv, NEW c, Release(c)
  PROVE  Inv' /\ LiveStep
<1> USE DEF Inv, Release, hookState
<1>1. buf' \in BufType /\ buf'.bound = Nobody /\ ~buf'.present
  BY DEF Free, BufType
<1>2. same' \in PictureType
  BY DEF PictureType
<1>3. PicturesOK'   BY <1>1, <1>2 DEF PicturesOK
<1>4. BracketOK'    BY DEF BracketOK
<1>5. DepthHasItsSurface'  BY DEF DepthHasItsSurface
<1> QED BY <1>1, <1>3, <1>4, <1>5 DEF LiveStep

\* Modes, revocation and the clear pixel leave both pictures alone.
LEMMA ModeStep ==
  ASSUME Inv, Mode
  PROVE  Inv' /\ LiveStep
<1> USE DEF Inv, hookState
<1>1. CASE Revoke \/ Validate \/ (\E on \in BOOLEAN : NarrowMirror(on))
              \/ (\E c \in Contexts : ClearPixel(c))
  <2>1. UNCHANGED <<buf, same, depth, current, pend, readInto, unreported, area, span, uniform>>
    BY <1>1 DEF Revoke, Validate, NarrowMirror, ClearPixel
  <2>2. hw' \in BOOLEAN /\ narrow' \in BOOLEAN /\ hooked' \subseteq Contexts
    BY <1>1 DEF Revoke, Validate, NarrowMirror, ClearPixel, UpdateState, PicturesOK
  <2>3. SameOwner /\ LiveStep /\ same' \in PictureType
    BY <2>1 DEF SameOwner, LiveStep, Shrinks, PicturesOK
  <2>4. BracketOK'
    BY <2>1 DEF BracketOK
  <2> QED BY <2>1, <2>2, <2>3, <2>4, PicturesStand
<1>2. ASSUME NEW on \in BOOLEAN, PresentMode(on) PROVE Inv' /\ LiveStep
  <2>1. /\ buf' \in BufType /\ buf'.mapped = buf.mapped /\ buf'.ctx = buf.ctx
        /\ buf'.bound = buf.bound /\ buf'.app = buf.app /\ buf'.size = buf.size
    BY <1>2 DEF PresentMode, PicturesOK, BufType
  <2>2. PicturesOK'          BY <2>1, <1>2 DEF PresentMode, PicturesOK
  <2>3. BracketOK'           BY <1>2 DEF PresentMode, BracketOK
  <2>4. DepthHasItsSurface'  BY <2>1, <1>2 DEF PresentMode, DepthHasItsSurface
  <2>5. LiveStep             BY <1>2 DEF PresentMode, LiveStep, Shrinks
  <2> QED BY <2>2, <2>3, <2>4, <2>5
<1> QED BY <1>1, <1>2 DEF Mode

-----------------------------------------------------------------------------
\* A box of the picture is two tiles of it, and its tiles are tiles.
LEMMA BoxFacts ==
  ASSUME NEW box \in Boxes
  PROVE  box[1] \in Int /\ box[2] \in Int /\ Box(box[1], box[2]) \subseteq Tiles
BY WidthAssumption DEF Boxes, Box, Tiles

\* Reporting a vertex box keeps the reported box a box of the picture.
LEMMA AreaAddOK ==
  ASSUME BracketOK, NEW box \in Boxes, area' = AreaAdd(box)
  PROVE  /\ area' \in [full : BOOLEAN, valid : BOOLEAN, lo : Int, hi : Int]
         /\ area'.valid => <<area'.lo, area'.hi>> \in Boxes
<1> USE WidthAssumption DEF BracketOK
<1>1. box[1] \in Tiles /\ box[2] \in Tiles /\ box[1] <= box[2] /\ Tiles \subseteq Int
  BY DEF Boxes, Tiles
<1>2. area.valid => area.lo \in Tiles /\ area.hi \in Tiles /\ area.lo <= area.hi
  BY DEF Boxes
<1>3. CASE ~area.valid
  <2>1. area' = [area EXCEPT !.valid = TRUE, !.lo = box[1], !.hi = box[2]]
    BY <1>3 DEF AreaAdd
  <2> QED BY <1>1, <2>1 DEF Boxes
<1>4. CASE area.valid
  <2>1. area' = [area EXCEPT !.lo = Lesser(area.lo, box[1]), !.hi = Greater(area.hi, box[2])]
    BY <1>4 DEF AreaAdd
  <2>2. /\ Lesser(area.lo, box[1]) \in Tiles /\ Greater(area.hi, box[2]) \in Tiles
        /\ Lesser(area.lo, box[1]) <= Greater(area.hi, box[2])
    <3>1. area.lo \in Tiles /\ area.hi \in Tiles /\ area.lo <= area.hi
      BY <1>2, <1>4
    <3>2. \A x, y \in Tiles : /\ Lesser(x, y) \in Tiles /\ Lesser(x, y) <= x /\ x <= Greater(x, y)
                             /\ Greater(x, y) \in Tiles
      BY <1>1 DEF Lesser, Greater, Tiles
    <3>3. \A x, y, z \in Tiles : x <= y /\ y <= z => x <= z
      BY <1>1 DEF Tiles
    <3>4. Lesser(area.lo, box[1]) \in Tiles /\ Greater(area.hi, box[2]) \in Tiles
      BY <1>1, <3>1, <3>2
    <3>5. Lesser(area.lo, box[1]) <= area.hi
      BY <1>1, <3>1, <3>2, <3>3, <3>4
    <3>6. area.hi <= Greater(area.hi, box[2])
      BY <1>1, <3>1, <3>2
    <3> QED BY ONLY <3>1, <3>3, <3>4, <3>5, <3>6
  <2> QED BY <1>1, <2>1, <2>2 DEF Boxes
<1> QED BY <1>3, <1>4

\* A bracket opens: the surface is marked, and a clear before it has painted.
LEMMA OpenStep ==
  ASSUME Inv, NEW kind, Opens(kind), NEW STATE b, NEW STATE cleared, b \in {buf, Soiled(buf)},
         cleared.taken \in BOOLEAN, cleared.armed \in BOOLEAN, cleared.own \in BOOLEAN,
         Soil(b, cleared), same' \in PictureType, Shrinks, UNCHANGED <<pend, readInto>>,
         unreported' \subseteq unreported
  PROVE  Inv' /\ LiveStep
<1> USE DEF Inv
<1>1. SameOwner
  BY DEF Soil, Soiled, SameOwner, PicturesOK, BufType
<1>2. hooked' \subseteq Contexts /\ UNCHANGED <<hw, narrow, current, depth>>
  BY DEF Opens, UpdateState, PicturesOK
<1>3. PicturesOK' /\ DepthHasItsSurface'
  BY <1>1, <1>2, PicturesStand DEF PicturesOK
<1>4. b.dirty \in BOOLEAN
  BY DEF Soiled, PicturesOK, BufType
<1>5. BracketOK'
  <2>1. area' \in [full : BOOLEAN, valid : BOOLEAN, lo : Int, hi : Int] /\ ~area'.valid
    <3>1. area' = [full |-> cleared.taken, valid |-> FALSE, lo |-> 0, hi |-> 0]
      BY DEF Soil, AreaReset, NoArea
    <3> QED BY <3>1
  <2>2. span' \in [wrote : BOOLEAN, read : BOOLEAN, was : BOOLEAN]
    BY <1>4 DEF Soil
  <2>3. uniform' \in [armed : BOOLEAN, own : BOOLEAN]
    BY DEF Soil
  <2> QED BY <2>1, <2>2, <2>3 DEF BracketOK
<1> QED BY <1>3, <1>5 DEF LiveStep

LEMMA OpeningStep ==
  ASSUME Inv, Open
  PROVE  Inv' /\ LiveStep
<1>1. ASSUME NEW box \in Boxes, NEW kind, RenderStart(kind, box) PROVE Inv' /\ LiveStep
  <2>1. same' \in PictureType /\ Shrinks
    BY <1>1 DEF RenderStart, Inv, PicturesOK, Shrinks
  <2>2. /\ Opens(kind) /\ Soil(buf, NoClear) /\ UNCHANGED <<pend, readInto>>
        /\ unreported' \subseteq unreported
    BY <1>1 DEF RenderStart
  <2>3. NoClear.taken \in BOOLEAN /\ NoClear.armed \in BOOLEAN /\ NoClear.own \in BOOLEAN
    BY DEF NoClear
  <2> QED BY <2>1, <2>2, <2>3, OpenStep
<1>2. ASSUME NEW box \in Boxes, NEW engine \in BOOLEAN, Clear(engine, box)
      PROVE  Inv' /\ LiveStep
  <2> DEFINE Left == [taken |-> engine, armed |-> engine /\ ArmedForAll(box),
                      own |-> pixelOf = current]
  <2>1. same' \in PictureType /\ Shrinks
    BY <1>2, PaintedStep DEF Clear, Inv, PicturesOK
  <2>2. /\ Opens("clear") /\ Soil(Soiled(buf), Left) /\ UNCHANGED <<pend, readInto>>
        /\ unreported' \subseteq unreported
    BY <1>2 DEF Clear
  <2>3. Left.taken \in BOOLEAN /\ Left.armed \in BOOLEAN /\ Left.own \in BOOLEAN
    OBVIOUS
  <2> HIDE DEF Left
  <2> QED BY <2>1, <2>2, <2>3, OpenStep
<1> QED BY <1>1, <1>2 DEF Open

\* What is drawn inside a bracket only makes tiles differ.
LEMMA PaintStep ==
  ASSUME Inv, Paint
  PROVE  Inv' /\ LiveStep
<1> USE DEF Inv
<1>1. ASSUME UNCHANGED <<buf, hw, current, depth, hooked, narrow>>, same' \in PictureType, Shrinks
      PROVE  PicturesOK' /\ DepthHasItsSurface' /\ LiveStep
  <2>1. SameOwner
    BY <1>1 DEF SameOwner, PicturesOK
  <2> QED BY <1>1, <2>1, PicturesStand DEF PicturesOK, LiveStep
<1>2. ASSUME NEW box \in Boxes, Triangle(box) PROVE Inv' /\ LiveStep
  <2>1. same' \in PictureType /\ Shrinks
    BY <1>2 DEF Triangle, PicturesOK, Shrinks
  <2>2. BracketOK'
    BY <1>2, AreaAddOK, BoxFacts DEF Triangle, BracketOK, Within, Scissored
  <2> QED BY <2>1, <2>2, <1>1, <1>2 DEF Triangle, Within
<1>3. ASSUME NEW box \in Boxes, GatedTriangle(box) PROVE Inv' /\ LiveStep
  <2>1. same' \in PictureType /\ Shrinks
    BY <1>3, PaintedStep DEF GatedTriangle, PicturesOK
  <2>2. BracketOK'
    BY <1>3, BoxFacts DEF GatedTriangle, BracketOK, Within, Scissored
  <2> QED BY <2>1, <2>2, <1>1, <1>3 DEF GatedTriangle, Within
<1>4. ASSUME NEW box \in Boxes, NEW flag \in BOOLEAN, Spans(box, flag) PROVE Inv' /\ LiveStep
  <2>1. same' \in PictureType /\ Shrinks
    BY <1>4, PaintedStep DEF Spans, PicturesOK
  <2>2. span' \in [wrote : BOOLEAN, read : BOOLEAN, was : BOOLEAN]
    BY <1>4 DEF Spans, BracketOK
  <2>3. BracketOK'
    BY <1>4, <2>2, AreaAddOK DEF Spans, BracketOK, Within
  <2> QED BY <2>1, <2>3, <1>1, <1>4 DEF Spans, Within
<1>5. ASSUME NEW box \in Boxes, NEW flag \in BOOLEAN, ReadSpans(box, flag) PROVE Inv' /\ LiveStep
  <2>1. same' \in PictureType /\ Shrinks
    <3>1. CASE flag
      <4> DEFINE Row == [t \in Tiles |-> same[buf.app][t] /\ t \notin Box(box[1], box[2])]
      <4>1. same' = [same EXCEPT ![buf.app] = Row]
        BY <1>5, <3>1 DEF ReadSpans
      <4>2. Row \in [Tiles -> BOOLEAN] /\ \A t \in Tiles : Row[t] => same[buf.app][t]
        OBVIOUS
      <4> HIDE DEF Row
      <4> QED BY <4>1, <4>2 DEF PicturesOK, PictureType, Shrinks
    <3>2. CASE ~flag
      BY <1>5, <3>2 DEF ReadSpans, PicturesOK, Shrinks
    <3> QED BY <3>1, <3>2
  <2>2. span' \in [wrote : BOOLEAN, read : BOOLEAN, was : BOOLEAN]
    BY <1>5 DEF ReadSpans, BracketOK
  <2>3. readInto' \subseteq Tiles
    BY <1>5, BoxFacts DEF ReadSpans, BracketOK
  <2>4. BracketOK'
    BY <1>5, <2>2, <2>3 DEF ReadSpans, BracketOK, Within
  <2> QED BY <2>1, <2>4, <1>1, <1>5 DEF ReadSpans, Within
<1> QED BY <1>2, <1>3, <1>4, <1>5 DEF Paint

\* The end of a bracket, and glFinish.
LEMMA CloseStep ==
  ASSUME Inv, Close \/ Finish
  PROVE  Inv' /\ LiveStep
<1> USE DEF Inv
<1>1. CASE FlushPending
  <2>1. same' \in PictureType /\ Shrinks
    BY <1>1, PaintedStep DEF FlushPending, PicturesOK
  <2>2. SameOwner
    BY <1>1 DEF FlushPending, Soiled, SameOwner, PicturesOK, BufType
  <2>3. PicturesOK' /\ DepthHasItsSurface'
    BY <1>1, <2>1, <2>2, PicturesStand DEF FlushPending, Within, PicturesOK
  <2>4. BracketOK'
    BY <1>1 DEF FlushPending, Within, BracketOK
  <2> QED BY <2>1, <2>3, <2>4 DEF LiveStep
<1>2. CASE RenderFinish \/ Finish
  <2>1. Deliver
    BY <1>2 DEF RenderFinish, Finish
  <2>2. SameOwner /\ same' \in PictureType /\ LiveStep
    BY <2>1, DeliverStep
  <2>3. /\ UNCHANGED <<hw, current, depth, hooked, narrow, span, area, pend>>
        /\ uniform' = NoUniform /\ readInto' \subseteq Tiles
        /\ unreported' \subseteq Tiles
    BY <1>2 DEF RenderFinish, Finish, StillUnlike, BracketOK
  <2>4. PicturesOK' /\ DepthHasItsSurface'
    BY <2>2, <2>3, PicturesStand DEF PicturesOK
  <2>5. BracketOK'
    BY <2>3 DEF NoUniform, BracketOK
  <2> QED BY <2>2, <2>4, <2>5
<1> QED BY <1>1, <1>2 DEF Close

\* Every step keeps the invariant and copies nothing over a live frame.
LEMMA InvStep == Inv /\ [Next]_vars => Inv' /\ LiveStep
<1> SUFFICES ASSUME Inv, [Next]_vars PROVE Inv' /\ LiveStep
  OBVIOUS
<1>1. CASE Bind
  BY <1>1, BindStep, DepthStep DEF Bind
<1>2. CASE LetGo
  BY <1>2, ReleaseStep DEF LetGo
<1>3. CASE UNCHANGED vars
  BY <1>3 DEF vars, Inv, PicturesOK, BracketOK, DepthHasItsSurface, LiveStep, Shrinks
<1> QED BY <1>1, <1>2, <1>3, ModeStep, OpeningStep, PaintStep, CloseStep DEF Next

\* The invariant holds of every behaviour.
LEMMA Invariance == Spec => []Inv
<1>1. Inv /\ [Next]_vars => Inv'
  BY InvStep
<1> QED BY InvInit, <1>1, PTL DEF Spec

\* Every variable keeps its type, and a bound surface is mapped and its context's.
THEOREM PicturesTyped == Spec => []TypeOK
<1>1. Inv => TypeOK
  BY DEF Inv, PicturesOK, BracketOK, TypeOK, BufType, PictureType
<1> QED BY <1>1, Invariance, PTL

\* The depth mapping is never found under another context's surface or at another
\* size, however the surface was bound, given back and bound again.
THEOREM DepthBelongsToTheSurface == Spec => []DepthHasItsSurface
<1>1. Inv => DepthHasItsSurface
  BY DEF Inv
<1> QED BY <1>1, Invariance, PTL

\* While the surface is presented no import, mirror or constant is written over
\* either side.
THEOREM PresentingCopiesNothing == Spec => LiveFrameKept
<1>1. Inv /\ [Next]_vars =>
        [buf.present /\ buf'.present =>
           \A a \in Arrays : \A t \in Tiles : same'[a][t] => same[a][t]]_vars
  BY InvStep DEF LiveStep, Shrinks
<1> QED BY <1>1, Invariance, PTL DEF Spec, LiveFrameKept
-----------------------------------------------------------------------------
(* The agreement of the two copies.  ArrayAgrees speaks of the time between  *)
(* brackets; the invariant says what an open bracket may owe the array, and  *)
(* why its end delivers that much.  Present mode and a narrowed mirror may   *)
(* meet, and rows may be drawn that no box reports; what is owed then is     *)
(* counted by `unreported`, or no longer spoken of (shown = "partly").       *)

\* What the array lacks of the picture, but for the results of reads and for what
\* nobody reported to a narrowed mirror.
Owing == {t \in Tiles \ (readInto \cup unreported) : ~same[buf.app][t]}
\* Presented at most with whole mirrors.
Whole == shown \in {"never", "after"}
\* The tiles the writers of this bracket have reported.
Reported == IF area.valid THEN Box(area.lo, area.hi) ELSE {}

\* Narrowing after presenting is remembered as "partly"; a bracket is open on a
\* marked, bound surface.
ModesOK ==
  /\ bracket \in {"none", "draw", "gated", "clear", "read"} /\ scissor \in Boxes
  /\ shown \in {"never", "after", "partly", "before"}
  /\ narrow => shown # "after"
  /\ shown = "never" => ~buf.present
  /\ bracket # "none" => buf.bound # Nobody /\ buf.dirty
  /\ bracket \notin {"draw", "gated"} => pend = {}
  /\ readInto # {} => buf.app \in Arrays
\* Between brackets: a surface still marked, with a read's result in the array, was
\* marked before that read; and what is owed is owed by a marked surface.
Settled ==
  bracket = "none" =>
    /\ ~uniform.armed
    /\ span.read /\ ~span.wrote /\ ~span.was => ~buf.dirty
    /\ shown = "never" /\ buf.dirty /\ readInto # {} => span.read /\ ~span.wrote
    /\ buf.bound # Nobody /\ Whole /\ (shown = "never" \/ ~buf.dirty) => Owing = {}
\* A reading bracket draws nothing: it owes what was owed when it opened.
Reading ==
  bracket = "read" =>
    /\ ~span.wrote
    /\ Whole /\ (shown = "never" \/ ~span.was) => Owing = {}
\* A clear reports no box, and the constant it arms is the picture.
Clearing ==
  bracket = "clear" =>
    ~span.wrote /\ ~span.read /\ ~area.valid /\ (uniform.armed => uniform.own)
\* Under a narrowed mirror everything drawn by those who report, delivered or still
\* pending, lies within the reported box and the scissor.
Drawing ==
  bracket \in {"draw", "gated"} =>
    /\ ~uniform.armed /\ ~area.full /\ (span.read => span.wrote)
    /\ narrow /\ Whole => Owing \cup pend \subseteq Scissored(Reported)
Agreement == ModesOK /\ Settled /\ Reading /\ Clearing /\ Drawing /\ ReadResultKept

\* At the start nothing is bound, marked or read.
LEMMA AgreementInit == Init => Agreement
<1> SUFFICES ASSUME Init PROVE Agreement
  OBVIOUS
<1>1. <<1, Width>> \in Boxes
  BY WidthAssumption DEF Boxes, Tiles
<1>2. ModesOK
  BY <1>1 DEF Init, ModesOK, Free
<1>3. Settled
  BY DEF Init, Settled, Free, NoUniform, Whole
<1> QED BY <1>2, <1>3 DEF Init, Agreement, Reading, Clearing, Drawing, ReadResultKept, Whole

\* Nothing that happens between brackets and leaves the surface, its marks, the
\* pictures and the reads alone can disturb the agreement.
LEMMA AgreementStands ==
  ASSUME Agreement, UNCHANGED <<buf, same, span, area, pend, uniform, scissor, bracket,
                                readInto, unreported>>,
         \/ UNCHANGED <<narrow, shown>>
         \/ /\ bracket = "none" /\ (narrow' => shown' # "after")
            /\ shown' = shown \/ (shown = "after" /\ shown' = "partly")
  PROVE  Agreement'
<1> USE DEF Agreement
<1>1. Owing' = Owing /\ Scissored(Reported)' = Scissored(Reported)
  BY DEF Owing, Scissored, Reported
<1>2. ModesOK'         BY DEF ModesOK
<1>3. Settled'         BY <1>1 DEF Settled, Whole
<1>4. Reading'         BY <1>1 DEF Reading, Whole
<1>5. Clearing'        BY DEF Clearing
<1>6. Drawing'         BY <1>1 DEF Drawing, Whole
<1>7. ReadResultKept'  BY DEF ReadResultKept
<1> QED BY <1>2, <1>3, <1>4, <1>5, <1>6, <1>7

\* Binding anew imports the picture unless it is presented; every other outcome
\* leaves the array and what it holds alone.
LEMMA BindAgrees ==
  ASSUME Inv, Agreement, NEW c \in Contexts, NEW a \in Arrays, NEW size \in Sizes,
         NEW room \in BOOLEAN, MakeCurrent(c, a, size, room)
  PROVE  Agreement'
<1> USE NobodyAssumption DEF Inv, PicturesOK, Agreement
<1>1. /\ AccelBuffer(c, a, size, room) /\ bracket = "none" /\ bracket' = "none"
      /\ UNCHANGED <<hw, depth, narrow, span, area, pend, uniform, scissor>>
      /\ readInto' = IF buf'.bound = c THEN {} ELSE readInto
      /\ unreported' = IF buf'.bound = c THEN {} ELSE unreported
      /\ shown' = IF buf'.bound # c THEN shown ELSE IF buf'.present THEN "before" ELSE "never"
  BY DEF MakeCurrent, hookState
<1>2. CASE buf' = Unbound(c) /\ UNCHANGED same
  <2>1. buf'.bound # c /\ (buf'.bound = buf.bound \/ buf'.bound = Nobody)
        /\ buf'.app = buf.app /\ buf'.dirty = buf.dirty /\ buf'.present = buf.present
    BY <1>2 DEF Unbound, BufType
  <2>2. UNCHANGED <<readInto, unreported, shown>>
    BY <1>1, <2>1
  <2>3. Owing' = Owing
    BY <2>1, <2>2, <1>2 DEF Owing
  <2>4. ModesOK'  BY <1>1, <2>1, <2>2 DEF ModesOK
  <2>5. Settled'  BY <1>1, <2>1, <2>2, <2>3 DEF Settled, Whole
  <2>6. ReadResultKept'  BY <1>2, <2>1, <2>2 DEF ReadResultKept
  <2> QED BY <1>1, <2>4, <2>5, <2>6 DEF Reading, Clearing, Drawing, Whole
<1>3. ASSUME NEW STATE b, b.present = buf.present, b.app = a, b.bound = c, buf' = b, Import(b),
             ~b.dirty \/ b.dirty = buf.dirty
      PROVE  Agreement'
  <2>1. readInto' = {} /\ shown' = IF buf.present THEN "before" ELSE "never"
    BY <1>1, <1>3
  <2>2. shown' = "never" => Owing' = {}
    <3>1. CASE ~buf.present
      <4>1. same' = [z \in Arrays |-> [t \in Tiles |-> z = a \/ (same[z][t] /\ same[a][t])]]
        BY <3>1, <1>3 DEF Import
      <4>2. \A t \in Tiles : same'[a][t]
        BY <4>1
      <4> QED BY <4>2, <1>3 DEF Owing
    <3> QED BY <3>1, <2>1
  <2>3. ModesOK'
    BY <1>1, <1>3, <2>1 DEF ModesOK
  <2>4. Settled'
    <3>1. span.read /\ ~span.wrote /\ ~span.was => ~b.dirty
      BY <1>1, <1>3 DEF Settled, Whole
    <3> QED BY <1>1, <1>3, <2>1, <2>2, <3>1 DEF Settled, Whole
  <2>5. ReadResultKept'
    BY <2>1 DEF ReadResultKept
  <2> QED BY <1>1, <2>3, <2>4, <2>5 DEF Reading, Clearing, Drawing, Whole
<1>4. CASE hw /\ buf.mapped /\ buf.ctx = c /\ buf' = Rebound(a) /\ Import(Rebound(a))
  <2>1. /\ Rebound(a).present = buf.present /\ Rebound(a).app = a /\ Rebound(a).bound = c
        /\ Rebound(a).dirty = buf.dirty
    BY <1>4 DEF Rebound, BufType
  <2> QED BY <2>1, <1>4, <1>3
<1>5. CASE ~buf.mapped /\ buf' = Fresh(c, a, size) /\ Import(Fresh(c, a, size))
  <2>1. /\ Fresh(c, a, size).present = buf.present /\ Fresh(c, a, size).app = a
        /\ Fresh(c, a, size).bound = c /\ ~Fresh(c, a, size).dirty
    BY DEF Fresh
  <2> QED BY <2>1, <1>5, <1>3
<1> HIDE DEF Agreement, Inv, PicturesOK
<1>6. \/ buf' = Unbound(c) /\ UNCHANGED same
      \/ hw /\ buf.mapped /\ buf.ctx = c /\ buf' = Rebound(a) /\ Import(Rebound(a))
      \/ ~buf.mapped /\ buf' = Fresh(c, a, size) /\ Import(Fresh(c, a, size))
  BY <1>1, Zenon DEF AccelBuffer
<1> QED BY <1>2, <1>4, <1>5, <1>6

\* Releasing forgets the array; presenting is remembered, and narrowing after it.
LEMMA ModesAgree ==
  ASSUME Inv, Agreement,
         LetGo \/ Mode \/ (\E c \in Contexts, size \in Sizes, fits \in BOOLEAN : DepthBuffer(c, size, fits))
  PROVE  Agreement'
<1> USE DEF hookState
<1>1. ASSUME NEW c, Release(c) PROVE Agreement'
  <2>1. /\ bracket' = "none" /\ buf' = Free /\ shown' = "never" /\ readInto' = {}
        /\ UNCHANGED <<narrow, span, area, pend, uniform, scissor>> /\ bracket = "none"
    BY <1>1 DEF Release
  <2>2. ModesOK'  BY <2>1 DEF Agreement, ModesOK, Free
  <2>3. Settled'   BY <2>1 DEF Agreement, Settled, Free, Whole
  <2>4. ReadResultKept'  BY <2>1 DEF ReadResultKept
  <2> QED BY <2>1, <2>2, <2>3, <2>4 DEF Agreement, Reading, Clearing, Drawing, Whole
<1>2. ASSUME NEW on \in BOOLEAN, PresentMode(on) PROVE Agreement'
  <2> USE DEF Agreement
  <2>1. /\ bracket = "none" /\ bracket' = "none" /\ narrow' = narrow
        /\ UNCHANGED <<same, span, area, pend, uniform, scissor, readInto, unreported>>
        /\ shown' = IF ~on \/ shown # "never" THEN shown ELSE IF narrow THEN "partly" ELSE "after"
        /\ buf'.bound = buf.bound /\ buf'.app = buf.app /\ buf'.dirty = buf.dirty
        /\ buf'.present = on
    BY <1>2 DEF PresentMode, Inv, PicturesOK, BufType
  <2>2. /\ shown' = "never" => shown = "never" /\ ~on
        /\ shown' \in {"never", "after"} => shown \in {"never", "after"}
        /\ shown' = "after" /\ shown # "after" => ~narrow /\ shown = "never"
    BY <2>1
  <2>3. Owing' = Owing
    BY <2>1 DEF Owing
  <2>4. ModesOK'  BY <2>1, <2>2 DEF ModesOK
  <2>5. Settled'
    BY <2>1, <2>2, <2>3 DEF Settled, Whole
  <2>6. ReadResultKept'  BY <2>1, <2>2 DEF ReadResultKept
  <2> QED BY <2>1, <2>4, <2>5, <2>6 DEF Reading, Clearing, Drawing, Whole
<1>3. ASSUME Revoke \/ Validate \/ (\E on \in BOOLEAN : NarrowMirror(on))
               \/ (\E c \in Contexts : ClearPixel(c))
               \/ (\E c \in Contexts, size \in Sizes, fits \in BOOLEAN : DepthBuffer(c, size, fits))
      PROVE  Agreement'
  <2>1. UNCHANGED <<buf, same, span, area, pend, uniform, scissor, bracket, readInto, unreported>>
    BY <1>3 DEF Revoke, Validate, NarrowMirror, ClearPixel, DepthBuffer
  <2>2. \/ UNCHANGED <<narrow, shown>>
        \/ /\ bracket = "none" /\ (narrow' => shown' # "after")
           /\ shown' = shown \/ (shown = "after" /\ shown' = "partly")
    <3>1. CASE \E on \in BOOLEAN : NarrowMirror(on)
      BY <3>1 DEF NarrowMirror
    <3>2. CASE ~ \E on \in BOOLEAN : NarrowMirror(on)
      BY <1>3, <3>2 DEF Revoke, Validate, ClearPixel, DepthBuffer
    <3> QED BY <3>1, <3>2
  <2> QED BY <2>1, <2>2, AgreementStands
<1> QED BY <1>1, <1>2, <1>3 DEF LetGo, Mode

\* A clear just before a bracket paints within the scissor; the constant it arms is
\* the pixel of the context that draws, so filling with it is the picture.
LEMMA OpenAgrees ==
  ASSUME Inv, Agreement, Open
  PROVE  Agreement'
<1> USE DEF Agreement
<1>1. ASSUME NEW kind, Opens(kind)
      PROVE  /\ bracket = "none" /\ bracket' = kind /\ BoundTo(current) /\ current # Nobody
             /\ UNCHANGED <<narrow, shown>> /\ pend = {}
  BY <1>1 DEF Opens, ModesOK
<1>2. ASSUME NEW box \in Boxes, NEW kind \in {"draw", "gated", "read"}, RenderStart(kind, box)
      PROVE  Agreement'
  <2>1. /\ bracket = "none" /\ bracket' = kind /\ buf.bound = current /\ current # Nobody
        /\ UNCHANGED <<narrow, shown, same, pend, readInto, unreported>> /\ pend = {} /\ scissor' = box
    BY <1>1, <1>2 DEF RenderStart, BoundTo
  <2>2. /\ buf'.bound = buf.bound /\ buf'.app = buf.app /\ buf'.dirty /\ buf'.present = buf.present
        /\ span' = [wrote |-> FALSE, read |-> FALSE, was |-> buf.dirty]
        /\ uniform' = [armed |-> FALSE, own |-> FALSE]
        /\ area' = [full |-> FALSE, valid |-> FALSE, lo |-> 0, hi |-> 0]
    BY <1>2 DEF RenderStart, Soil, Soiled, NoClear, AreaReset, NoArea, Inv, PicturesOK, BufType
  <2>3. Owing' = Owing
    BY <2>1, <2>2 DEF Owing
  <2>4. Whole /\ (shown = "never" \/ ~buf.dirty) => Owing = {}
    BY <2>1 DEF Settled, Whole
  <2>5. ModesOK'  BY <2>1, <2>2 DEF ModesOK
  <2>6. Settled'  BY <2>1 DEF Settled, Whole
  <2>7. Reading'  BY <2>1, <2>2, <2>3, <2>4 DEF Reading, Whole
  <2>8. Drawing'
    <3>1. narrow /\ Whole => Owing = {}
      BY <2>4 DEF ModesOK, Whole
    <3> QED BY <2>1, <2>2, <2>3, <3>1 DEF Drawing, Whole
  <2>9. ReadResultKept'  BY <2>1, <2>2 DEF ReadResultKept
  <2> QED BY <2>1, <2>5, <2>6, <2>7, <2>8, <2>9 DEF Clearing
<1>3. ASSUME NEW box \in Boxes, NEW engine \in BOOLEAN, Clear(engine, box)
      PROVE  Agreement'
  <2>1. /\ bracket = "none" /\ bracket' = "clear" /\ buf.bound = current /\ current # Nobody
        /\ UNCHANGED <<narrow, shown, pend, readInto>> /\ pend = {} /\ scissor' = box
        /\ same' = Painted(same, Box(box[1], box[2]))
    BY <1>1, <1>3 DEF Clear, BoundTo
  <2>2. /\ buf'.bound = buf.bound /\ buf'.app = buf.app /\ buf'.dirty /\ buf'.present = buf.present
        /\ ~span'.wrote /\ ~span'.read /\ ~area'.valid
        /\ uniform' = [armed |-> engine /\ ArmedForAll(box), own |-> pixelOf = current]
    BY <1>3 DEF Clear, Soil, Soiled, AreaReset, NoArea, Inv, PicturesOK, BufType
  <2>3. ModesOK'  BY <2>1, <2>2 DEF ModesOK
  <2>4. Settled'  BY <2>1 DEF Settled, Whole
  <2>5. Clearing'
    BY <2>1, <2>2 DEF Clearing, ArmedForAll
  <2>6. ReadResultKept'
    <3>1. readInto # {} => buf.app \in Arrays
      BY DEF ModesOK
    <3>2. readInto \subseteq Tiles /\ same \in PictureType
      BY DEF Inv, BracketOK, PicturesOK
    <3>3. \A z \in Arrays : \A t \in Tiles : same'[z][t] => same[z][t]
      BY <2>1, <3>2, PaintedStep DEF Shrinks
    <3> QED BY <2>1, <2>2, <3>1, <3>2, <3>3 DEF ReadResultKept
  <2> QED BY <2>1, <2>3, <2>4, <2>5, <2>6 DEF Reading, Drawing, Whole
<1> QED BY <1>2, <1>3 DEF Open

\* The reported box grows to hold every box reported.
LEMMA ReportedGrows ==
  ASSUME BracketOK, NEW box \in Boxes, area' = AreaAdd(box)
  PROVE  Reported \cup Box(box[1], box[2]) \subseteq Reported' /\ area'.full = area.full
<1> USE WidthAssumption DEF BracketOK
<1>1. box[1] \in Int /\ box[2] \in Int /\ Tiles \subseteq Int
  BY DEF Boxes, Tiles
<1>2. CASE ~area.valid
  <2>1. area'.valid /\ area'.lo = box[1] /\ area'.hi = box[2] /\ area'.full = area.full
    BY <1>2 DEF AreaAdd
  <2> QED BY <1>2, <2>1 DEF Reported
<1>3. CASE area.valid
  <2>1. /\ area'.valid /\ area'.full = area.full
        /\ area'.lo = Lesser(area.lo, box[1]) /\ area'.hi = Greater(area.hi, box[2])
    BY <1>3 DEF AreaAdd
  <2>2. /\ area'.lo \in Int /\ area'.hi \in Int
        /\ area'.lo <= area.lo /\ area'.lo <= box[1] /\ area.hi <= area'.hi /\ box[2] <= area'.hi
    BY <1>1, <2>1 DEF Lesser, Greater
  <2>3. Box(area.lo, area.hi) \cup Box(box[1], box[2]) \subseteq Box(area'.lo, area'.hi)
    <3>1. area.lo \in Int /\ area.hi \in Int
      OBVIOUS
    <3>2. \A t \in Int : (area.lo <= t => area'.lo <= t) /\ (box[1] <= t => area'.lo <= t)
                       /\ (t <= area.hi => t <= area'.hi) /\ (t <= box[2] => t <= area'.hi)
      BY <1>1, <2>2, <3>1
    <3> QED BY ONLY <1>1, <3>2 DEF Box
  <2> QED BY <1>3, <2>1, <2>3 DEF Reported
<1> QED BY <1>2, <1>3

\* What a reported primitive draws, and what was pending, is owed within the box
\* reported so far; rows that nobody reports are all mirrored, or counted as such.
LEMMA PaintAgrees ==
  ASSUME Inv, Agreement, Paint
  PROVE  Agreement'
<1> USE DEF Agreement, Inv
<1>0. /\ readInto \subseteq Tiles /\ pend \subseteq Tiles /\ same \in PictureType
      /\ readInto # {} => buf.app \in Arrays
      /\ bracket # "none" => buf.app \in Arrays
  BY NobodyAssumption DEF BracketOK, PicturesOK, ModesOK, BufType
<1>1. ASSUME NEW STATE tiles, tiles \subseteq Tiles, bracket # "none", same' = Painted(same, tiles),
             UNCHANGED <<buf, readInto>>, unreported' = unreported \ tiles
      PROVE  Owing' \subseteq Owing \cup tiles
  <2>1. \A t \in Tiles : same'[buf.app][t] = (same[buf.app][t] /\ t \notin tiles)
    BY <1>0, <1>1 DEF Painted
  <2> QED BY <2>1, <1>1 DEF Owing
<1>2. ASSUME Shrinks, UNCHANGED <<buf, readInto, shown>> PROVE ReadResultKept'
  BY <1>0, <1>2 DEF ReadResultKept, Shrinks
<1>3. ASSUME UNCHANGED <<buf, bracket, scissor, narrow, shown, readInto>>, bracket # "none",
             bracket \in {"draw", "gated"} \/ UNCHANGED pend
      PROVE  ModesOK'
  BY <1>3 DEF ModesOK
<1>4. ASSUME NEW box \in Boxes, Triangle(box) PROVE Agreement'
  <2>1. /\ bracket = "draw" /\ bracket' = "draw" /\ area' = AreaAdd(box) /\ unreported' = unreported
        /\ pend' = pend \cup Scissored(Box(box[1], box[2]))
        /\ UNCHANGED <<buf, same, span, readInto, uniform, narrow, scissor, shown>>
    BY <1>4 DEF Triangle, Inside, Within
  <2>2. Reported \cup Box(box[1], box[2]) \subseteq Reported' /\ area'.full = area.full
    BY <2>1, ReportedGrows
  <2>3. Owing' = Owing /\ \A tiles : Scissored(tiles)' = Scissored(tiles')
    BY <2>1 DEF Owing, Scissored
  <2>4. /\ Scissored(Reported)' = Reported' \cap Box(scissor[1], scissor[2])
        /\ \A tiles : Scissored(tiles) = tiles \cap Box(scissor[1], scissor[2])
    BY <2>1 DEF Scissored
  <2>5. Drawing'
    BY <2>1, <2>2, <2>3, <2>4 DEF Drawing, Whole
  <2> QED BY <2>1, <2>5, <1>2, <1>3 DEF Settled, Reading, Clearing, Shrinks, Whole
<1>5. ASSUME NEW box \in Boxes, NEW reads \in BOOLEAN, Spans(box, reads) PROVE Agreement'
  <2> DEFINE drawn == pend \cup Scissored(Box(box[1], box[2]))
  <2>1. /\ bracket \in {"draw", "gated"} /\ bracket' = bracket /\ area' = AreaAdd(box)
        /\ same' = Painted(same, drawn) /\ pend' = {} /\ span'.wrote
        /\ unreported' = unreported \ drawn
        /\ UNCHANGED <<buf, readInto, uniform, narrow, scissor, shown>>
    BY <1>5 DEF Spans, Inside, Within, BracketOK
  <2>2. Reported \cup Box(box[1], box[2]) \subseteq Reported' /\ area'.full = area.full
    BY <2>1, ReportedGrows
  <2>3. drawn \subseteq Tiles
    BY <1>0 DEF Scissored, Box
  <2>4. Owing' \subseteq Owing \cup drawn /\ Shrinks
    BY <2>1, <2>3, <1>0, <1>1, PaintedStep
  <2>5. /\ Scissored(Reported)' = Reported' \cap Box(scissor[1], scissor[2])
        /\ \A tiles : Scissored(tiles) = tiles \cap Box(scissor[1], scissor[2])
    BY <2>1 DEF Scissored
  <2>6. Drawing'
    <3>1. narrow /\ Whole => Owing \cup pend \subseteq Scissored(Reported)
      BY <2>1 DEF Drawing, Whole
    <3>2. narrow /\ Whole => Owing' \cup pend' \subseteq Scissored(Reported)'
      BY <2>1, <2>2, <2>4, <2>5, <3>1
    <3> QED BY <2>1, <2>2, <3>2 DEF Drawing, Whole
  <2> QED BY <2>1, <2>4, <2>6, <1>2, <1>3 DEF Settled, Reading, Clearing, Whole
<1>6. ASSUME NEW box \in Boxes, GatedTriangle(box) PROVE Agreement'
  <2> DEFINE drawn == Scissored(Box(box[1], box[2]))
  <2>1. /\ bracket = "gated" /\ bracket' = "gated" /\ same' = Painted(same, drawn)
        /\ unreported' = IF narrow THEN unreported \cup drawn ELSE unreported \ drawn
        /\ UNCHANGED <<buf, pend, span, area, readInto, uniform, narrow, scissor, shown>>
    BY <1>6 DEF GatedTriangle, Inside, Within
  <2>2. Shrinks
    BY <2>1, <1>0, PaintedStep
  <2>3. narrow => Owing' \subseteq Owing
    <3>1. \A t \in Tiles : same'[buf.app][t] = (same[buf.app][t] /\ t \notin drawn)
      BY <1>0, <2>1 DEF Painted
    <3> HIDE DEF drawn
    <3> QED BY <2>1, <3>1 DEF Owing
  <2>4. Scissored(Reported)' = Scissored(Reported)
    BY <2>1 DEF Scissored, Reported
  <2>5. Drawing'
    BY <2>1, <2>3, <2>4 DEF Drawing, Whole
  <2> QED BY <2>1, <2>2, <2>5, <1>2, <1>3 DEF Settled, Reading, Clearing, Whole
<1>7. ASSUME NEW box \in Boxes, NEW into \in BOOLEAN, ReadSpans(box, into) PROVE Agreement'
  <2>1. /\ bracket = "read" /\ bracket' = "read" /\ span' = [span EXCEPT !.read = TRUE]
        /\ UNCHANGED <<buf, pend, area, uniform, narrow, scissor, shown, unreported>>
    BY <1>7 DEF ReadSpans, Inside, Within
  <2>2. /\ readInto \subseteq readInto' /\ Owing' \subseteq Owing
        /\ \A t \in readInto' : t \in readInto \/ ~same'[buf.app][t]
        /\ \A t \in Tiles : same'[buf.app][t] => same[buf.app][t]
    <3>1. CASE into
      <4> DEFINE Row == [t \in Tiles |-> same[buf.app][t] /\ t \notin Box(box[1], box[2])]
      <4>1. same' = [same EXCEPT ![buf.app] = Row] /\ readInto' = readInto \cup Box(box[1], box[2])
        BY <1>7, <3>1 DEF ReadSpans
      <4>2. same'[buf.app] = Row
        BY <1>0, <2>1, <4>1 DEF PictureType
      <4>3. Box(box[1], box[2]) \subseteq Tiles
        BY BoxFacts
      <4> QED BY <2>1, <4>1, <4>2, <4>3 DEF Owing
    <3>2. CASE ~into
      BY <1>7, <3>2, <2>1 DEF ReadSpans, Owing
    <3> QED BY <3>1, <3>2
  <2>3. ModesOK'
    BY <2>1, <1>0 DEF ModesOK
  <2>4. span'.wrote = span.wrote /\ span'.was = span.was
    BY <2>1 DEF BracketOK
  <2>5. Reading'
    BY <2>1, <2>2, <2>4 DEF Reading, Whole
  <2>6. ReadResultKept'
    BY <2>1, <2>2, <1>0 DEF ReadResultKept
  <2> QED BY <2>1, <2>3, <2>5, <2>6 DEF Settled, Clearing, Drawing, Whole
<1> QED BY <1>4, <1>5, <1>6, <1>7 DEF Paint

-----------------------------------------------------------------------------
\* A delivery never marks the surface, and the array keeps whatever agreed of it.
Keeps ==
  /\ buf'.dirty => buf.dirty
  /\ \A t \in Tiles : same[buf.app][t] => same'[buf.app][t]
\* A delivery of these tiles: a presented surface stays marked and nothing is copied.
Pays(tiles) ==
  IF buf.present THEN UNCHANGED <<buf, same>>
  ELSE ~buf'.dirty /\ \A t \in tiles : same'[buf.app][t]
Deliverable == buf.mapped /\ buf.app # Nobody

\* Mirroring, the whole or a box, pays a marked surface and leaves any other alone.
LEMMA MirrorPays ==
  ASSUME PicturesOK, NEW STATE tiles, tiles \subseteq Tiles, NEW STATE full,
         full \in BOOLEAN,
         IF buf.present \/ ~Deliverable \/ ~buf.dirty THEN Nothing
         ELSE buf' = [buf EXCEPT !.dirty = FALSE, !.full = full] /\ same' = Delivered(tiles)
  PROVE  /\ Keeps
         /\ ~buf.dirty => UNCHANGED same
         /\ Deliverable /\ buf.dirty => Pays(tiles)
<1>1. CASE buf.present \/ ~Deliverable \/ ~buf.dirty
  BY <1>1 DEF Nothing, Keeps, Pays
<1>2. CASE ~(buf.present \/ ~Deliverable \/ ~buf.dirty)
  <2>1. buf' = [buf EXCEPT !.dirty = FALSE, !.full = full] /\ same' = Delivered(tiles)
    BY <1>2
  <2>2. buf.app \in Arrays /\ ~buf'.dirty
    BY <1>2, <2>1 DEF Deliverable, PicturesOK, BufType
  <2>3. \A t \in Tiles : same'[buf.app][t] = (same[buf.app][t] \/ t \in tiles)
    BY <2>1, <2>2 DEF Delivered, PicturesOK, PictureType
  <2> QED BY <1>2, <2>2, <2>3 DEF Keeps, Pays
<1> QED BY <1>1, <1>2

\* The whole of osmgaMesaMirror.  After a bracket that only read: nothing is copied,
\* and the mark of what was owed before stays.  Under an armed constant that is the
\* picture: everything.  Else: everything, or what was reported within the scissor.
LEMMA DeliverPays ==
  ASSUME PicturesOK, BracketOK, scissor \in Boxes, Deliver
  PROVE  /\ span.read /\ ~span.wrote =>
              /\ UNCHANGED same
              /\ IF span.was THEN UNCHANGED buf ELSE ~buf'.dirty /\ buf'.app = buf.app
         /\ /\ uniform.armed /\ uniform.own /\ Deliverable
            /\ ~(span.read /\ ~span.wrote) /\ ~span.wrote
            => Pays(Tiles)
         /\ ~uniform.armed /\ ~(span.read /\ ~span.wrote) =>
              /\ Keeps
              /\ ~buf.dirty => UNCHANGED same
              /\ Deliverable /\ buf.dirty /\ ~(narrow /\ ~area.full /\ area.valid) => Pays(Tiles)
              /\ Deliverable /\ buf.dirty /\ narrow /\ ~buf.present => Pays(Scissored(Reported))
<1> USE DEF Deliverable
<1>1. CASE span.read /\ ~span.wrote
  <2>1. UNCHANGED same /\ IF span.was THEN UNCHANGED buf ELSE buf' = [buf EXCEPT !.dirty = FALSE]
    BY <1>1 DEF Deliver, Nothing, Unsoil
  <2> QED BY <1>1, <2>1 DEF PicturesOK, BufType
<1>2. CASE ~(span.read /\ ~span.wrote) /\ uniform.armed /\ ~span.wrote
  <2>1. Fill(uniform.own)
    BY <1>2 DEF Deliver
  <2>2. ASSUME uniform.own, Deliverable, ~buf.present PROVE Pays(Tiles)
    <3>1. /\ buf' = [buf EXCEPT !.dirty = FALSE]
          /\ same' = [same EXCEPT ![buf.app] = [t \in Tiles |-> uniform.own]]
      BY <2>1, <2>2 DEF Fill
    <3>2. ~buf'.dirty /\ \A t \in Tiles : same'[buf.app][t]
      BY <2>2, <3>1 DEF PicturesOK, PictureType, BufType
    <3> QED BY <2>2, <3>2 DEF Pays
  <2>3. ASSUME buf.present PROVE Pays(Tiles)
    BY <2>1, <2>3 DEF Fill, Nothing, Pays
  <2> QED BY <1>2, <2>2, <2>3
<1>3. CASE ~(span.read /\ ~span.wrote) /\ ~(uniform.armed /\ ~span.wrote)
  <2>1. CASE ~(narrow /\ ~area.full /\ area.valid)
    <3>1. Mirror
      BY <1>3, <2>1 DEF Deliver
    <3>2. buf = [buf EXCEPT !.full = buf.full] /\ buf.full \in BOOLEAN
      BY DEF PicturesOK, BufType
    <3>3. IF buf.present \/ ~Deliverable \/ ~buf.dirty THEN Nothing
          ELSE buf' = [buf EXCEPT !.dirty = FALSE, !.full = buf.full] /\ same' = Delivered(Tiles)
      BY <3>1, <3>2 DEF Mirror, PicturesOK, BufType
    <3>4. /\ Keeps /\ (~buf.dirty => UNCHANGED same)
          /\ Deliverable /\ buf.dirty => Pays(Tiles)
      BY <3>2, <3>3, MirrorPays
    <3>5. Pays(Tiles) => Pays(Scissored(Reported))
      BY DEF Pays, Scissored, Box, Reported
    <3> QED BY <1>3, <2>1, <3>4, <3>5
  <2>2. CASE narrow /\ ~area.full /\ area.valid
    <3> DEFINE lo == Greater(area.lo, scissor[1])
               hi == Lesser(area.hi, scissor[2])
    <3>1. IF hi < lo THEN Unsoil ELSE MirrorNarrow(lo, hi)
      BY <1>3, <2>2 DEF Deliver
    <3>2. Scissored(Reported) = Box(lo, hi)
      <4>1. /\ area.lo \in Int /\ area.hi \in Int /\ scissor[1] \in Int /\ scissor[2] \in Int
            /\ Tiles \subseteq Int
        BY DEF BracketOK, Boxes, Tiles
      <4>2. \A t \in Int : /\ lo <= t <=> area.lo <= t /\ scissor[1] <= t
                           /\ t <= hi <=> t <= area.hi /\ t <= scissor[2]
        BY <4>1 DEF Greater, Lesser
      <4> HIDE DEF lo, hi
      <4> QED BY <2>2, <4>1, <4>2 DEF Scissored, Reported, Box
    <3>3. lo \in Int /\ hi \in Int
      BY DEF BracketOK, Boxes, Tiles, Greater, Lesser
    <3> HIDE DEF lo, hi
    <3>4. CASE hi < lo
      <4>1. Box(lo, hi) = {}
        BY <3>3, <3>4 DEF Box, Tiles
      <4>2. buf' = [buf EXCEPT !.dirty = FALSE] /\ UNCHANGED same
        BY <3>1, <3>4 DEF Unsoil
      <4>3. ~buf'.dirty /\ Keeps
        BY <4>2 DEF Keeps, PicturesOK, BufType
      <4> QED BY <1>3, <2>2, <3>2, <4>1, <4>2, <4>3 DEF Pays
    <3>5. CASE ~(hi < lo)
      <4> DEFINE tiles == IF buf.full THEN Tiles ELSE Box(lo, hi)
      <4>1. MirrorNarrow(lo, hi)
        BY <3>1, <3>5
      <4>2. tiles \subseteq Tiles /\ Box(lo, hi) \subseteq tiles
        BY DEF Box
      <4>3. IF buf.present \/ ~Deliverable \/ ~buf.dirty THEN Nothing
            ELSE buf' = [buf EXCEPT !.dirty = FALSE, !.full = FALSE] /\ same' = Delivered(tiles)
        BY <4>1 DEF MirrorNarrow
      <4> HIDE DEF tiles
      <4>4. /\ Keeps /\ (~buf.dirty => UNCHANGED same)
            /\ Deliverable /\ buf.dirty => Pays(tiles)
        BY <4>2, <4>3, MirrorPays
      <4>5. Pays(tiles) => Pays(Box(lo, hi))
        BY <4>2 DEF Pays
      <4> QED BY <1>3, <2>2, <3>2, <4>4, <4>5
    <3> QED BY <3>4, <3>5
  <2> QED BY <2>1, <2>2
<1> QED BY <1>1, <1>2, <1>3
\* The flush paints what was pending, within what was reported.
LEMMA FlushAgrees ==
  ASSUME Inv, Agreement, FlushPending
  PROVE  Agreement'
<1> USE DEF Agreement, Inv
<1>1. /\ bracket \in {"draw", "gated"} /\ bracket' = bracket /\ same' = Painted(same, pend)
      /\ pend' = {} /\ unreported' = unreported \ pend
      /\ UNCHANGED <<span, area, readInto, uniform, narrow, scissor, shown>>
  BY DEF FlushPending, Within, ModesOK
<1>2. /\ buf'.app = buf.app /\ buf'.bound = buf.bound /\ buf'.dirty /\ buf'.present = buf.present
      /\ buf.app \in Arrays
  BY <1>1, NobodyAssumption DEF FlushPending, Soiled, PicturesOK, BufType, ModesOK
<1>3. \A t \in Tiles : same'[buf.app][t] = (same[buf.app][t] /\ t \notin pend)
  BY <1>1, <1>2 DEF Painted
<1>4. Owing' \subseteq Owing \cup pend
  BY <1>1, <1>2, <1>3 DEF Owing
<1>5. Scissored(Reported)' = Scissored(Reported)
  BY <1>1 DEF Scissored, Reported
<1>6. ModesOK'  BY <1>1, <1>2 DEF ModesOK
<1>7. Drawing'
  <2>1. narrow /\ Whole => Owing \cup pend \subseteq Scissored(Reported)
    BY <1>1 DEF Drawing, Whole
  <2> QED BY <1>1, <1>4, <1>5, <2>1 DEF Drawing, Whole
<1>8. ReadResultKept'
  BY <1>1, <1>2, <1>3 DEF ReadResultKept, BracketOK
<1> QED BY <1>1, <1>6, <1>7, <1>8 DEF Settled, Reading, Clearing, Whole

\* The end of a bracket pays what the bracket owed, or leaves the surface marked; and
\* a bracket that read leaves the result alone.
LEMMA FinishAgrees ==
  ASSUME Inv, Agreement, RenderFinish
  PROVE  Agreement'
<1> USE DEF Agreement, Inv
<1>1. /\ bracket # "none" /\ bracket' = "none" /\ pend = {} /\ (bracket = "read" => span.read)
      /\ uniform' = NoUniform /\ Deliver
      /\ readInto' = IF bracket = "read" THEN readInto ELSE {t \in readInto : ~same'[buf.app][t]}
      /\ unreported' = {t \in unreported : ~same'[buf.app][t]}
      /\ UNCHANGED <<span, area, pend, narrow, scissor, shown>>
  BY DEF RenderFinish, StillUnlike
<1>2. /\ buf'.app = buf.app /\ buf'.bound = buf.bound /\ buf'.present = buf.present
      /\ buf.bound # Nobody /\ buf.dirty /\ Deliverable /\ buf.app \in Arrays
  BY <1>1, DeliverStep, NobodyAssumption DEF SameOwner, PicturesOK, BufType, ModesOK, Deliverable
<1>3. scissor \in Boxes /\ readInto \subseteq Tiles
  BY DEF ModesOK, BracketOK
<1>4. readInto' \subseteq readInto /\ ModesOK'
  BY <1>1, <1>2 DEF ModesOK
<1>5. ASSUME bracket = "read" PROVE Settled' /\ ReadResultKept'
  <2>1. /\ UNCHANGED <<same, readInto>> /\ span.read /\ ~span.wrote
        /\ IF span.was THEN UNCHANGED buf ELSE ~buf'.dirty
    BY <1>1, <1>3, <1>5, DeliverPays DEF Reading, Whole
  <2>2. Owing' = Owing
    BY <1>1, <2>1, <1>2 DEF Owing
  <2>3. Whole /\ (shown = "never" \/ ~span.was) => Owing = {}
    BY <1>5 DEF Reading, Whole
  <2>4. Whole /\ (shown = "never" \/ ~buf'.dirty) => Owing' = {}
    BY <1>2, <2>1, <2>2, <2>3
  <2>5. Settled'
    BY <1>1, <2>1, <2>4 DEF Settled, NoUniform, Whole
  <2>6. ReadResultKept'
    BY <1>1, <1>2, <2>1 DEF ReadResultKept
  <2> QED BY <2>5, <2>6
<1>6. ASSUME bracket # "read" PROVE Settled' /\ ReadResultKept'
  <2>1. bracket \in {"draw", "gated", "clear"} /\ (span.read => span.wrote)
    BY <1>1, <1>6 DEF ModesOK, Drawing, Clearing, Whole
  <2>2. /\ \A t \in readInto' : ~same'[buf.app][t]
        /\ Owing' \subseteq {t \in Tiles : ~same'[buf.app][t]}
        /\ \A t \in Owing' : t \notin readInto /\ t \notin unreported
    BY <1>1, <1>2, <1>6 DEF Owing
  <2>3. Whole => IF buf.present THEN UNCHANGED <<buf, same>> ELSE ~buf'.dirty /\ Owing' = {}
    <3>1. CASE uniform.armed
      <4>1. bracket = "clear" /\ uniform.own /\ ~span.wrote /\ ~span.read
        BY <2>1, <3>1 DEF Drawing, Clearing, Whole
      <4>2. Pays(Tiles)
        BY <1>1, <1>2, <1>3, <3>1, <4>1, DeliverPays
      <4> QED BY <2>2, <4>2 DEF Pays
    <3>2. CASE ~uniform.armed /\ ~(narrow /\ ~area.full /\ area.valid)
      <4>1. Pays(Tiles)
        BY <1>1, <1>2, <1>3, <2>1, <3>2, DeliverPays
      <4> QED BY <2>2, <4>1 DEF Pays
    <3>3. CASE Whole /\ ~uniform.armed /\ narrow /\ ~area.full /\ area.valid
      <4>1. ~buf.present /\ bracket \in {"draw", "gated"}
        BY <2>1, <3>3 DEF ModesOK, Clearing, Whole
      <4>2. Pays(Scissored(Reported)) /\ Keeps
        BY <1>1, <1>2, <1>3, <2>1, <3>3, <4>1, DeliverPays
      <4>3. Owing \subseteq Scissored(Reported)
        BY <3>3, <4>1 DEF Drawing, Whole
      <4>4. \A t \in Tiles : t \notin readInto /\ t \notin unreported => same'[buf.app][t]
        BY <4>1, <4>2, <4>3 DEF Owing, Pays, Keeps
      <4> QED BY <2>2, <4>1, <4>2, <4>4 DEF Pays
    <3> QED BY <3>1, <3>2, <3>3
  <2>4. shown = "never" => ~buf.present
    BY DEF ModesOK
  <2>5. Settled'
    <3>1. Whole /\ buf.present => buf'.dirty /\ shown # "never"
      BY <1>2, <2>3, <2>4
    <3> QED BY <1>1, <2>1, <2>3, <3>1 DEF Settled, NoUniform, Whole
  <2>6. ReadResultKept'
    BY <1>2, <2>2 DEF ReadResultKept
  <2> QED BY <2>5, <2>6
<1>7. Settled' /\ ReadResultKept'
  BY <1>5, <1>6
<1> QED BY <1>1, <1>4, <1>7 DEF Reading, Clearing, Drawing, Whole

\* glFinish with what the last bracket left behind: it pays what was left marked, and
\* does nothing at all when a read's result is in the array.
LEMMA GlFinishAgrees ==
  ASSUME Inv, Agreement, Finish
  PROVE  Agreement'
<1> USE DEF Agreement, Inv
<1>1. /\ bracket = "none" /\ bracket' = "none" /\ Deliver /\ uniform' = NoUniform
      /\ unreported' = {t \in unreported : ~same'[buf.app][t]}
      /\ UNCHANGED <<span, area, pend, narrow, scissor, shown, readInto>>
  BY DEF Finish, StillUnlike
<1>2. /\ buf'.app = buf.app /\ buf'.bound = buf.bound /\ buf'.present = buf.present
      /\ buf.bound # Nobody => Deliverable
  BY <1>1, DeliverStep DEF SameOwner, PicturesOK, Deliverable
<1>3. scissor \in Boxes /\ readInto \subseteq Tiles /\ (shown = "never" => ~buf.present)
      /\ (narrow => shown # "after")
  BY DEF ModesOK, BracketOK
<1>4. ~uniform.armed /\ (span.read /\ ~span.wrote /\ ~span.was => ~buf.dirty)
  BY <1>1 DEF Settled, Whole
<1>5. /\ span.read /\ ~span.wrote =>
           UNCHANGED same /\ IF span.was THEN UNCHANGED buf ELSE ~buf'.dirty
      /\ ~(span.read /\ ~span.wrote) =>
           /\ Keeps /\ (~buf.dirty => UNCHANGED same)
           /\ Deliverable /\ buf.dirty /\ ~narrow => Pays(Tiles)
  BY <1>1, <1>3, <1>4, DeliverPays
<1>6. (buf'.dirty => buf.dirty) /\ Owing' \subseteq Owing /\ (~buf.dirty => UNCHANGED same)
  <2>1. (buf'.dirty => buf.dirty) /\ \A t \in Tiles : same[buf.app][t] => same'[buf.app][t]
    BY <1>5 DEF Keeps
  <2> QED BY <1>1, <1>2, <1>5, <2>1 DEF Owing
<1>7. ModesOK'
  BY <1>1, <1>2 DEF ModesOK
<1>8. Settled'
  <2>1. shown = "never" /\ buf'.dirty /\ readInto # {} => span.read /\ ~span.wrote
    BY <1>1, <1>6 DEF Settled, Whole
  <2>2. ASSUME buf.bound # Nobody, Whole, shown = "never" \/ ~buf'.dirty
        PROVE  Owing' = {}
    <3>1. CASE shown = "never" \/ ~buf.dirty
      BY <1>1, <1>6, <2>2, <3>1 DEF Settled, Whole
    <3>2. CASE shown # "never" /\ buf.dirty
      <4>1. ~narrow /\ ~buf'.dirty /\ ~(span.read /\ ~span.wrote)
        BY <1>3, <1>4, <1>5, <2>2, <3>2 DEF Whole
      <4>2. Pays(Tiles)
        BY <1>2, <1>5, <2>2, <3>2, <4>1
      <4>3. \A t \in Tiles : same'[buf.app][t]
        BY <3>2, <4>1, <4>2 DEF Pays
      <4> QED BY <1>2, <4>3 DEF Owing
    <3> QED BY <3>1, <3>2
  <2>3. span.read /\ ~span.wrote /\ ~span.was => ~buf'.dirty
    BY <1>4, <1>6
  <2> QED BY <1>1, <1>2, <2>1, <2>2, <2>3 DEF Settled, NoUniform, Whole
<1>9. ReadResultKept'
  <2>1. shown = "never" /\ readInto # {} => UNCHANGED same
    BY <1>1, <1>5, <1>6 DEF Settled, Whole
  <2> QED BY <1>1, <1>2, <2>1 DEF ReadResultKept
<1> QED BY <1>1, <1>7, <1>8, <1>9 DEF Reading, Clearing, Drawing, Whole

\* The agreement survives every step.
LEMMA AgreementStep == Inv /\ Agreement /\ [Next]_vars => Agreement'
<1> SUFFICES ASSUME Inv, Agreement, [Next]_vars PROVE Agreement'
  OBVIOUS
<1>1. CASE Bind
  BY <1>1, BindAgrees, ModesAgree DEF Bind
<1>2. CASE UNCHANGED vars
  BY <1>2, AgreementStands DEF vars
<1>3. CASE Close
  BY <1>3, FlushAgrees, FinishAgrees DEF Close
<1> QED BY <1>1, <1>2, <1>3, ModesAgree, OpenAgrees, PaintAgrees, GlFinishAgrees DEF Next

LEMMA AgreementInvariance == Spec => [](Inv /\ Agreement)
<1>1. Init => Inv /\ Agreement
  BY InvInit, AgreementInit
<1>2. (Inv /\ Agreement) /\ [Next]_vars => (Inv /\ Agreement)'
  BY InvStep, AgreementStep
<1> QED BY <1>1, <1>2, PTL DEF Spec

\* Between brackets the application's array is the picture, however little of it was
\* copied, but for the results of reads and for what nobody reported to a narrowed
\* mirror, and unless the surface was presented: whole, narrowed and constant
\* deliveries come to the same.
THEOREM ArrayIsThePicture == Spec => []ArrayAgrees
<1>1. Agreement => ArrayAgrees
  BY DEF Agreement, Settled, Whole, ArrayAgrees, AtRest, Agrees, Owing
<1> QED BY <1>1, AgreementInvariance, PTL

\* A surface without its mark has been delivered, even after it was presented, as long
\* as no mirror was narrowed since: one that is skipped for want of the mark owes nothing.
THEOREM CleanIsDelivered == Spec => []CleanMeansDelivered
<1>1. Agreement => CleanMeansDelivered
  BY DEF Agreement, Settled, Whole, CleanMeansDelivered, Clean, AtRest, Agrees, Owing
<1> QED BY <1>1, AgreementInvariance, PTL

\* What glReadPixels wrote into the bound array is not overwritten by the end of its
\* bracket, nor by any glFinish or glFlush that follows.
THEOREM ReadResultsStay == Spec => []ReadResultKept
<1>1. Agreement => ReadResultKept
  BY DEF Agreement
<1> QED BY <1>1, AgreementInvariance, PTL
=============================================================================
