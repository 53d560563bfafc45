---------------------------- MODULE MesaPictures ----------------------------
(***************************************************************************)
(* Two copies of a picture: the surface in video memory and the array the  *)
(* application gave OSMesa.  mesa/OpenStepMGAMesaBuffer.c binds, imports,  *)
(* mirrors, fills and releases; the span, line, clear and bracket hooks of *)
(* mesa/OpenStepMGAMesaHook.c decide what is delivered after a bracket.    *)
(*                                                                         *)
(* A picture is a row of tiles and a tile is only ever compared: same[a][t]*)
(* says that tile t of array a holds what the surface holds.  The batch is *)
(* one bracket's pending tiles (MesaBatch has its order and its refusals). *)
(* Mesa validates its state before it opens a bracket and opens one right  *)
(* after Driver.Clear.                                                     *)
(***************************************************************************)
EXTENDS Integers, FiniteSets

CONSTANTS
  Contexts, Arrays, Nobody,
  Sizes,             \* surface sizes a context may be bound with
  Width,             \* tiles of a picture
  MaxBrackets        \* bound: brackets of a behaviour

ASSUME NobodyAssumption == Nobody \notin Contexts \cup Arrays
ASSUME WidthAssumption == Width \in Nat \ {0}

VARIABLES
  hw,        \* the probe says hardware
  current,   \* the context OSMesaMakeCurrent was last called for
  buf,       \* bufMapped, bufCtx, bufBound, bufApp, bufDirty, bufFullNext, bufPresent
  depth,     \* depthMapped: Nobody, or the context and the size it was made for
  same,      \* [Arrays -> [tiles -> BOOLEAN]]
  hooked,    \* the contexts whose Driver calls are the hook's
  bracket,   \* "none", "draw" or "gated" by the triangle function that was put in,
             \* "clear" or "read"
  span,      \* spanWrote, spanRead, soilWasSet
  area,      \* osmgaAreaReset/Add: full, and the box, empty when ~valid
  pend,      \* tiles of the pending batch
  uniform,   \* the pending or current uniform clear
  pixelOf,   \* hookClearPixelCtx
  narrow,    \* hookNarrow: mirror only the box the writers reported
  scissor,   \* the scissor box
  shown,     \* history: present mode was "never" on since the surface was bound, or
             \* "after", or already "before" (so nothing was imported); "partly" when the
             \* mirror was narrowed at some time since
  readInto,  \* history: tiles of the bound array that hold a read's result
  unreported,\* history: tiles the array lacks and whose last writer, under a narrowed
             \* mirror, reported no box
  brackets

vars == <<hw, current, buf, depth, same, hooked, bracket, span, area, pend, uniform,
          pixelOf, narrow, scissor, shown, readInto, unreported, brackets>>

Tiles == 1..Width
Box(lo, hi) == {t \in Tiles : lo <= t /\ t <= hi}
Boxes == {box \in Tiles \X Tiles : box[1] <= box[2]}
NoArea == [full |-> FALSE, valid |-> FALSE, lo |-> 0, hi |-> 0]
NoUniform == [armed |-> FALSE, own |-> FALSE]
Free == [mapped |-> FALSE, ctx |-> Nobody, bound |-> Nobody, app |-> Nobody, size |-> 0,
         dirty |-> FALSE, full |-> TRUE, present |-> FALSE]

BoundTo(c) == buf.bound = c                            \* OSMGAMesaBufferBoundTo

Init ==
  /\ hw = TRUE /\ current = Nobody
  /\ buf = Free /\ depth = [ctx |-> Nobody, size |-> 0]
  /\ same = [a \in Arrays |-> [t \in Tiles |-> FALSE]]
  /\ hooked = {} /\ bracket = "none"
  /\ span = [wrote |-> FALSE, read |-> FALSE, was |-> FALSE]
  /\ area = NoArea /\ pend = {} /\ uniform = NoUniform /\ narrow = FALSE /\ pixelOf = Nobody
  /\ scissor = <<1, Width>> /\ shown = "never" /\ readInto = {}
  /\ unreported = {} /\ brackets = 0

-----------------------------------------------------------------------------
(* Binding and releasing.                                                  *)

hookState == <<hooked, narrow, bracket, span, area, pend, uniform, scissor, brackets>>

ImportAlways(b) ==                           \* mutant: present mode not asked
  same' = [a \in Arrays |-> [t \in Tiles |-> a = b.app \/ (same[a][t] /\ same[b.app][t])]]
(* Array and surface are made equal; other arrays keep what agrees of a    *)
(* surface that did not change.                                            *)
Import(b) ==
  IF b.present THEN UNCHANGED same
  ELSE same' = [a \in Arrays |-> [t \in Tiles |-> a = b.app \/ (same[a][t] /\ same[b.app][t])]]

(* OpenStepMesaAccelBuffer: a surface already there is taken up again only *)
(* by its context and only at its size; a fresh one needs room.            *)
Rebound(a) == [buf EXCEPT !.app = a, !.full = TRUE, !.bound = buf.ctx]
Fresh(c, a, size) == [mapped |-> TRUE, ctx |-> c, bound |-> c, app |-> a, size |-> size,
                      dirty |-> FALSE, full |-> TRUE, present |-> buf.present]
Unbound(c) == IF buf.bound = c THEN [buf EXCEPT !.bound = Nobody] ELSE buf
AccelBuffer(c, a, size, room) ==
  IF ~hw THEN buf' = Unbound(c) /\ UNCHANGED same
  ELSE IF buf.mapped
  THEN IF buf.ctx = c /\ buf.size = size
       THEN buf' = Rebound(a) /\ Import(Rebound(a))
       ELSE buf' = Unbound(c) /\ UNCHANGED same
  ELSE IF room
  THEN buf' = Fresh(c, a, size) /\ Import(Fresh(c, a, size))
  ELSE buf' = Unbound(c) /\ UNCHANGED same

(* OSMesaMakeCurrent; a context that takes the surface says what its clear *)
(* pixel is.                                                               *)
MakeCurrent(c, a, size, room) ==
  /\ bracket = "none" /\ brackets < MaxBrackets
  /\ current' = c
  /\ AccelBuffer(c, a, size, room)
  /\ pixelOf' = c
  /\ readInto' = IF buf'.bound = c THEN {} ELSE readInto
  /\ unreported' = IF buf'.bound = c THEN {} ELSE unreported
  /\ shown' = IF buf'.bound # c THEN shown ELSE IF buf'.present THEN "before" ELSE "never"
  /\ UNCHANGED <<hw, depth, hookState>>

(* OpenStepMesaAccelDepthBuffer: one mapping, for the context that has the *)
(* surface, at its size and when the rows fit.                             *)
DepthBuffer(c, size, fits) ==
  /\ bracket = "none" /\ hw
  /\ depth.ctx = Nobody /\ buf.mapped /\ buf.ctx = c /\ buf.size = size /\ fits
  /\ depth' = [ctx |-> c, size |-> size]
  /\ UNCHANGED <<hw, current, buf, same, pixelOf, shown, readInto, unreported,
                 hookState>>

(* OpenStepMesaAccelReleaseBuffer; Nobody stands for the null context.     *)
Release(c) ==
  /\ bracket = "none" /\ buf # Free
  /\ c = Nobody \/ buf.ctx \in {Nobody, c}
  /\ buf' = Free /\ depth' = [ctx |-> Nobody, size |-> 0]
  /\ same' = [a \in Arrays |-> [t \in Tiles |-> FALSE]]
  /\ shown' = "never" /\ readInto' = {} /\ unreported' = {}
  /\ UNCHANGED <<hw, current, pixelOf, hookState>>

Revoke == hw /\ hw' = FALSE
          /\ UNCHANGED <<current, buf, depth, same, pixelOf, shown, readInto, unreported,
                         hookState>>

(* Present mode: the array is left alone while the surface is shown.  The  *)
(* next mirror is not made whole when it ends (bufFullNext stays).         *)
PresentMode(on) ==
  /\ bracket = "none" /\ buf.present # on
  /\ buf' = [buf EXCEPT !.present = on]
  /\ shown' = IF ~on \/ shown # "never" THEN shown ELSE IF narrow THEN "partly" ELSE "after"
  /\ UNCHANGED <<hw, current, depth, same, pixelOf, readInto, unreported, hookState>>

NarrowMirror(on) ==                                    \* OSMGAMesaHookNarrowMirror
  /\ bracket = "none" /\ narrow # on
  /\ narrow' = on
  /\ shown' = IF on /\ shown = "after" THEN "partly" ELSE shown
  /\ UNCHANGED <<hw, current, buf, depth, same, hooked, bracket, span, area, pend, uniform,
                 pixelOf, scissor, readInto, unreported, brackets>>

-----------------------------------------------------------------------------
(* Delivering.                                                             *)

Soiled(b) == [b EXCEPT !.dirty = TRUE]
Delivered(tiles) ==
  [same EXCEPT ![buf.app] = [t \in Tiles |-> @[t] \/ t \in tiles]]
Nothing == UNCHANGED <<buf, same>>

MirrorForgets ==                             \* mutant: the mark goes before present mode is asked
  IF ~buf.mapped \/ buf.app = Nobody \/ ~buf.dirty THEN Nothing
  ELSE /\ buf' = [buf EXCEPT !.dirty = FALSE]
       /\ IF buf.present THEN same' = same ELSE same' = Delivered(Tiles)
Mirror ==                                              \* OSMGAMesaBufferMirror
  IF buf.present \/ ~buf.mapped \/ buf.app = Nobody \/ ~buf.dirty THEN Nothing
  ELSE buf' = [buf EXCEPT !.dirty = FALSE] /\ same' = Delivered(Tiles)

MirrorNarrow(lo, hi) ==
  IF buf.present \/ ~buf.mapped \/ buf.app = Nobody \/ ~buf.dirty THEN Nothing
  ELSE /\ buf' = [buf EXCEPT !.dirty = FALSE, !.full = FALSE]
       /\ same' = Delivered(IF buf.full THEN Tiles ELSE Box(lo, hi))

Fill(own) ==                                           \* OSMGAMesaBufferFill
  IF buf.present \/ ~buf.mapped \/ buf.app = Nobody THEN Nothing
  ELSE /\ buf' = [buf EXCEPT !.dirty = FALSE]
       /\ same' = [same EXCEPT ![buf.app] = [t \in Tiles |-> own]]

Unsoil == buf' = [buf EXCEPT !.dirty = FALSE] /\ UNCHANGED same

(* Pixels on the surface: every array differs there until it is delivered. *)
Painted(s, tiles) == [a \in Arrays |-> [t \in Tiles |-> s[a][t] /\ t \notin tiles]]
Scissored(tiles) == tiles \cap Box(scissor[1], scissor[2])
Greater(x, y) == IF x > y THEN x ELSE y
Lesser(x, y) == IF x < y THEN x ELSE y

DeliverReads ==                              \* mutant: a read is mirrored like a frame
  IF uniform.armed /\ ~span.wrote THEN Fill(uniform.own) ELSE Mirror
(* osmgaMesaMirror, after its flush: pend has been painted already.        *)
Deliver ==
  IF span.read /\ ~span.wrote
  THEN IF span.was THEN Nothing ELSE Unsoil
  ELSE IF uniform.armed /\ ~span.wrote THEN Fill(uniform.own)
  ELSE IF narrow /\ ~area.full /\ area.valid
  THEN LET lo == Greater(area.lo, scissor[1])
           hi == Lesser(area.hi, scissor[2])
       IN  IF hi < lo THEN Unsoil ELSE MirrorNarrow(lo, hi)
  ELSE Mirror

-----------------------------------------------------------------------------
(* Brackets.                                                               *)

(* The box is kept whether the mirror narrows or not, as it is with the    *)
(* OSMGA_MESA_INST_AREA instrument on.                                     *)
AreaAddUpwards(box) ==                       \* mutant: the lower edge does not move
  IF ~area.valid THEN [area EXCEPT !.valid = TRUE, !.lo = box[1], !.hi = box[2]]
  ELSE [area EXCEPT !.hi = Greater(@, box[2])]
AreaAdd(box) ==
  IF ~area.valid THEN [area EXCEPT !.valid = TRUE, !.lo = box[1], !.hi = box[2]]
  ELSE [area EXCEPT !.lo = Lesser(@, box[1]), !.hi = Greater(@, box[2])]
AreaReset(full) == [NoArea EXCEPT !.full = full]

(* osmgaMesaSoil, with what a clear just before it left behind.            *)
Soil(b, cleared) ==
  /\ span' = [wrote |-> FALSE, read |-> FALSE, was |-> b.dirty]
  /\ area' = AreaReset(cleared.taken)
  /\ uniform' = [armed |-> cleared.armed, own |-> cleared.own]
  /\ buf' = Soiled(b)
NoClear == [taken |-> FALSE, armed |-> FALSE, own |-> FALSE]

UpdateState == hooked' = IF BoundTo(current) THEN hooked \cup {current} ELSE hooked \ {current}
Validate ==                                            \* and at other times
  /\ bracket = "none" /\ current # Nobody /\ UpdateState
  /\ UNCHANGED <<hw, current, buf, depth, same, bracket, span, area, pend, uniform, pixelOf,
                 narrow, scissor, shown, readInto, unreported, brackets>>
Opens(kind) ==
  /\ bracket = "none" /\ current # Nobody /\ BoundTo(current) /\ brackets < MaxBrackets
  /\ bracket' = kind /\ brackets' = brackets + 1
  /\ UpdateState
  /\ UNCHANGED <<hw, current, depth, pixelOf, narrow, shown>>

RenderStart(kind, box) ==
  /\ Opens(kind)
  /\ Soil(buf, NoClear)
  /\ scissor' = box
  /\ UNCHANGED <<same, pend, readInto, unreported>>

(* Driver.Clear and the bracket _mesa_Clear opens after it.  The engine    *)
(* takes the clear or Mesa's own clear writes the surface; the constant is *)
(* armed for the whole surface and this context's clear pixel.             *)
ArmedForAll(box) == box = <<1, Width>> /\ pixelOf = current
Clear(engine, box) ==
  /\ Opens("clear")
  /\ Soil(Soiled(buf), [taken |-> engine, armed |-> engine /\ ArmedForAll(box),
                        own |-> pixelOf = current])
  /\ same' = Painted(same, Box(box[1], box[2]))
  /\ unreported' = unreported \ Box(box[1], box[2])
  /\ scissor' = box
  /\ UNCHANGED <<pend, readInto>>

ClearPixel(c) ==                                       \* glClearColor in context c
  /\ bracket = "none" /\ pixelOf # c
  /\ pixelOf' = c
  /\ UNCHANGED <<hw, current, buf, depth, same, shown, readInto, unreported, hookState>>

Inside(kinds) == bracket \in kinds
Within == <<hw, current, depth, hooked, bracket, uniform, pixelOf, narrow, scissor, shown, brackets>>

(* osmgaMesaTriangle and osmgaMesaSoftly report their vertices.            *)
Triangle(box) ==
  /\ Inside({"draw"}) /\ hw
  /\ area' = AreaAdd(box)
  /\ pend' = pend \cup Scissored(Box(box[1], box[2]))
  /\ UNCHANGED <<Within, buf, same, span, readInto, unreported>>

(* Mesa's own rasterisers, through the wrapped spans and lines.            *)
Spans(box, reads) ==
  /\ Inside({"draw", "gated"})
  /\ LET drawn == pend \cup Scissored(Box(box[1], box[2]))
     IN  same' = Painted(same, drawn) /\ unreported' = unreported \ drawn
  /\ pend' = {}
  /\ span' = [span EXCEPT !.wrote = TRUE, !.read = @ \/ reads]
  /\ area' = AreaAdd(box)
  /\ UNCHANGED <<Within, buf, readInto>>

(* The function behind a refused state counts the triangle and hands it to *)
(* the one Mesa chose, which writes rows itself: nobody reports them.  A   *)
(* whole mirror copies them all the same.                                  *)
GatedTriangle(box) ==
  /\ Inside({"gated"})
  /\ LET drawn == Scissored(Box(box[1], box[2]))
     IN  /\ same' = Painted(same, drawn)
         /\ unreported' = IF narrow THEN unreported \cup drawn ELSE unreported \ drawn
  /\ UNCHANGED <<Within, buf, pend, span, area, readInto>>

(* glReadPixels, perhaps into the array the surface is mirrored to.        *)
ReadSpans(box, into) ==
  /\ Inside({"read"})
  /\ span' = [span EXCEPT !.read = TRUE]
  /\ IF into
     THEN /\ readInto' = readInto \cup Box(box[1], box[2])
          /\ same' = [same EXCEPT ![buf.app] = [t \in Tiles |-> @[t] /\ t \notin Box(box[1], box[2])]]
     ELSE UNCHANGED <<readInto, same>>
  /\ UNCHANGED <<Within, buf, pend, area, unreported>>

(* The flush before the mirror; its picture is painted whoever drew it.    *)
FlushPending ==
  /\ bracket # "none" /\ pend # {}
  /\ same' = Painted(same, pend) /\ pend' = {} /\ unreported' = unreported \ pend
  /\ buf' = Soiled(buf)
  /\ UNCHANGED <<Within, span, area, readInto>>
StillUnlike(tiles) == {t \in tiles : ~same'[buf.app][t]}
(* A read reads something: one that is clipped away altogether would look  *)
(* like an empty frame and be mirrored.                                    *)
RenderFinish ==
  /\ bracket # "none" /\ pend = {} /\ (bracket = "read" => span.read)
  /\ Deliver
  /\ bracket' = "none" /\ uniform' = NoUniform
  /\ readInto' = IF bracket = "read" THEN readInto ELSE StillUnlike(readInto)
  /\ unreported' = StillUnlike(unreported)
  /\ UNCHANGED <<hw, current, depth, hooked, span, area, pend, pixelOf, narrow, scissor, shown,
                 brackets>>

(* glFinish and glFlush, with whatever the context has installed.          *)
Finish ==
  /\ bracket = "none" /\ current \in hooked
  /\ Deliver
  /\ uniform' = NoUniform /\ unreported' = StillUnlike(unreported)
  /\ UNCHANGED <<hw, current, depth, hooked, bracket, span, area, pend, pixelOf, narrow, scissor,
                 shown, readInto, brackets>>

Bind == \E c \in Contexts, a \in Arrays, size \in Sizes, room \in BOOLEAN :
          MakeCurrent(c, a, size, room) \/ DepthBuffer(c, size, room)
LetGo == \E c \in Contexts \cup {Nobody} : Release(c)
Paint == \E box \in Boxes :
           \/ Triangle(box) \/ GatedTriangle(box)
           \/ \E flag \in BOOLEAN : Spans(box, flag) \/ ReadSpans(box, flag)
Open == \E box \in Boxes :
          \/ \E kind \in {"draw", "gated", "read"} : RenderStart(kind, box)
          \/ \E engine \in BOOLEAN : Clear(engine, box)
Mode ==
  \/ Revoke \/ Validate
  \/ \E on \in BOOLEAN : PresentMode(on) \/ NarrowMirror(on)
  \/ \E c \in Contexts : ClearPixel(c)
Close == FlushPending \/ RenderFinish

Next == Bind \/ LetGo \/ Mode \/ Open \/ Paint \/ Close \/ Finish

Spec == Init /\ [][Next]_vars

-----------------------------------------------------------------------------
(* Type correctness, and what belongs together: a bound surface is mapped, *)
(* its own context is the one bound, and a box is within the picture.      *)
TypeOK ==
  /\ {hw, narrow} \subseteq BOOLEAN /\ hooked \subseteq Contexts
  /\ buf \in [mapped : BOOLEAN, ctx : Contexts \cup {Nobody}, bound : Contexts \cup {Nobody},
              app : Arrays \cup {Nobody}, size : Sizes \cup {0}, dirty : BOOLEAN,
              full : BOOLEAN, present : BOOLEAN]
  /\ buf.bound # Nobody => buf.mapped /\ buf.ctx = buf.bound /\ buf.app # Nobody
  /\ same \in [Arrays -> [Tiles -> BOOLEAN]]
  /\ {pend, readInto, unreported} \subseteq SUBSET Tiles
  /\ area.valid => <<area.lo, area.hi>> \in Boxes
  /\ span \in [wrote : BOOLEAN, read : BOOLEAN, was : BOOLEAN]

(* Between brackets the application's array is the picture, however little *)
(* of it was copied, but for what a read put there itself and for what a   *)
(* writer that reports no box drew under a narrowed mirror; unless the     *)
(* surface was being presented.                                            *)
AtRest == bracket = "none" /\ buf.bound # Nobody
Agrees(tiles) == \A t \in tiles : same[buf.app][t]
ArrayAgrees ==
  AtRest /\ shown = "never" => Agrees(Tiles \ (readInto \cup unreported))

(* A surface that is not marked dirty has been delivered, even after it was*)
(* presented: the next mirror is never skipped for a picture still owed,   *)
(* as long as no mirror was narrowed since it was presented.               *)
Clean == AtRest /\ ~buf.present /\ ~buf.dirty
CleanMeansDelivered ==
  Clean /\ shown \in {"never", "after"} => Agrees(Tiles \ (readInto \cup unreported))

(* The claim of Hook.c:449: nothing draws without a box a narrowed mirror  *)
(* can go by.  A gated triangle does.                                      *)
EveryWriterIsReported ==
  AtRest /\ shown = "never" => Agrees(Tiles \ readInto)

(* The claim of Buffer.c:43, on which narrowing rests: after a mirror the  *)
(* array equals the surface.  Not after the mirror that follows present    *)
(* mode, which copies its own bracket's box alone.                         *)
EqualAfterMirror ==
  Clean /\ shown # "before" /\ ~buf.full => Agrees(Tiles \ (readInto \cup unreported))

(* What glReadPixels wrote into the bound array is not overwritten by the  *)
(* end of its bracket, nor by glFinish: only by what is drawn later. (What *)
(* was drawn while presenting may be delivered at any time after.)         *)
ReadResultKept == shown = "never" => \A t \in readInto : ~same[buf.app][t]

(* The depth mapping belongs to the surface: it is never found under       *)
(* another context's or another size's.                                    *)
DepthHasItsSurface ==
  depth.ctx # Nobody => buf.mapped /\ depth.ctx = buf.ctx /\ depth.size = buf.size

(* While the surface is presented neither side is written over the other:  *)
(* no import, no mirror, no constant.                                      *)
LiveFrameKept ==
  [][buf.present /\ buf'.present =>
       \A a \in Arrays : \A t \in Tiles : same'[a][t] => same[a][t]]_vars

=============================================================================
