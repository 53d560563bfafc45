------------------------------ MODULE BatchPath ------------------------------
(***************************************************************************)
(* A batch from the client to the engine: a triangle is built into         *)
(* trapezoids (OpenStepMGAMesaTriangle.c), the client asks the kernel's    *)
(* validator about it (osmgaMesaPrevalidate), the driver checks the        *)
(* destination, validates and clips (mgaSubmitHW3D, mgaSubmitWarp), and    *)
(* the engine walks the accepted trapezoids row by row.  For the WARP tier *)
(* a mesh is built a triangle at a time into runs of vertices.             *)
(*                                                                         *)
(* Batches nobody built are asked too: the driver takes whatever lies in   *)
(* the shared ring.                                                        *)
(***************************************************************************)
EXTENDS MesaWarp

CONSTANTS
  Triangles,    \* families [tris, prims, repeats, offsets, states] to build
  Batches,      \* families [states, tris]
  WarpBatches,  \* families [states, shapes]
  Meshes,       \* families [states, caps, jobs] for WARP; a job is a sequence of [tri, prim, offset]
  Window,       \* the driver's window, [start, end]
  Stride        \* the display's pitch, in pixels

(* The words of a batch are unsigned long, but for the scissor's corner,   *)
(* the texture's slopes and anchors and a trapezoid's row, height and edge *)
(* registers, which are long.                                              *)
IsState(st) ==
  /\ DOMAIN st = StateFields
  /\ {st.dstorg, st.dstWidth, st.dstHeight, st.dstPitch, st.zorg, st.scissorW, st.scissorH,
      st.biasU, st.biasV} \subseteq 0..WordMax
  /\ {st.scissorX, st.scissorY} \cup {st.tmr[i] : i \in 1..6} \subseteq Int
IsTri(t) ==
  /\ DOMAIN t = TriFields
  /\ {t.y, t.h, t.ar0, t.ar1, t.ar2, t.ar4, t.ar5, t.ar6, t.tu0, t.tv0, t.tq0} \subseteq Int
  /\ {t.left, t.right} \subseteq Nat
IsTriangle(tri) ==
  /\ DOMAIN tri = 1..3
  /\ \A i \in 1..3 : {tri[i].x, tri[i].y, tri[i].u} \subseteq Int /\ tri[i].c \in 0..ChannelMax
(* A triangle of a mesh; frexp finds every weight's power of two.          *)
IsAsk(t) ==
  /\ DOMAIN t.tri = 1..3 /\ t.offset \in Int
  /\ \A i \in 1..3 :
       {t.tri[i].x, t.tri[i].y, t.tri[i].z, t.tri[i].qw, t.tri[i].tq, t.tri[i].s, t.tri[i].t} \subseteq Int
  /\ \A w \in Weights(t.tri) : w > 0 => \E n \in -SlideMax..SlideMax : UpperHalf(w, n)
(* What the tier's policy lets through: words the driver knows, a state     *)
(* that bears them, and no level filter: the meshes here have no mip chain. *)
Drawable(st, prim) ==
  /\ PrimState(prim) = "OK"
  /\ StateCommon(st, 0, Limits(st, Window), AddressesDepth(prim), prim.opcode = OpTex) = "OK"
  /\ prim.opcode = OpTex => st.minmode = 0
ASSUME WindowAssumption == {Window.start, Window.end} \subseteq 0..WordMax
(* A column of a vertex, the largest with the display's pitch beside it, is *)
(* a number in the 16 bits a trapezoid has for one.                        *)
ASSUME ColumnAssumption == {CoordLimit, Stride} \subseteq Nat /\ CoordLimit + Stride < 65536
ASSUME BatchAssumption ==
  /\ \A f \in Triangles :
       /\ \A st \in f.states : IsState(st)
       /\ \A tri \in f.tris : IsTriangle(tri)
  /\ \A f \in Batches :
       /\ \A st \in f.states : IsState(st)
       /\ \A tris \in f.tris :
            tris \in Seq(Range(tris)) /\ \A i \in DOMAIN tris : IsTri(tris[i])
  /\ \A f \in WarpBatches :
       /\ \A st \in f.states : IsState(st)
       /\ \A b \in f.shapes :
            /\ DOMAIN b = WarpFields /\ b.mips \in Nat /\ b.runs \in Seq(Range(b.runs))
            /\ b.vtxCount \in Nat
            /\ \A r \in DOMAIN b.runs :
                 DOMAIN b.runs[r] = RunFields /\ {b.runs[r].first, b.runs[r].count} \subseteq Nat
            /\ \A i \in DOMAIN b.vtx :
                 DOMAIN b.vtx[i] = VertexFields /\ Range(b.vtx[i]) \subseteq 0..(2 * Negative - 1)
ASSUME MeshAssumption ==
  /\ {MaxRuns, MaxVertices} \subseteq Nat
  /\ \A f \in Meshes :
       /\ \A caps \in f.caps : {caps.vtx, caps.runs} \subseteq Nat
       /\ \A st \in f.states : IsState(st) /\ DestFits(st, Window) = "OK"
       /\ \A job \in f.jobs :
            /\ job \in Seq(Range(job))
            /\ \A k \in DOMAIN job :
                 IsAsk(job[k]) /\ \A st \in f.states : Drawable(st, job[k].prim)

VARIABLES
  phase,      \* "idle", "assembling", "built", "submitted", "drawing", "done"
  source,     \* what was asked, and as what
  batch,
  verdict,    \* [by, is]
  at,         \* the engine: trapezoid, row, edges and their errors
  hits        \* how often each pixel was drawn

vars == <<phase, source, batch, verdict, at, hits>>

NoBatch == [state |-> <<>>, tris |-> <<>>]
NoSource == [kind |-> "none"]
NoVerdict == [by |-> "nobody", is |-> "OK"]
Nowhere == [tri |-> 0, row |-> 0, lx |-> 0, rx |-> 0, lacc |-> 0, racc |-> 0]

Init ==
  /\ phase = "idle" /\ source = NoSource /\ batch = NoBatch
  /\ verdict = NoVerdict /\ at = Nowhere /\ hits = <<>>

(* A triangle of the Mesa driver.                                          *)
AskTriangle(job) ==
  \E built \in {BuildTriangle(job.tri, job.prim, job.repeats, job.offset)} :
      /\ source' = [kind |-> "triangle", job |-> job]
      /\ IF built.tris # <<>>
         THEN /\ phase' = "built" /\ UNCHANGED verdict
              /\ batch' = [state |-> [job.state EXCEPT !.tmr = built.tmr], tris |-> built.tris]
         ELSE /\ phase' = "done" /\ UNCHANGED batch
              /\ verdict' = [by |-> "builder", is |-> IF built.ok THEN "OK" ELSE "UNSUPPORTED"]
      /\ UNCHANGED <<at, hits>>

AskBatch(b) ==
  /\ phase' = "built" /\ source' = [kind |-> "batch"] /\ batch' = b
  /\ UNCHANGED <<verdict, at, hits>>

AskWarp(b) ==
  /\ phase' = "submitted" /\ source' = [kind |-> "warp"] /\ batch' = b
  /\ UNCHANGED <<verdict, at, hits>>

(* A mesh the WARP tier's policy has let through.  What is declined goes   *)
(* to the trapezoids, after what is queued; when the batch is full it is   *)
(* submitted and the triangle tried again, and one that does not fit an    *)
(* empty batch is declined too.                                            *)
AskMesh(st, caps, job) ==
  /\ phase' = "assembling" /\ batch' = EmptyWarp(st)
  /\ source' = [kind |-> "mesh", caps |-> caps, left |-> job, taken |-> <<>>, declined |-> <<>>]
  /\ UNCHANGED <<verdict, at, hits>>

AddTriangle ==
  /\ phase = "assembling" /\ source.left # <<>>
  /\ \E t \in {Head(source.left)} : \E built \in {BuildWarp(t.tri, t.prim, t.offset)} :
     LET empty == batch.runs = <<>>
         full == WarpFull(batch, t.prim, source.caps)
         declines == built = <<>> \/ (full /\ empty)
         taken == Append(source.taken, [tri |-> t.tri, prim |-> t.prim, built |-> built])
     IN  /\ phase' = IF ~empty /\ (declines \/ full) THEN "submitted" ELSE phase
         /\ batch' = IF declines \/ full THEN batch ELSE WarpAdd(batch, t.prim, built)
         /\ source' = IF declines
                      THEN [source EXCEPT !.left = Tail(@), !.declined = Append(@, t)]
                      ELSE IF full THEN source
                      ELSE [source EXCEPT !.left = Tail(@), !.taken = taken]
  /\ UNCHANGED <<verdict, at, hits>>

EndMesh ==
  /\ phase = "assembling" /\ source.left = <<>>
  /\ phase' = IF batch.runs = <<>> THEN "done" ELSE "submitted"
  /\ UNCHANGED <<source, batch, verdict, at, hits>>

-----------------------------------------------------------------------------
(* osmgaMesaPrevalidate: the windows are left open, and only a verdict     *)
(* that names a triangle counts.                                           *)

NamesTriangle(v) ==
  v \in {"DWGCTL", "ALPHA", "TRIROW", "TRICOL", "TRISLOPE", "EDGEDIV", "TRISGN", "TRICROSS",
         "TEXCOORD", "TRIEMPTY", "TRIFIELD", "ALPHACROSS"}
LocalLimitsTall(st) ==                       \* mutant: one row too many
  [Limits(st, [start |-> 0, end |-> WordMax]) EXCEPT !.clipY1 = @ + 1]
LocalLimits(st) == Limits(st, [start |-> 0, end |-> WordMax])

Prevalidate ==
  LET st == batch.state
      local == IF st.dstWidth = 0 \/ st.dstHeight = 0 THEN "OK"
               ELSE Validate(st, batch.tris, LocalLimits(st), TRUE)
  IN  /\ phase = "built"
      /\ IF NamesTriangle(local)
         THEN phase' = "done" /\ verdict' = [by |-> "client", is |-> local]
         ELSE phase' = "submitted" /\ UNCHANGED verdict
      /\ UNCHANGED <<source, batch, at, hits>>

-----------------------------------------------------------------------------
(* The driver.                                                             *)

(* Only the trapezoid path holds the pitch against the display's first.    *)
Destination(st, warp) ==
  IF ~warp /\ (st.dstPitch = 0 \/ st.dstPitch > Stride \/ st.dstWidth > st.dstPitch)
  THEN "DSTPITCH" ELSE DestFits(st, Window)

Start(i) ==
  LET t == batch.tris[i]
  IN  [tri |-> i, row |-> 0, lx |-> t.left, rx |-> t.right,
       lacc |-> t.ar1 - t.ar2, racc |-> t.ar4 - t.ar5]

(* Nothing left of the scissor is a success that draws nothing.            *)
Submit ==
  LET st == batch.state
      fits == Destination(st, FALSE)
      draws == verdict'.is = "OK" /\ ~ClipEmpty(ClipBox(st)) /\ batch.tris # <<>>
  IN  /\ phase = "submitted" /\ source.kind \in {"triangle", "batch"}
      /\ verdict' = [by |-> "kernel",
                     is |-> IF fits # "OK" THEN fits
                            ELSE Validate(st, batch.tris, Limits(st, Window), TRUE)]
      /\ phase' = IF draws THEN "drawing" ELSE "done"
      /\ at' = IF draws THEN Start(1) ELSE at
      /\ UNCHANGED <<source, batch, hits>>

SubmitWarp ==
  LET st == batch.state
      fits == Destination(st, TRUE)
  IN  /\ phase = "submitted" /\ source.kind \in {"warp", "mesh"} /\ phase' = "done"
      /\ verdict' = [by |-> "kernel",
                     is |-> IF fits # "OK" THEN fits ELSE ValidateWarp(batch, Limits(st, Window))]
      /\ UNCHANGED <<source, batch, at, hits>>

-----------------------------------------------------------------------------
(* The engine, a row at a time: the pixels from the left edge up to the    *)
(* right one, in the clip box; then both errors take their slope and every *)
(* column they are short of is walked.                                     *)

Tri == batch.tris[at.tri]
RowPixels == {<<x, Tri.y + at.row>> : x \in at.lx..(at.rx - 1)}
InBox(p) ==
  LET box == ClipBox(batch.state)
  IN  p[1] \in box.x[1]..(box.x[2] - 1) /\ p[2] \in box.y[1]..(box.y[2] - 1)
ShortBy(acc, div) == IF acc < 0 THEN -(acc \div div) ELSE 0
Stepped ==
  LET l == at.lacc + Tri.ar2
      r == at.racc + Tri.ar5
  IN  [tri |-> at.tri, row |-> at.row + 1,
       lx |-> at.lx + Toward(Tri.sgn, "left") * ShortBy(l, Tri.ar0),
       rx |-> at.rx + Toward(Tri.sgn, "right") * ShortBy(r, Tri.ar6),
       lacc |-> l + ShortBy(l, Tri.ar0) * Tri.ar0, racc |-> r + ShortBy(r, Tri.ar6) * Tri.ar6]

Row ==
  /\ phase = "drawing"
  /\ LET drawn == {p \in RowPixels : InBox(p)}
         last == at.row + 1 = Tri.h
     IN  /\ hits' = [p \in DOMAIN hits \cup drawn |->
                       (IF p \in DOMAIN hits THEN hits[p] ELSE 0) + (IF p \in drawn THEN 1 ELSE 0)]
         /\ phase' = IF last /\ at.tri = Len(batch.tris) THEN "done" ELSE phase
         /\ at' = IF ~last THEN Stepped ELSE IF at.tri = Len(batch.tris) THEN at ELSE Start(at.tri + 1)
  /\ UNCHANGED <<source, batch, verdict>>

(* More of a mesh begins with an empty batch.                              *)
Continue ==
  /\ phase = "done" /\ source.kind = "mesh" /\ source.left # <<>>
  /\ phase' = "assembling" /\ batch' = EmptyWarp(batch.state)
  /\ source' = [source EXCEPT !.taken = <<>>, !.declined = <<>>] /\ verdict' = NoVerdict
  /\ UNCHANGED <<at, hits>>

Return ==
  /\ phase = "done" /\ phase' = "idle" /\ ~(source.kind = "mesh" /\ source.left # <<>>)
  /\ source' = NoSource /\ batch' = NoBatch
  /\ verdict' = NoVerdict /\ at' = Nowhere /\ hits' = <<>>

AskForTriangle ==
  \E f \in Triangles : \E tri \in f.tris, prim \in f.prims, r \in f.repeats, o \in f.offsets, st \in f.states :
    AskTriangle([tri |-> tri, prim |-> prim, repeats |-> r, offset |-> o, state |-> st])
AskForBatch == \E f \in Batches : \E st \in f.states, tris \in f.tris :
                 AskBatch([state |-> st, tris |-> tris])
AskForWarp ==
  \E f \in WarpBatches : \E st \in f.states, shape \in f.shapes :
    AskWarp([state |-> st, mips |-> shape.mips, mipOrg |-> shape.mipOrg, runs |-> shape.runs,
             vtxCount |-> shape.vtxCount, vtx |-> shape.vtx])
AskForMesh == \E f \in Meshes : \E st \in f.states, caps \in f.caps, job \in f.jobs :
                AskMesh(st, caps, job)
Ask == phase = "idle" /\ (AskForMesh \/ AskForWarp \/ AskForTriangle \/ AskForBatch)
Next ==
  \/ Ask \/ AddTriangle \/ EndMesh
  \/ Prevalidate \/ Submit \/ SubmitWarp \/ Row \/ Continue \/ Return
Spec == Init /\ [][Next]_vars

-----------------------------------------------------------------------------
(* Every pixel of the clip box has its colour, and its depth where the     *)
(* batch has one, inside the driver's window.                              *)
PixelInside(st, p, z) ==
  LET i == p[2] * st.dstPitch + p[1]
  IN  /\ {st.dstorg + 4 * i, st.dstorg + 4 * i + 3} \subseteq Window.start..(Window.end - 1)
      /\ z => {st.zorg + 2 * i, st.zorg + 2 * i + 1} \subseteq Window.start..(Window.end - 1)

(* Whatever a batch declares, a row the engine walks stays inside its      *)
(* surface, and no word of a pixel it draws lies outside the window; of an *)
(* accepted WARP batch every float is a number in its range, and the clip  *)
(* box and every level of the texture lie in the window                    *)
(* (osmgaHW3DValidateReachSite, osmgaHW3DValidateWarp).                     *)
RowsStayInside ==
  phase = "drawing" =>
    \A p \in RowPixels :
      /\ p[1] \in 0..(batch.state.dstWidth - 1) /\ p[2] \in 0..(batch.state.dstHeight - 1)
      /\ PixelInside(batch.state, p, AddressesDepth(Tri.prim))
WarpAccepted == phase = "done" /\ source.kind = "warp" /\ verdict.is = "OK"
NumbersInRange ==
  LET Number(p) == F32Exp(p) # 2^ExpBits - 1
  IN  \A i \in DOMAIN batch.vtx :
        LET v == batch.vtx[i]
        IN  /\ \A p \in {v.x, v.y, v.z, v.rhw, v.tu0, v.tv0} : Number(p)
            /\ Abs(Value(v.x)) <= Value(Float.coord) /\ Abs(Value(v.y)) <= Value(Float.coord)
            /\ Value(v.z) \in 0..Value(Float.one)
            /\ Value(v.rhw) \in WeightMin..WeightMax
BoxInside ==
  LET st == batch.state
      box == ClipBox(st)
      deep == \E r \in DOMAIN batch.runs : AddressesDepth(batch.runs[r].prim)
  IN  ~ClipEmpty(box) =>
        \A x \in {box.x[1], box.x[2] - 1}, y \in {box.y[1], box.y[2] - 1} :
          PixelInside(st, <<x, y>>, deep)
LevelInside(org, w, h) ==
  {org, org + w * 4 * h - 1} \subseteq Window.start..(Window.end - 1)
LevelsInside ==
  LET st == batch.state
  IN  (\E r \in DOMAIN batch.runs : batch.runs[r].prim.opcode = OpTex) =>
        \A l \in 0..batch.mips :
          IF l = 0 THEN LevelInside(st.texorg, st.texPitch, st.texH)
          ELSE LevelInside(batch.mipOrg[l], st.texW \div 2^l, st.texH \div 2^l)
WarpStaysInside == WarpAccepted => NumbersInRange /\ BoxInside /\ LevelsInside
AcceptedStaysInside == RowsStayInside /\ WarpStaysInside

(* Every pixel of an accepted textured trapezoid samples in range, no sum  *)
(* or product the check or the engine forms on the way leaves a long, and  *)
(* with the bias the driver takes off it the farthest coordinate stays in  *)
(* range.  A numerator that perspective has already taken past the range,  *)
(* which it may, is left where it was.                                     *)
Sums(p0, dx, dy, x, y) == {p0, dx * x, dy * y, p0 + dx * x, p0 + dx * x + dy * y}
AcceptedSamplesInRange ==
  (phase = "drawing" /\ Textured(Tri)) =>
    LET st == batch.state
        Fits(v) == Abs(v) <= WordMax \div 2
        Biased(reach, request) ==
          reach + Addend(reach) - BiasOfBand(UsedBand(request, reach)) <= Max({CoordMax, reach})
    IN  /\ \A p \in RowPixels :
             LET x == p[1] - Tri.left
                 q == QAt(st, Tri, x, at.row)
             IN  /\ PointOK(st, Tri, x, at.row)
                 /\ \A v \in Sums(Tri.tu0, st.tmr[1], st.tmr[2], x, at.row)
                             \cup Sums(Tri.tv0, st.tmr[3], st.tmr[4], x, at.row)
                             \cup {(CoordMax \div QOne) * q} : Fits(v)
                 /\ st.persp => \A v \in Sums(Tri.tq0, st.tmr[5], st.tmr[6], x, at.row) : Fits(v)
        /\ Biased(ReachU(st, Tri), st.biasU) /\ Biased(ReachV(st, Tri), st.biasV)

(* The client's dry run leaves the kernel no triangle to name, and nobody  *)
(* gets another verdict for asking the reach as well.                      *)
OneVerdict ==
  (verdict.by = "kernel" /\ source.kind \in {"triangle", "batch"}) =>
    /\ ~NamesTriangle(verdict.is)
    /\ Destination(batch.state, FALSE) = "OK" =>
         verdict.is = Validate(batch.state, batch.tris, Limits(batch.state, Window), FALSE)

(* The pixels whose centres the triangle covers; a centre on an edge       *)
(* belongs to the side it is the left or the top edge of.                  *)
Inward(p, q, v) == (q.x - p.x) * (v.y - p.y) - (q.y - p.y) * (v.x - p.x)
Covers(tri, x, y) ==
  LET c == [x |-> SubOne * x + SubOne \div 2, y |-> SubOne * y + SubOne \div 2]
      s == Sign(Doubled(tri))
  IN  \A i \in 1..3 :
        LET p == tri[i]
            q == tri[(i % 3) + 1]
            e == s * Inward(p, q, c)
        IN  \/ e > 0
            \/ e = 0 /\ (s * (q.y - p.y) < 0 \/ (q.y = p.y /\ s * (q.x - p.x) > 0))
Covered(tri) ==
  LET Cells(vs) == (Min(vs) \div SubOne - 1)..(Max(vs) \div SubOne + 1)
  IN  {c \in Cells({tri[i].x : i \in 1..3}) \X Cells({tri[i].y : i \in 1..3}) :
         Covers(tri, c[1], c[2])}
Exact(tri) == Precision(ByY(tri)) = SubBits

(* Built, checked, clipped and walked at full precision, a triangle covers *)
(* exactly its pixels within the scissor, each once; and one whose corners *)
(* lie on the surface is not refused for a shape the builder gave it.      *)
OnSurface(st, v) == v.x \in 0..(SubOne * st.dstWidth) /\ v.y \in 0..(SubOne * st.dstHeight)
ShapeRefusals ==
  {"TRIROW", "TRISLOPE", "EDGEDIV", "TRIFIELD", "TRICOL", "TRISGN", "TRICROSS", "TRIEMPTY"}
PaintsTheTriangle ==
  (phase = "done" /\ source.kind = "triangle" /\ Exact(source.job.tri)) =>
    LET st == source.job.state
        all == Covered(source.job.tri)
        box == ClipBox(st)
    IN  verdict.is = "OK" =>
          /\ DOMAIN hits = IF ClipEmpty(box) THEN {} ELSE
               {c \in all : /\ c[1] \in box.x[1]..(box.x[2] - 1)
                            /\ c[2] \in box.y[1]..(box.y[2] - 1)}
          /\ \A c \in DOMAIN hits : hits[c] = 1
BuiltIsAccepted ==
  (/\ phase = "done" /\ source.kind = "triangle" /\ Exact(source.job.tri)
   /\ \A i \in 1..3 : OnSurface(source.job.state, source.job.tri[i]))
  => verdict.is \notin ShapeRefusals

(* At every pixel the channel is the triangle's within half a unit of      *)
(* every step it was walked, and the coordinate likewise, up to whole      *)
(* repeats of a texture that repeats.                                      *)
InterpolatesAsAsked ==
  (phase = "drawing" /\ source.kind = "triangle" /\ Exact(source.job.tri)) =>
    LET tri == source.job.tri
        a == tri[1]
        c == Plane(tri, a.c, tri[2].c, tri[3].c)
        u == Plane(tri, a.u, tri[2].u, tri[3].u)
        y == Tri.y + at.row
        Gentle == \A d \in {c.dx, c.dy} : Abs(d) * SubOne <= ChannelMax * c.den
        repeats == IF source.job.repeats THEN RebaseKs(a.u, a.u) ELSE {0}
    IN  \A x \in at.lx..(at.rx - 1) :
          LET dx == x - Tri.left
              Walk(start, sx, sy) == start + sx * dx + sy * at.row
              Near(got, plane, one) ==
                Abs(2 * plane.den * got - AtCentre(plane, a, x, y) * one)
                  <= plane.den * (1 + Abs(dx) + at.row)
          IN  /\ Gentle => Near(Walk(Tri.colour[1] - ChannelOne \div 2, Tri.colour[2], Tri.colour[3]),
                                c, ChannelOne)
              /\ Textured(Tri) => \E k \in repeats :
                   Near(UAt(batch.state, Tri, dx, at.row) + k * Span, u, 1)

(* Every vertex of an accepted WARP batch is drawn by one run; and a batch *)
(* the assembler built is accepted, its runs being the triangles it took,  *)
(* in order, each under its own words (osmgaHW3DValidateWarp,              *)
(* OSMGAMesaWarpAdd).                                                      *)
InRun(r, i) == i \in batch.runs[r].first..(batch.runs[r].first + batch.runs[r].count - 1)
RunsPartition ==
  (phase = "done" /\ source.kind \in {"warp", "mesh"} /\ verdict.is = "OK") =>
    /\ \A i \in 0..(batch.vtxCount - 1) : Cardinality({r \in DOMAIN batch.runs : InRun(r, i)}) = 1
    /\ source.kind = "mesh" =>
         /\ batch.vtxCount = 3 * Len(source.taken)
         /\ \A k \in DOMAIN source.taken, r \in DOMAIN batch.runs, i \in 1..3 :
              InRun(r, 3 * (k - 1) + i - 1) =>
                /\ batch.runs[r].prim = source.taken[k].prim
                /\ batch.vtx[3 * (k - 1) + i] = source.taken[k].built[i]
RunsHoldTheirSources ==
  /\ RunsPartition
  /\ (phase = "done" /\ source.kind = "mesh") => verdict.is = "OK"

(* What fits is not declined: a triangle with sane coordinates and depth   *)
(* whose weights some power of two brings into the window is built, and    *)
(* its floats stand in the ratio the weights do, to their last bit         *)
(* (osmgaMesaWarpTriangle's slide and OSMGAMesaBuildWarpVertex).           *)
Sane(t) ==
  \A i \in 1..3 :
    LET v == t.tri[i]
        far == SubOne * (Value(Float.coord) \div Value(Float.one))
    IN  /\ v.qw > 0 /\ v.tq > 0 /\ v.x \in 0..far /\ v.y \in 0..far
        /\ v.z + t.offset * SubOne \in 0..(SubOne * DepthMax)
        /\ {v.s, v.t} \subseteq 0..Value(Float.one)
WeightsStandAsGiven ==
  source.kind = "mesh" =>
    /\ \A k \in DOMAIN source.taken : \A i, j \in 1..3 :
         LET Given(n) == source.taken[k].tri[n].qw * source.taken[k].tri[n].tq
             Got(n) == Value(source.taken[k].built[n].rhw)
             p == Got(i) * Given(j)
             q == Got(j) * Given(i)
         IN  2^(ManBits + 1) * Abs(p - q) <= p + q
    /\ \A k \in DOMAIN source.declined :
         LET d == source.declined[k]
             ws == Weights(d.tri)
             Fit(n) == \A w \in ws : LET v == Ldexp(w, n)
                                    IN  v.n >= WeightMin * v.d /\ v.n <= WeightMax * v.d
         IN  Sane(d) /\ BuildWarp(d.tri, d.prim, d.offset) = <<>> => \A n \in -SlideMax..SlideMax : ~Fit(n)

(* Both: a mesh leaves the tier in its runs, with the weights it had.      *)
MeshIsDrawnAsGiven == RunsHoldTheirSources /\ WeightsStandAsGiven
=============================================================================
