----------------------------- MODULE MesaBatch -----------------------------
(***************************************************************************)
(* The deferred drawing of the Mesa back end: mesa/OpenStepMGAMesaHook.c   *)
(* gathers source triangles into the one command window the driver gives a *)
(* process, ships them, and has Mesa's rasteriser draw what the kernel     *)
(* refuses; mesa/OpenStepMGAMesaProbe.c decides whether there is a window. *)
(*                                                                         *)
(* One GL context owns the surface.  A triangle is a shape (what the       *)
(* builders and the gates make of it) and an order number; pixels, colours *)
(* and coordinates are left out.  The kernel answers every submission as   *)
(* it likes: it may take it, refuse it with or without naming a trapezoid, *)
(* or fail after the engine had it.                                        *)
(***************************************************************************)
EXTENDS Naturals, Sequences, FiniteSets, SequencesExt

CONSTANTS
  Shapes,        \* the source triangles the client may draw, see ShapeOK
  NoKey,         \* the key of a batch, or of a source, without a texture
  BatchLimit,    \* hookBatchLimit, and the sources a WARP batch holds
  RefusalLimit,  \* OSMGA_MESA_REFUSAL_LIMIT
  NarrowLimit,   \* OSMGA_MESA_NARROW_LIMIT
  MaxSource,     \* bound: source triangles of a behaviour
  MaxUpdates,    \* bound: state updates
  MaxForks       \* bound: forks (0 or 1)

(* key: texture block the source needs; warp: WARP takes its state and its *)
(* vertices; mip: a mip filter; fits: the trapezoid builder can express it;*)
(* traps: how many trapezoids it makes (none: no area); clipped: one of its*)
(* vertices is a temporary of the clipper; facing: the depth offset and    *)
(* the colours of its side, which Mesa installs before it calls.           *)
ShapeOK(s) == /\ s.warp \in BOOLEAN /\ s.mip \in BOOLEAN
              /\ s.fits \in BOOLEAN /\ s.clipped \in BOOLEAN
              /\ s.facing \in {0, 1} /\ s.traps \in 0..2 /\ (s.mip => s.key # NoKey)

ASSUME ShapesAssumption == \A s \in Shapes : ShapeOK(s)
ASSUME LimitsAssumption == /\ BatchLimit \in Nat /\ BatchLimit >= 2
                           /\ RefusalLimit \in Nat \ {0} /\ NarrowLimit \in Nat
                           /\ MaxSource \in Nat /\ MaxUpdates \in Nat /\ MaxForks \in Nat

VARIABLES
  probe,     \* probeDone, probePid, probeFd, probeBatch, probeRevoked, verdict
  proc,      \* the process: 1, or 2 in the child of a fork
  device,    \* what /dev/osmga would answer, see Answers
  warpTier,  \* osmgaMesaWarpWanted, sampled once
  bound,     \* OSMGAMesaBufferBoundTo(ctx): the surface is this context's
  install,   \* Driver.TriangleFunc: "none", "gated" or "hard"
  saved,     \* savedTriangle: Mesa has a software triangle to go back to
  bracket,   \* between RenderStart and RenderFinish
  live,      \* what ctx holds now: PolygonZoffset, ColorPtr, IndexPtr, Specular
  pend,      \* the pending sources, oldest first: pendSrc
  mode,      \* pendMode: "none" or "warp"
  batchKey,  \* pendHasTex and the texture block, or NoKey
  job,       \* the triangle inside osmgaMesaTriangle
  flush,     \* a flush in progress
  refused,   \* hookRefusedRun
  clipOff,   \* clipDeferralOff
  canvas,    \* what was painted, and when
  clock,     \* the time of the last stroke
  gone,      \* sources that will never be painted, and why
  dropped,   \* hookDropped: "nowhere left to draw: lost"
  fault,     \* the process touched memory that is not mapped
  next, updates, forks   \* order numbers and bounds

vars == <<probe, proc, device, warpTier, bound, install, saved, bracket, live,
          pend, mode, batchKey, job, flush, refused, clipOff, canvas, clock,
          gone, dropped, fault, next, updates, forks>>

client == <<device, warpTier, bound, install, saved, proc, next, updates, forks>>

Answers == {"hardware", "override", "no_device", "not_ours", "magic", "version",
            "stale_node", "layout", "disabled", "unavailable"}
NoJob == [stage |-> "none"]
NoFlush == [stage |-> "none"]
Idle == job = NoJob /\ flush = NoFlush /\ ~fault

-----------------------------------------------------------------------------
(* The probe.                                                              *)

Window == probe.fd /\ probe.win /\ ~probe.revoked     \* OSMGAMesaProbeBatch
Revoked(p) == [p EXCEPT !.revoked = TRUE, !.win = FALSE, !.fd = FALSE]

(* osmgaProbePerform: the first check that fails names the verdict, and the*)
(* device stays open only when none does.                                  *)
Verdict == IF device = "layout" THEN "version" ELSE device
Performed(p) ==
  [p EXCEPT !.done = TRUE, !.pid = proc, !.verdict = Verdict,
            !.fd = device = "hardware"]

Foreign(p) == p.done /\ p.pid # proc
ProbeRunForgets(p) ==                    \* mutant: the child starts from nothing
  IF ~Foreign(p) /\ p.done THEN p ELSE Performed([p EXCEPT !.revoked = FALSE, !.win = FALSE])
(* A child lets go of what it inherited and decides again.                 *)
ProbeRun(p) ==
  LET own == IF Foreign(p) THEN [p EXCEPT !.win = FALSE, !.fd = FALSE, !.done = FALSE]
             ELSE p
  IN  IF own.done THEN own ELSE Performed(own)
Hardware(p) == p.verdict = "hardware" /\ ~p.revoked

-----------------------------------------------------------------------------
(* Painting.                                                               *)

(* A source on the canvas.  No submission divides a source, so that its    *)
(* trapezoids are one stroke.                                              *)
Stroke(src, by, own, at) == [id |-> src.id, by |-> by, own |-> own, at |-> at]

(* A source is drawn with its own state when it was recorded with it (want *)
(* is what Mesa had installed for its triangle) and, on the engine, when   *)
(* the one texture of the batch is its texture.                            *)
OwnHeld(s) == s.held = s.want
ByEngine(srcs, key) ==
  {Stroke(srcs[i], "engine", OwnHeld(srcs[i]) /\ srcs[i].key \in {NoKey, key}, clock + i) :
     i \in DOMAIN srcs}
(* osmgaMesaReplaySource installs what the source recorded before          *)
(* osmgaMesaSoftly calls Mesa's own triangle.                              *)
Replayable(src) == src.replayable
Replayed(srcs) == {i \in DOMAIN srcs : saved /\ Replayable(srcs[i])}
BySoftware(srcs) ==
  {Stroke(srcs[i], "software", OwnHeld(srcs[i]), clock + i) : i \in Replayed(srcs)}

Lost(srcs, which, why) == {[id |-> srcs[i].id, why |-> why] : i \in which}
(* Replay of a list of sources: what lands on the canvas, what is lost, and *)
(* what of that is counted: a source that Mesa declines is not.            *)
Replay(srcs) ==
  LET clipped == {i \in DOMAIN srcs : ~Replayable(srcs[i])}
      undrawn == DOMAIN srcs \ (clipped \cup Replayed(srcs))
  IN  /\ canvas' = canvas \cup BySoftware(srcs)
      /\ clock' = clock + Len(srcs)
      /\ gone' = gone \cup Lost(srcs, clipped, "clipped")
                     \cup Lost(srcs, undrawn, "no_rasteriser")
      /\ dropped' = dropped + Cardinality(clipped)
      /\ clipOff' = (clipOff \/ clipped # {})

(* The window is gone with work pending: draw it if the surface is still   *)
(* there, drop it if it is not.                                            *)
Rescue(srcs) ==
  IF bound THEN Replay(srcs)
  ELSE /\ gone' = gone \cup Lost(srcs, DOMAIN srcs, "surface_released")
       /\ dropped' = dropped + Len(srcs)
       /\ UNCHANGED <<canvas, clock, clipOff>>

(* Mesa's own triangle, if it has one.                                     *)
DrawSoftly(id, own) ==
  /\ IF saved
     THEN /\ canvas' = canvas \cup {Stroke([id |-> id], "software", own, clock + 1)}
          /\ clock' = clock + 1 /\ gone' = gone
     ELSE gone' = gone \cup {[id |-> id, why |-> "no_rasteriser"]} /\ UNCHANGED <<canvas, clock>>
  /\ dropped' = dropped

(* osmgaMesaCountRefusal; a refusal made in this process is not counted.   *)
Counted(n) == refused + n
CountRefusal(n) ==
  /\ refused' = Counted(n)
  /\ probe' = IF n > 0 /\ Counted(n) >= RefusalLimit THEN Revoked(probe) ELSE probe

-----------------------------------------------------------------------------
(* Initially the client has made its context current and bound a surface.  *)

Init ==
  /\ probe = [done |-> FALSE, pid |-> 0, verdict |-> "none", fd |-> FALSE,
              win |-> FALSE, revoked |-> FALSE]
  /\ device \in Answers
  /\ proc = 1 /\ forks = 0 /\ updates = 0 /\ next = 1
  /\ warpTier \in BOOLEAN
  /\ bound \in BOOLEAN
  /\ install = "none" /\ saved = FALSE /\ bracket = FALSE /\ live = 0
  /\ pend = <<>> /\ mode = "none" /\ batchKey = NoKey
  /\ job = NoJob /\ flush = NoFlush
  /\ refused = 0 /\ clipOff = FALSE
  /\ canvas = {} /\ clock = 0 /\ gone = {} /\ dropped = 0 /\ fault = FALSE

(* OpenStepMesaAccelUpdateState, between brackets.  gate is what           *)
(* osmgaMesaChooseTriangle makes of the GL state, fits that the stride and *)
(* the row order agree, mapped that the command window can be mapped, soft *)
(* that Mesa chose a triangle of its own.  A child's first probe releases  *)
(* the surface: with no origin the chooser answers NULL.                   *)
UpdateState(gate, fits, mapped, soft) ==
  /\ Idle /\ ~bracket /\ updates < MaxUpdates
  /\ updates' = updates + 1
  /\ IF ~bound
     THEN install' = "none" /\ saved' = FALSE /\ UNCHANGED <<probe, bound>>
     ELSE IF ~fits
     THEN install' = "none" /\ UNCHANGED <<probe, bound, saved>>
     ELSE LET p == ProbeRun(probe)
              q == IF Hardware(p) THEN [p EXCEPT !.win = @ \/ (mapped /\ p.fd)] ELSE p
              surface == ~Foreign(probe)
          IN  /\ probe' = q
              /\ bound' = surface
              /\ saved' = soft
              /\ install' = IF Hardware(p) /\ q.win /\ surface /\ gate THEN "hard" ELSE "gated"
  /\ UNCHANGED <<device, warpTier, proc, next, forks, bracket, live, pend, mode,
                 batchKey, job, flush, refused, clipOff, canvas, clock, gone, dropped, fault>>

(* The child goes on with everything it inherited.                         *)
Fork ==
  /\ Idle /\ ~bracket /\ forks < MaxForks
  /\ forks' = forks + 1 /\ proc' = proc + 1
  /\ UNCHANGED <<probe, device, warpTier, bound, install, saved, bracket, live, pend, mode,
                 batchKey, job, flush, refused, clipOff, canvas, clock, gone, dropped, fault, next, updates>>

(* Driver.RenderStart; the marks it makes on the surface are in            *)
(* MesaPictures.                                                           *)
RenderStart ==
  /\ Idle /\ ~bracket /\ next <= MaxSource
  /\ bracket' = TRUE
  /\ UNCHANGED <<client, probe, live, pend, mode, batchKey, job, flush, refused, clipOff,
                 canvas, clock, gone, dropped, fault>>

-----------------------------------------------------------------------------
(* Flushing.  A flush detaches the pending sources first; nothing else of  *)
(* the hook runs until it ends.                                            *)

StartFlush ==
  IF pend = <<>> THEN UNCHANGED <<flush, pend, mode>>
  ELSE /\ flush' = [stage |-> IF mode = "warp" THEN "warp" ELSE "ask",
                    rest |-> pend, prefix |-> <<>>, local |-> FALSE,
                    geometry |-> FALSE, rounds |-> 0, was |-> live]
       /\ pend' = <<>> /\ mode' = "none"

EndFlushKeepsReplayed ==                       \* mutant: the context as replayed
  /\ flush' = NoFlush
  /\ live' = IF flush.rest # <<>> THEN Last(flush.rest).held ELSE flush.was
(* What the context held on the way in goes back on the way out.           *)
EndFlush == flush' = NoFlush /\ live' = flush.was
Flushing(stage) == flush.stage = stage /\ ~fault
Calm == <<client, bracket, pend, mode, batchKey, job, fault>>

(* The driver, or the validator run here first, took the batch.            *)
Drawn(srcs) ==
  /\ canvas' = canvas \cup ByEngine(srcs, batchKey) /\ clock' = clock + Len(srcs)
  /\ refused' = 0
  /\ UNCHANGED <<probe, clipOff, gone, dropped>>
Abandoned(half, undrawn) ==
  gone' = gone \cup Lost(half, DOMAIN half, "half_drawn")
               \cup Lost(undrawn, DOMAIN undrawn, "abandoned")
FailedReplayed(half, undrawn) ==               \* mutant: handled like a refusal
  /\ probe' = Revoked(probe) /\ Abandoned(half, undrawn)
  /\ canvas' = canvas \cup BySoftware(half) /\ clock' = clock + Len(half)
  /\ UNCHANGED <<refused, clipOff, dropped>>
(* The engine had the batch and the submission failed: part of it may be   *)
(* on the screen, so none of it is drawn again, nor what follows it.  The  *)
(* trapezoid flush leaves hookDropped alone; the WARP flush counts its     *)
(* sources.                                                                *)
Failed(half, undrawn) ==
  /\ probe' = Revoked(probe) /\ Abandoned(half, undrawn)
  /\ UNCHANGED <<refused, clipOff, canvas, clock, dropped>>
WarpFailed(srcs) ==
  /\ probe' = Revoked(probe)
  /\ gone' = gone \cup Lost(srcs, DOMAIN srcs, "warp_failed")
  /\ dropped' = dropped + Len(srcs)
  /\ UNCHANGED <<refused, clipOff, canvas, clock>>

(* osmgaMesaFlushWarp: one submission; a refusal replays all of it.        *)
FlushWarp ==
  /\ Flushing("warp")
  /\ IF ~Window THEN Rescue(flush.rest) /\ UNCHANGED <<probe, refused>>
     ELSE \/ Drawn(flush.rest)
          \/ WarpFailed(flush.rest)
          \/ CountRefusal(1) /\ Replay(flush.rest)
  /\ EndFlush
  /\ UNCHANGED Calm

FlushDrawn == Flushing("submit") /\ Drawn(flush.rest) /\ EndFlush /\ UNCHANGED Calm
FlushFailed == Flushing("submit") /\ Failed(flush.rest, <<>>) /\ EndFlush /\ UNCHANGED Calm

(* Where a trapezoid index lands: trapezoid t is made by the source behind *)
(* the first k.                                                            *)
TrapCount(srcs) == FoldLeft(LAMBDA n, s : n + s.traps, 0, srcs)
Makes(srcs, k, t) ==
  TrapCount(SubSeq(srcs, 1, k)) < t /\ t <= TrapCount(SubSeq(srcs, 1, k + 1))

(* A refusal that names no trapezoid, or one after the narrowing budget:   *)
(* all that is left goes to software, and the refusal counts.              *)
FlushRefused ==
  /\ Flushing("submit")
  /\ \E n \in {0, 1} : CountRefusal(n)          \* 0: refused in this process
  /\ Replay(flush.rest) /\ EndFlush
  /\ UNCHANGED Calm

(* A refusal naming trapezoid t: narrow to the source that made it.  local *)
(* is the validator run in this process (osmgaMesaPrevalidate), which the  *)
(* narrowing budget does not bind (rounds is counted up to it); geometry  *)
(* is E_TRICOL or E_TRICROSS.                                             *)
FlushNamed(t, local, geometry) ==
  /\ Flushing("submit")
  /\ flush.rounds < NarrowLimit \/ local
  /\ \E k \in 0..Len(flush.rest) - 1 :
       /\ Makes(flush.rest, k, t)
       /\ flush' = [flush EXCEPT !.stage = "prefix",
                                 !.rounds = IF @ < NarrowLimit THEN @ + 1 ELSE @,
                                 !.local = local, !.geometry = geometry,
                                 !.prefix = SubSeq(flush.rest, 1, k),
                                 !.rest = SubSeq(flush.rest, k + 1, Len(flush.rest))]
  /\ UNCHANGED <<client, bracket, pend, mode, batchKey, job, fault, probe, live,
                 refused, clipOff, canvas, clock, gone, dropped>>

(* The good prefix, resubmitted.  Refused again, it goes to software.      *)
ToNamed == flush' = [flush EXCEPT !.stage = "named", !.prefix = <<>>] /\ UNCHANGED live
FlushPrefix ==
  /\ Flushing("prefix")
  /\ IF flush.prefix = <<>>
     THEN ToNamed /\ UNCHANGED <<probe, refused, clipOff, canvas, clock, gone, dropped>>
     ELSE IF ~Window
     THEN Rescue(flush.prefix \o flush.rest) /\ EndFlush /\ UNCHANGED <<probe, refused>>
     ELSE \/ Drawn(flush.prefix) /\ ToNamed
          \/ Failed(flush.prefix, flush.rest) /\ EndFlush
          \/ /\ \E n \in {0, 1} : CountRefusal(n)
             /\ Replay(flush.prefix) /\ ToNamed
  /\ UNCHANGED Calm

(* The named source in software; the refusal is pardoned when it was redrawn *)
(* and its verdict is one ordinary geometry provokes.                      *)
NamedCount ==
  LET redrew == Replayed(<<flush.rest[1]>>) # {}
  IN  IF flush.local \/ (redrew /\ flush.geometry) THEN 0 ELSE 1
FlushSourceStays ==                            \* mutant: stays at what is not redrawn
  /\ Flushing("named")
  /\ CountRefusal(NamedCount)
  /\ IF Replayed(<<flush.rest[1]>>) = {}
     THEN /\ flush' = [flush EXCEPT !.stage = "ask"]
          /\ UNCHANGED <<live, canvas, clock, gone, dropped, clipOff>>
     ELSE /\ Replay(<<flush.rest[1]>>)
          /\ IF Len(flush.rest) = 1 THEN EndFlush
             ELSE /\ flush' = [flush EXCEPT !.stage = "ask", !.rest = Tail(@)]
                  /\ UNCHANGED live
  /\ UNCHANGED Calm
FlushSource ==
  /\ Flushing("named")
  /\ CountRefusal(NamedCount) /\ Replay(<<flush.rest[1]>>)
  /\ IF Len(flush.rest) = 1 THEN EndFlush
     ELSE /\ flush' = [flush EXCEPT !.stage = "ask", !.rest = Tail(@)]
          /\ UNCHANGED live
  /\ UNCHANGED Calm

(* The window is asked for at the start, and again before the remainder    *)
(* goes around.                                                            *)
FlushAsks ==
  /\ Flushing("ask")
  /\ IF Window
     THEN /\ flush' = [flush EXCEPT !.stage = "submit"]
          /\ UNCHANGED <<live, canvas, clock, gone, dropped, clipOff>>
     ELSE Rescue(flush.rest) /\ EndFlush
  /\ UNCHANGED <<client, bracket, pend, mode, batchKey, job, fault, probe, refused>>

FlushStep ==
  \/ FlushWarp \/ FlushDrawn \/ FlushFailed \/ FlushRefused \/ FlushPrefix
  \/ FlushSource \/ FlushAsks
  \/ \E local, geometry \in BOOLEAN :
       \E t \in 1..(IF flush = NoFlush THEN 0 ELSE TrapCount(flush.rest)) :
          FlushNamed(t, local, geometry)

-----------------------------------------------------------------------------
(* One triangle through osmgaMesaTriangle.  held says that the pointer     *)
(* taken at entry was not null; the trapezoid path writes through it.      *)

Busy == <<client, probe, bracket, refused, clipOff>>
At(stage) == job.stage = stage /\ flush = NoFlush /\ ~fault
Goto(stage) == job' = [job EXCEPT !.stage = stage]
(* Mesa computes the offset and swings the colour arrays before the call   *)
(* and puts them back after it.                                            *)
Return == job' = NoJob /\ live' = 0

Triangle(s) ==
  /\ Idle /\ bracket /\ install = "hard" /\ next <= MaxSource
  /\ next' = next + 1 /\ live' = s.facing
  /\ job' = [stage |-> IF ~Window THEN "soft" ELSE IF s.key # NoKey THEN "texture" ELSE "warp",
             id |-> next, shape |-> s]
  /\ UNCHANGED <<device, warpTier, bound, install, saved, proc, updates, forks, probe, bracket,
                 pend, mode, batchKey, flush, refused, clipOff, canvas, clock, gone, dropped, fault>>

(* The triangle while the state gate says software.                        *)
GatedTriangle(s) ==
  /\ Idle /\ bracket /\ install = "gated" /\ next <= MaxSource
  /\ next' = next + 1
  /\ DrawSoftly(next, TRUE)
  /\ UNCHANGED <<device, warpTier, bound, install, saved, proc, updates, forks, probe, bracket,
                 live, pend, mode, batchKey, job, flush, refused, clipOff, fault>>

(* The texture must be in video memory.  An upload ships the pending batch *)
(* first: it may sample the texels about to be overwritten.                *)
TextureAbsent == At("texture") /\ Goto("soft")
                 /\ UNCHANGED <<Busy, live, pend, mode, batchKey, flush, canvas, clock, gone, dropped, fault>>
TextureResident == At("texture") /\ Goto("warp")
                 /\ UNCHANGED <<Busy, live, pend, mode, batchKey, flush, canvas, clock, gone, dropped, fault>>
TextureUploaded == At("texture") /\ Goto("warp") /\ StartFlush
                 /\ UNCHANGED <<Busy, live, batchKey, canvas, clock, gone, dropped, fault>>

SoftlyAtOnce ==                                \* mutant: the pending batch afterwards
  /\ At("soft")
  /\ DrawSoftly(job.id, TRUE)
  /\ probe' = IF Window THEN probe ELSE Revoked(probe)
  /\ Return
  /\ UNCHANGED <<client, bracket, batchKey, refused, clipOff, fault, flush, pend, mode>>
(* osmgaMesaSoftly from the draw path: the accelerated work first, so that *)
(* this triangle lands over it.  Without a window the probe is revoked.    *)
Softly ==
  /\ At("soft")
  /\ IF saved /\ pend # <<>>
     THEN StartFlush /\ UNCHANGED <<job, live, canvas, clock, gone, dropped, probe>>
     ELSE /\ DrawSoftly(job.id, live = job.shape.facing)
          /\ probe' = IF Window THEN probe ELSE Revoked(probe)
          /\ Return /\ UNCHANGED <<flush, pend, mode>>
  /\ UNCHANGED <<client, bracket, batchKey, refused, clipOff, fault>>

Batchable == ~job.shape.clipped \/ ~clipOff
Source(traps) == [id |-> job.id, key |-> job.shape.key, traps |-> traps, held |-> live, want |-> job.shape.facing,
                  replayable |-> ~job.shape.clipped \/ ~Batchable]
KeyClash(k) == k # NoKey /\ batchKey # NoKey /\ k # batchKey
KeyAfter(empty, k) == IF empty \/ batchKey = NoKey THEN k ELSE batchKey

(* osmgaMesaWarpTriangle, declining: not wanted, or WARP cannot take it; a *)
(* WARP batch already pending has to be drawn first.                       *)
WarpTakes == warpTier /\ job.shape.warp
WarpDeclines ==
  /\ At("warp") /\ ~WarpTakes
  /\ Goto("trap")
  /\ IF warpTier /\ mode = "warp" THEN StartFlush ELSE UNCHANGED <<flush, pend, mode>>
  /\ UNCHANGED <<Busy, live, batchKey, canvas, clock, gone, dropped, fault>>

(* Another shape, another texture or no room: ship what is there.          *)
WarpFull == mode = "warp" /\ Len(pend) >= BatchLimit
WarpFlushes ==
  /\ At("warp") /\ WarpTakes /\ pend # <<>>
  /\ mode # "warp" \/ KeyClash(job.shape.key) \/ WarpFull
  /\ StartFlush
  /\ UNCHANGED <<Busy, live, job, batchKey, canvas, clock, gone, dropped, fault>>

(* No window: the caller goes on to the trapezoids.                        *)
WarpAppends ==
  /\ At("warp") /\ WarpTakes
  /\ pend # <<>> => mode = "warp" /\ ~KeyClash(job.shape.key) /\ ~WarpFull
  /\ IF ~Window
     THEN Goto("trap") /\ UNCHANGED <<pend, mode, batchKey, live>>
     ELSE /\ batchKey' = KeyAfter(pend = <<>>, job.shape.key)
          /\ pend' = Append(pend, Source(1)) /\ mode' = "warp"
          /\ IF Batchable THEN Return ELSE Goto("clip") /\ UNCHANGED live
  /\ UNCHANGED <<Busy, flush, canvas, clock, gone, dropped, fault>>

(* The trapezoid builder: no mip levels there, nothing it cannot express,  *)
(* nothing without area.                                                   *)
Build ==
  /\ At("trap")
  /\ \/ (job.shape.mip \/ ~job.shape.fits) /\ Goto("soft") /\ UNCHANGED <<live, gone>>
     \/ /\ ~job.shape.mip /\ job.shape.fits /\ job.shape.traps = 0
        /\ gone' = gone \cup {[id |-> job.id, why |-> "no_area"]}
        /\ Return
     \/ ~job.shape.mip /\ job.shape.fits /\ job.shape.traps > 0 /\ Goto("join")
        /\ UNCHANGED <<live, gone>>
  /\ UNCHANGED <<Busy, pend, mode, batchKey, flush, canvas, clock, dropped, fault>>

(* May it join the pending batch?  The window is asked for again only when *)
(* something was pending.                                                  *)
Apart == \/ TrapCount(pend) + job.shape.traps > BatchLimit \/ Len(pend) >= BatchLimit
         \/ KeyClash(job.shape.key)
Join ==
  /\ At("join")
  /\ IF pend = <<>> THEN Goto("append") /\ UNCHANGED <<flush, pend, mode>>
     ELSE Goto("check") /\ IF Apart THEN StartFlush ELSE UNCHANGED <<flush, pend, mode>>
  /\ UNCHANGED <<Busy, live, batchKey, canvas, clock, gone, dropped, fault>>
JoinChecked ==
  /\ At("check")
  /\ Goto(IF Window THEN "append" ELSE "soft")
  /\ UNCHANGED <<Busy, live, pend, mode, batchKey, flush, canvas, clock, gone, dropped, fault>>

(* batch->tri[...] = built[...], through the pointer taken at entry.       *)
AppendTraps ==
  /\ At("append")
  /\ IF ~Window
     THEN fault' = TRUE /\ UNCHANGED <<pend, batchKey, job, live>>
     ELSE /\ batchKey' = KeyAfter(pend = <<>>, job.shape.key)
          /\ pend' = Append(pend, Source(job.shape.traps))
          /\ IF Batchable THEN Return ELSE Goto("clip") /\ UNCHANGED live
          /\ fault' = fault
  /\ UNCHANGED <<Busy, mode, flush, canvas, clock, gone, dropped>>

(* A source that may not wait goes at once, while its vertices are good.   *)
ClipFlush ==
  /\ At("clip")
  /\ IF pend = <<>> THEN Return /\ UNCHANGED <<flush, pend, mode>>
     ELSE StartFlush /\ UNCHANGED <<job, live>>
  /\ UNCHANGED <<Busy, batchKey, canvas, clock, gone, dropped, fault>>

(* Driver.RenderFinish ships what is left before it mirrors.               *)
RenderFinish ==
  /\ Idle /\ bracket
  /\ bracket' = FALSE
  /\ StartFlush
  /\ UNCHANGED <<client, probe, live, batchKey, job, refused, clipOff, canvas, clock, gone, dropped, fault>>

TriangleStep ==
  \/ TextureAbsent \/ TextureResident \/ TextureUploaded \/ Softly
  \/ WarpDeclines \/ WarpFlushes \/ WarpAppends
  \/ Build \/ Join \/ JoinChecked \/ AppendTraps \/ ClipFlush

Draw == \E s \in Shapes : Triangle(s) \/ GatedTriangle(s)
Update == \E gate, fits, mapped, soft \in BOOLEAN : UpdateState(gate, fits, mapped, soft)

Next == Update \/ Fork \/ RenderStart \/ Draw \/ FlushStep \/ TriangleStep \/ RenderFinish

(* Mesa closes every bracket it opens, and the code of a call runs on.     *)
Fairness == WF_vars(FlushStep) /\ WF_vars(TriangleStep) /\ WF_vars(RenderFinish)
Spec == Init /\ [][Next]_vars /\ Fairness

-----------------------------------------------------------------------------
(* Type correctness: the pending batch, the flush and the triangle stay of *)
(* their kinds, and a batch never holds more sources than the limit.       *)
Key == {NoKey} \cup {s.key : s \in Shapes}
SourceSet == [id : 1..MaxSource, key : Key, traps : 0..2, held : {0, 1}, want : {0, 1},
              replayable : BOOLEAN]
Flushes == [stage : {"warp", "ask", "submit", "prefix", "named"}, rest : Seq(SourceSet),
            prefix : Seq(SourceSet), local : BOOLEAN, geometry : BOOLEAN,
            rounds : 0..NarrowLimit, was : {0, 1}]
Jobs == [stage : {"texture", "warp", "trap", "join", "check", "append", "clip", "soft"},
         id : 1..MaxSource, shape : Shapes]
Kinds ==
  /\ probe \in [done : BOOLEAN, pid : 0..(MaxForks + 1), verdict : Answers \cup {"none"},
                fd : BOOLEAN, win : BOOLEAN, revoked : BOOLEAN]
  /\ device \in Answers /\ install \in {"none", "gated", "hard"}
  /\ {warpTier, bound, saved, bracket, clipOff, fault} \subseteq BOOLEAN
  /\ mode \in {"none", "warp"} /\ batchKey \in Key /\ live \in {0, 1}
  /\ pend \in Seq(SourceSet) /\ Len(pend) <= BatchLimit
  /\ flush \in Flushes \cup {NoFlush} /\ job \in Jobs \cup {NoJob}
  /\ refused \in Nat /\ clock \in Nat /\ next \in 1..(MaxSource + 1)
  /\ updates \in 0..MaxUpdates /\ forks \in 0..MaxForks /\ proc = forks + 1
TypeOK == Kinds /\ dropped \in Nat

PaintedIds == {c.id : c \in canvas}
GoneIds == {g.id : g \in gone}
Because(whys) == {g \in gone : g.why \in whys}
Counts == {"clipped", "surface_released", "warp_failed"}    \* what hookDropped counts
Silent == {"half_drawn", "abandoned"}                       \* a failed trapezoid batch

(* The picture is painted in the order the client drew, whether a source   *)
(* went to the engine, was narrowed out, replayed or drawn by Mesa, and no *)
(* source is painted twice.                                                *)
OrderKept == \A c, d \in canvas : c # d => c.id # d.id /\ (c.at < d.at <=> c.id < d.id)

(* Whatever is painted is painted with its own texture and with the depth  *)
(* offset and colours Mesa had installed for it, however many others were  *)
(* replayed in between.                                                    *)
OwnState == \A c \in canvas : c.own

(* What the hook gives up is never drawn after all: neither what            *)
(* hookDropped counts, each source once, nor a failed trapezoid batch,      *)
(* which it does not count.  Of those there is one at most, in all the life *)
(* of the process, and it costs the acceleration.                           *)
GivenUpOnce ==
  /\ dropped = Cardinality(Because(Counts))
  /\ \A g \in Because(Counts \cup Silent) : g.id \notin PaintedIds
  /\ Cardinality(Because(Silent)) <= BatchLimit
  /\ Because(Silent) # {} => probe.revoked

(* Between brackets nothing is outstanding: every triangle Mesa handed to   *)
(* the hook is painted, or given up, or had no area or no Mesa rasteriser.  *)
NothingOutstanding ==
  Idle /\ ~bracket => pend = <<>> /\ 1..(next - 1) \subseteq PaintedIds \cup GoneIds

(* Both together: what the picture loses is counted, but for one batch.     *)
LostButOneBatchCounted == GivenUpOnce /\ NothingOutstanding

(* "did the picture lose anything?" (Hook.c:971): while hookDropped has not *)
(* moved, every triangle with an area, and with a Mesa rasteriser to go to, *)
(* has been painted when the bracket closes.                                *)
NothingLostUncounted ==
  Idle /\ ~bracket /\ dropped = 0 =>
    1..(next - 1) \subseteq PaintedIds \cup {g.id : g \in Because({"no_area", "no_rasteriser"})}

(* Once revoked, the device is never used again, by no path and no child.  *)
RevokedStaysSoftware ==
  [][probe.revoked =>
       /\ probe'.revoked
       /\ \A c \in canvas' \ canvas : c.by = "software"]_vars

(* Every triangle call returns and every flush ends, whatever the kernel   *)
(* answers: the narrowing of refused batches makes progress.               *)
EveryCallReturns == (job # NoJob \/ flush # NoFlush) ~> (Idle \/ fault)

(* The trapezoids are never written through a window that is not mapped.   *)
(* "It is RE-ACQUIRED, because that flush can revoke" (Hook.c:3155).        *)
NoStaleWrite == ~fault
=============================================================================
