---------------------------- MODULE ModeProfile ----------------------------
(* The planners of profile/ as operators: what is asked of the reviewed     *)
(* records of one display mode, and the ranges, the geometry, the CRTC      *)
(* bytes and the PLL setting made of them.  Nothing here keeps state; the   *)
(* transaction of ModeTransaction calls them in its order.                  *)
(*                                                                          *)
(* A record of the code is a record with shorter names; a mask of evidence  *)
(* is the set of what it says was verified; lengths are bytes and physical  *)
(* addresses a page and an offset in it.                                    *)
EXTENDS Naturals, FiniteSets

CONSTANT WordMax        \* the largest unsigned long

ASSUME WordAssumption == WordMax \in Nat \ {0}

Page == 4096
-----------------------------------------------------------------------------
(* The physical profile: who says so, and the numbers they say.             *)
ProfileEvidence == {"board", "crosscheck", "vram_type", "vram_size", "ramdac"}

ValidProfile(p) ==
  /\ ProfileEvidence \subseteq p.evidence
  /\ \A r \in {"board", "crosscheck", "vram", "ramdac"} : p.reference[r] # ""
  /\ p.vramType \in {"SDR", "DDR"}
  /\ p.vram # 0
  /\ p.ramdac # 0

(* One axis of a timing: what is shown, a front porch, a pulse, a back porch. *)
SyncStart(active, b) == active + b.front
SyncEnd(active, b) == SyncStart(active, b) + b.sync
AxisTotal(active, b) == SyncEnd(active, b) + b.back

(* A timing is sound if its totals fit in words and its clock makes exactly *)
(* the refresh rate asked for.                                              *)
ExactRefresh(t, h, v) ==
  LET hz == (t.clock * 1000) \div (h * v) IN
  /\ (t.clock * 1000) % (h * v) = 0
  /\ hz <= WordMax \div 1000
  /\ hz * 1000 = t.mode.refresh

ValidTiming(t) ==
  LET h == AxisTotal(t.mode.width, t.h)
      v == AxisTotal(t.mode.height, t.v) IN
  /\ 0 \notin {t.mode.width, t.mode.height, t.mode.refresh, t.clock}
  /\ 0 \notin {t.h.sync, t.v.sync}
  /\ {t.hPositive, t.vPositive} \subseteq {0, 1}
  /\ h <= WordMax /\ v <= WordMax /\ h <= WordMax \div v
  /\ t.clock <= WordMax \div 1000
  /\ ExactRefresh(t, h, v)

(* The numbers of a review are unsigned.                                    *)
IsReview(m) ==
  /\ m.mode \in [width : Nat, height : Nat, refresh : Nat]
  /\ {m.timing.h, m.timing.v} \subseteq [front : Nat, sync : Nat, back : Nat]
  /\ m.clock \in Nat /\ m.pitch \in Nat /\ m.alignment \in Nat

(* A mode in linear memory: a pitch that holds a row, and room for all rows. *)
ModeFits(mode, bpp, pitch, available) ==
  /\ 0 \notin {mode.width, mode.height, pitch, available}
  /\ bpp \in {8, 16, 24, 32}
  /\ mode.width <= WordMax \div (bpp \div 8)
  /\ pitch >= mode.width * (bpp \div 8)
  /\ mode.height <= WordMax \div pitch
  /\ pitch * mode.height <= available

Scanout(m) == m.pitch * m.mode.height       \* the bytes a valid review needs

ModeEvidence == {"mode_source", "timing_source", "pitch_policy", "mapping_bound"}

ValidModeReview(m) ==
  /\ ValidProfile(m.profile)
  /\ m.configured = m.profile.vram
  /\ ModeEvidence \subseteq m.evidence
  /\ 0 \notin {m.mode.width, m.mode.height, m.mode.refresh, m.clock}
  /\ ValidTiming(m.timing)
  /\ m.timing.mode = m.mode /\ m.timing.clock = m.clock
  /\ m.clock <= m.profile.ramdac
  /\ m.alignment # 0
  /\ m.pitch % m.alignment = 0
  /\ ModeFits(m.mode, m.bpp, m.pitch, m.profile.vram)
  /\ m.mapping >= Scanout(m)
  /\ m.mapping <= m.profile.vram

(* The review of a mapping, and the matrix of the three ways to start.      *)
MappingEvidence == {"sole_owner", "recovery_path", "range_list", "cache_policy"}

ValidMapping(r) ==
  /\ ValidModeReview(r.mode)
  /\ MappingEvidence \subseteq r.verified
  /\ r.ranges # 0 /\ r.index < r.ranges
  /\ r.bytes >= Scanout(r.mode)
  /\ r.cache \in {"uncached", "write_through", "copy_back"}

SnapshotEvidence == {"bundle", "instance_table", "rollback_instructions"}
MatrixEvidence ==
  {"atomic_install", "installer_rollback", "failure_original_boot", "recovery_channel"}

(* Each start selects one driver: the original one, except in recovery.     *)
ValidMatrix(x) ==
  /\ x.original.originals = 1 /\ x.original.replacements = 0
  /\ x.recovery.originals = 0 /\ x.recovery.replacements = 1
  /\ x.failure.originals = 1 /\ x.failure.replacements = 0
  /\ \A s \in {"original", "recovery", "failure"} : SnapshotEvidence \subseteq x[s].evidence
  /\ MatrixEvidence \subseteq x.verified
-----------------------------------------------------------------------------
(* The three ranges to publish: framebuffer, VGA memory and VGA BIOS.       *)
DeploymentBytes == 16 * 1024 * 1024

CanPublish(r, base) ==
  /\ ValidMapping(r)
  /\ base # [page |-> 0, offset |-> 0] /\ base.offset = 0
  /\ r.bytes = DeploymentBytes /\ r.mode.mapping = DeploymentBytes
  /\ r.ranges = 3 /\ r.index = 0

RangePlan(base) ==
  << [page |-> base.page, pages |-> DeploymentBytes \div Page],
     [page |-> 160, pages |-> 32], [page |-> 192, pages |-> 16] >>

(* The geometry of a mode of 32 bits a pixel.                               *)
CanPlanCRTC(m) == ValidModeReview(m) /\ m.bpp = 32

CRTCPlan(m) ==
  [clock |-> m.clock,
   hDisplay |-> m.mode.width, hStart |-> SyncStart(m.mode.width, m.timing.h),
   hEnd |-> SyncEnd(m.mode.width, m.timing.h), hTotal |-> AxisTotal(m.mode.width, m.timing.h),
   vDisplay |-> m.mode.height, vStart |-> SyncStart(m.mode.height, m.timing.v),
   vEnd |-> SyncEnd(m.mode.height, m.timing.v), vTotal |-> AxisTotal(m.mode.height, m.timing.v),
   pitch |-> m.pitch, scanout |-> Scanout(m),
   hPositive |-> m.timing.hPositive, vPositive |-> m.timing.vPositive]
-----------------------------------------------------------------------------
(* The bytes of the primary CRTC.  Its counters count characters of eight   *)
(* pixels, and lines, from nought; what does not fit in a byte is spread    *)
(* over the overflow and the extended registers.                            *)
Field(v, low, width) == (v \div 2^low) % 2^width

(* A total of 4 or 6 modulo eight is rounded up.                            *)
Rounded(ht) == IF ht % 8 \in {4, 6} THEN ht + 1 ELSE ht

Counters(m) ==
  LET p == CRTCPlan(m) IN
  [hd |-> p.hDisplay \div 8 - 1, hs |-> p.hStart \div 8 - 1, he |-> p.hEnd \div 8 - 1,
   ht |-> Rounded(p.hTotal \div 8 - 1),
   vd |-> p.vDisplay - 1, vs |-> p.vStart - 1, ve |-> p.vEnd - 1, vt |-> p.vTotal - 2,
   wd |-> p.hDisplay \div 4]

CountersFit(c) ==
  /\ \A x \in {c.hd, c.hs, c.he, c.ht} : x <= 511
  /\ c.ht >= 4
  /\ c.wd <= 1023
  /\ \A y \in {c.vd, c.vs, c.ve, c.vt} : y <= 4095

CanImage(m) ==
  /\ CanPlanCRTC(m)
  /\ LET p == CRTCPlan(m) IN
     /\ \A x \in {p.hDisplay, p.hStart, p.hEnd, p.hTotal} : x % 8 = 0
     /\ p.vTotal >= 2
     /\ p.pitch % 16 = 0
  /\ CountersFit(Counters(m))

CRTCImage(m) ==
  LET c == Counters(m)
      vdBit(n) == Field(c.vd, n, 1)  IN
  [extended |->
     [i \in 0..5 |->
        CASE i = 0 -> Field(c.wd, 8, 2) * 16
          [] i = 1 -> Field(c.ht - 4, 8, 1) + Field(c.hd, 8, 1) * 2 + Field(c.hs, 8, 1) * 4
                      + Field(c.ht, 6, 1) * 64
          [] i = 2 -> Field(c.vt, 10, 2) + vdBit(10) * 4 + Field(c.vd, 10, 2) * 8
                      + Field(c.vs, 10, 2) * 32 + vdBit(10) * 128
          [] i = 3 -> 131
          [] OTHER -> 0],
   crtc |->
     [i \in 0..24 |->
        CASE i = 0 -> (c.ht - 4) % 256
          [] i \in {1, 2} -> c.hd % 256
          [] i = 3 -> Field(c.ht, 0, 5) + 128
          [] i = 4 -> c.hs % 256
          [] i = 5 -> Field(c.ht, 5, 1) * 128 + Field(c.he, 0, 5)
          [] i = 6 -> c.vt % 256
          [] i = 7 -> Field(c.vt, 8, 1) + Field(c.vs, 8, 1) * 4 + vdBit(8) * (2 + 8 + 16)
                      + Field(c.vt, 9, 1) * 32 + vdBit(9) * 64 + Field(c.vs, 9, 1) * 128
          [] i = 9 -> vdBit(9) * (32 + 64)
          [] i = 16 -> c.vs % 256
          [] i = 17 -> Field(c.ve, 0, 4) + 32
          [] i \in {18, 21, 24} -> c.vd % 256
          [] i = 19 -> c.wd % 256
          [] i = 22 -> (c.vt + 1) % 256
          [] OTHER -> 0],
   misc |-> 12]

(* A snapshot must hold every byte, and of the misc register the clock bits. *)
ReadsBack(image, seen) ==
  /\ seen.crtc = image.crtc
  /\ seen.extended = image.extended
  /\ Field(seen.misc, 2, 2) = 3
-----------------------------------------------------------------------------
(* The pixel PLL: feedback over reference times twice 27 MHz is the VCO,    *)
(* and a post divider makes the pixel clock of it.                          *)
Reference == 27000
VcoMin == 256000
VcoMax == 1300000
PostDividers == {2, 4, 8, 16}

(* A word holds every clock of the window: an unsigned long has 32 bits.    *)
ASSUME VcoAssumption == VcoMax <= WordMax

Distance(a, b) == IF a >= b THEN a - b ELSE b - a

Vco(feedback, reference) == (Reference * 2 * feedback) \div reference

(* For each post divider that puts the clock asked for inside the VCO's     *)
(* window and each reference divider, the nearest feedback divider.         *)
FeedbackCut(requested, post, reference) ==      \* mutant: cut off, not rounded
  (requested * post * reference) \div (Reference * 2)
Feedback(requested, post, reference) ==
  (requested * post * reference + Reference) \div (Reference * 2)

Dividers(requested) ==
  {d \in PostDividers \X (1..10) :
     /\ requested <= WordMax \div d[1]
     /\ requested * d[1] \in VcoMin..VcoMax
     /\ Feedback(requested, d[1], d[2]) \in 2..257}

Candidate(requested, post, reference) ==
  LET f == Feedback(requested, post, reference) IN
  [requested |-> requested, achieved |-> Vco(f, reference) \div post, vco |-> Vco(f, reference),
   feedback |-> f, reference |-> reference, post |-> post]

ErrorOf(c) == Distance(c.achieved, c.requested)

(* The loops go by post divider, then reference; a later candidate takes    *)
(* the place of an earlier one if it is nearer, or as near with a smaller   *)
(* reference divider.  The error in parts per million is only reported.     *)
Preferred(a, b) ==
  \/ ErrorOf(a) < ErrorOf(b)
  \/ ErrorOf(a) = ErrorOf(b) /\ a.reference < b.reference
  \/ ErrorOf(a) = ErrorOf(b) /\ a.reference = b.reference /\ a.post <= b.post

CanPlanPLL(r) ==
  /\ ValidModeReview(r.mode)
  /\ r.sourceVerified /\ r.headVerified
  /\ r.head \in {"PRIMARY", "SECONDARY"}
  /\ Dividers(r.mode.clock) # {}

PLLPlan(r) ==
  LET made == {Candidate(r.mode.clock, d[1], d[2]) : d \in Dividers(r.mode.clock)}
  IN CHOOSE c \in made : \A other \in made : Preferred(c, other)

(* The planner puts the clock asked for in the window, the encoder wants    *)
(* the VCO it settled for there.                                            *)
CanEncode(r, plan) ==
  /\ plan.requested # 0 /\ plan.achieved # 0
  /\ plan.vco \in VcoMin..VcoMax
  /\ plan.feedback \in 2..257 /\ plan.reference \in 1..256
  /\ r.head \in {"PRIMARY", "SECONDARY"}
  /\ plan.post \in PostDividers \cup {1}

PostBits(post) ==
  CASE post = 1 -> 64 [] post = 2 -> 0 [] post = 4 -> 1 [] post = 8 -> 2 [] post = 16 -> 3

StabilityBits(vco) == 8 * Cardinality({b \in {550, 700, 900, 1100, 1300} : vco >= b * 1000})

PLLBytes(r, plan) ==
  [target |-> IF r.head = "PRIMARY" THEN "PIXEL_C" ELSE "VIDEO",
   m |-> plan.reference - 1, n |-> plan.feedback - 2,
   p |-> PostBits(plan.post) + StabilityBits(plan.vco)]
-----------------------------------------------------------------------------
(* The render budget: a scanout, what is reserved, colour buffers of equal  *)
(* shape and at most one depth buffer, within the memory there is.          *)
SurfaceFormats == {8, 16, 24, 32}
AlignedPitch(width, bits, alignment) ==
  ((width * (bits \div 8) + alignment - 1) \div alignment) * alignment
SurfaceBytes(q, bits) == AlignedPitch(q.width, bits, q.alignment) * q.height
DepthBytes(q) == IF q.depthBits = 0 THEN 0 ELSE SurfaceBytes(q, q.depthBits)
BudgetUsed(q) ==
  q.scanout + q.reserved + SurfaceBytes(q, q.colorBits) * q.buffers + DepthBytes(q)

(* No sum or product may leave a word: but for the rounding up of a pitch,  *)
(* none of them is above the total.                                         *)
ValidBudget(q) ==
  /\ 0 \notin {q.available, q.scanout, q.width, q.height, q.buffers}
  /\ q.colorBits \in SurfaceFormats /\ q.depthBits \in SurfaceFormats \cup {0}
  /\ q.alignment # 0
  /\ \A bits \in {q.colorBits, q.depthBits} : q.width * (bits \div 8) + q.alignment - 1 <= WordMax
  /\ BudgetUsed(q) <= WordMax
  /\ BudgetUsed(q) <= q.available

(* The numbers of a budget are unsigned.                                    *)
IsBudget(q) ==
  q \in [available : Nat, scanout : Nat, reserved : Nat, width : Nat, height : Nat,
         colorBits : Nat, depthBits : Nat, buffers : Nat, alignment : Nat]

(* What the Mesa back end is told: the one target there is, in a budget     *)
(* that takes its numbers from the review, and what the caller attests.     *)
FixedTarget == [width |-> 1024, height |-> 768, colorBits |-> 32, depthBits |-> 16]
IsFixedTarget(q) ==
  [width |-> q.width, height |-> q.height, colorBits |-> q.colorBits,
   depthBits |-> q.depthBits] = FixedTarget

CanRequestBackend(r, q) ==
  /\ ValidMapping(r)
  /\ IsFixedTarget(q) /\ q.buffers = 2
  /\ q.available = r.mode.profile.vram
  /\ q.scanout = Scanout(r.mode)
  /\ q.alignment = r.mode.alignment
  /\ ValidBudget(q)

BackendRequest(r, attested) ==
  [target |-> FixedTarget,
   verified |-> (r.verified \cap {"sole_owner", "recovery_path"})
                \cup {"profile", "mode_record", "mapping_review", "render_budget"}
                \cup (attested \cap {"presentation", "fence", "fallback"})]

CandidateEvidence ==
  {"sole_owner", "profile", "mode_record", "recovery_path", "mapping_review", "render_budget",
   "fence"}

SelectBackend(b) ==
  IF b.target # FixedTarget \/ "presentation" \notin b.verified THEN "REJECTED"
  ELSE IF CandidateEvidence \subseteq b.verified THEN "HARDWARE_CANDIDATE"
  ELSE IF "fallback" \notin b.verified THEN "REJECTED"
  ELSE "SOFTWARE_FALLBACK"
=============================================================================
