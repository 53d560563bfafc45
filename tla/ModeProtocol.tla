---------------------------- MODULE ModeProtocol ----------------------------
(* The prototypes of protocol/ and profile/ put together as their callers   *)
(* would: a machine's reviews go through a mode transaction, a ledger hands *)
(* out offscreen surfaces beside it, 2D requests need both, and a Mesa back *)
(* end is chosen on the same reviews.                                       *)
EXTENDS ModeTransaction, OffscreenLedger

CONSTANTS
  Rectangles,     \* rectangles drawn
  Corners         \* corners of triangles

ASSUME ProtocolAssumption ==
  /\ Rectangles \subseteq [x : Nat, y : Nat, w : Nat, h : Nat]
  /\ Corners \subseteq Int \X Int
  /\ \A m \in Machines : \A arena \in m.arenas : arena.bytes \in Nat

vars == <<machine, tx, history, ledger, held, issued, returned, starts, inits>>

Init == TxInit /\ LedgerInit

Next ==
  \/ TxNext /\ UNCHANGED ledgerVars
  \/ (\E arena \in machine.arenas : Initialize(arena)) /\ UNCHANGED txVars
  \/ LedgerNext /\ UNCHANGED txVars

Spec == Init /\ [][Next]_vars
-----------------------------------------------------------------------------
(* The samples end with enough ready ones in a row, and none came late.     *)
StableLock(samples, required) ==
  /\ Len(samples) >= required
  /\ \A i \in Len(samples) - required + 1 .. Len(samples) : samples[i].ready
  /\ \A i \in DOMAIN samples : ~samples[i].late

(* A state says what was shown to the transaction since it was begun (or,   *)
(* of a roll-back, since it was owed): past the lock, that the PLL was      *)
(* ready as often in a row as asked, in time; past the readback, that the   *)
(* registers held the bytes of the mode that was approved, unless a Begin   *)
(* that failed has replaced them meanwhile; in the linear mode, that it was *)
(* entered; rolled back, that all four stages were restored after the last  *)
(* failure (OpenStepMGAModeTransaction.c:152-294).                          *)
StatesAreEarned ==
  /\ tx.state \in {"PLL_LOCKED", "PRIMARY_CRTC_VERIFIED", "LINEAR_ACTIVE"} =>
       StableLock(history.samples, machine.in.policy.required)
  /\ tx.state \in {"PRIMARY_CRTC_VERIFIED", "LINEAR_ACTIVE"} =>
       history.readBack \/ ~history.intact
  /\ tx.state = "LINEAR_ACTIVE" => history.entered
  /\ tx.state = "ROLLED_BACK" => history.restored = RollbackStages
-----------------------------------------------------------------------------
(* What the card makes of the CRTC's bytes.                                 *)
Shown(image) ==
  LET r(i) == image.crtc[i]
      e(i) == image.extended[i]
      hs   == r(4) + 256 * Field(e(1), 2, 1)
      vs   == r(16) + 256 * Field(r(7), 2, 1) + 512 * Field(r(7), 7, 1) + 1024 * Field(e(2), 5, 2)
  IN [hDisplay |-> 8 * (r(1) + 256 * Field(e(1), 1, 1) + 1),
      hStart   |-> 8 * (hs + 1),
      hSync    |-> 8 * ((Field(r(5), 0, 5) - hs) % 32),
      hTotal   |-> 8 * (r(0) + 256 * Field(e(1), 0, 1) + 5),
      vDisplay |-> r(18) + 256 * Field(r(7), 1, 1) + 512 * Field(r(7), 6, 1)
                   + 1024 * Field(e(2), 2, 1) + 1,
      vStart   |-> vs + 1,
      vSync    |-> (Field(r(17), 0, 4) - vs) % 16,
      vTotal   |-> r(6) + 256 * Field(r(7), 0, 1) + 512 * Field(r(7), 5, 1)
                   + 1024 * Field(e(2), 0, 2) + 2,
      row      |-> 16 * (r(19) + 256 * Field(e(0), 4, 2))]

(* The display end has eleven bits and the ends of the pulses five and      *)
(* four: beyond those the image does not say what was asked (see README).   *)
ShowsTheMode(image, m) ==
  LET s == Shown(image)  t == m.timing IN
  /\ s.hDisplay = m.mode.width /\ s.hStart = m.mode.width + t.h.front
  /\ t.h.sync < 256 => s.hSync = t.h.sync
  /\ s.hTotal - AxisTotal(m.mode.width, t.h) \in {0, 8}
  /\ m.mode.height <= 2048 => s.vDisplay = m.mode.height
  /\ s.vStart = m.mode.height + t.v.front
  /\ t.v.sync < 16 => s.vSync = t.v.sync
  /\ s.vTotal = AxisTotal(m.mode.height, t.v)
  /\ s.row = 4 * m.mode.width

(* No setting of the three dividers whose VCO is in its window comes nearer. *)
NearestSetting(plan) ==
  \A post \in PostDividers, reference \in 1..10 :
    \A feedback \in (VcoMin * reference) \div (2 * Reference) .. (VcoMax * reference) \div (2 * Reference) :
      (feedback \in 2..257 /\ Vco(feedback, reference) \in VcoMin..VcoMax) =>
        ErrorOf(plan) <= Distance(Vco(feedback, reference) \div post, plan.requested)

PLLMakes(b) == Vco(b.n + 2, b.m + 1) \div 2^((b.p % 8) + 1)

(* What Begin leaves, stage by stage, is the mode reviewed: the framebuffer *)
(* range holds its scanout, the CRTC bytes read back as its geometry, the   *)
(* PLL setting is the nearest there is and its bytes say it, with a VCO in  *)
(* the window (profile/OpenStepMGAG450*.c).                                 *)
PlansShow ==
  LET in == Alter(machine.in, history.last) IN
  tx.state \in {"IDLE", "PREFLIGHT_READY"} =>
    /\ history.reach >= 4 => tx.range[1].pages * Page >= Scanout(in.mapping.mode)
    /\ history.reach >= 6 => ShowsTheMode(tx.image, in.mapping.mode)
    /\ history.reach >= 7 => /\ tx.pll.requested = in.mapping.mode.clock
                             /\ NearestSetting(tx.pll)
    /\ history.reach >= 8 => /\ PLLMakes(tx.bytes) = tx.pll.achieved
                             /\ tx.pll.vco \in VcoMin..VcoMax

(* Whoever is called a hardware candidate has a sound mode with a recovery  *)
(* path and a verified owner, and its scanout, both colour buffers, the     *)
(* depth buffer and what is reserved fit in the board's memory              *)
(* (OpenStepMGAMesaAdmission.c, OpenStepMGARenderBudget.c).                 *)
CandidateFits ==
  history.begins = 0 =>
    \A q \in machine.budgets, attested \in SUBSET {"presentation", "fence", "fallback"} :
      LET r == machine.in.mapping IN
      (CanRequestBackend(r, q) /\ SelectBackend(BackendRequest(r, attested)) = "HARDWARE_CANDIDATE")
        => /\ {"sole_owner", "recovery_path"} \subseteq r.verified
           /\ {"presentation", "fence"} \subseteq attested
           /\ r.mode.pitch * r.mode.mode.height + q.reserved + 1024 * 768 * (2 * 4 + 2)
                <= r.mode.profile.vram

PlansShowTheMode == PlansShow /\ CandidateFits
-----------------------------------------------------------------------------
(* Records a client may present: any it was ever given, as it is or changed. *)
Presented ==
  LET ids == {s.id : s \in held} \cup {0, ledger.next} IN
  held \cup {[s EXCEPT !.kernel = FALSE] : s \in held}
       \cup {[s EXCEPT !.outside = FALSE] : s \in held}
       \cup {[s EXCEPT !.geometry.height = @ + 1] : s \in held}
       \cup {[s EXCEPT !.geometry.bytes = 2 * @] : s \in held}
       \cup {[s EXCEPT !.id = id] : s \in held, id \in ids}

Owned(s) == s \in issued /\ s.id \notin returned

(* The last byte of a rectangle, counted from the start of its surface.     *)
LastByte(s, x, y, w, h) == ((y + h - 1) * s.geometry.stride + x + w) * 4
AllottedBytes(s) == s.geometry.bytes

(* The bytes of the arena a surface given out takes: to the next boundary.  *)
EndOf(s) == starts[s.id] + Aligned(s.geometry.bytes, ledger.alignment)

(* A request that is admitted draws in the linear mode, on surfaces the     *)
(* ledger gave out and did not take back, unchanged, and inside the bytes   *)
(* they were allotted; no identifier is given out twice, and the bytes of   *)
(* everything ever given out lie in the arena and apart from each other,    *)
(* since released memory may still be drawn in (OpenStepMGAOffscreen2D.c,   *)
(* OpenStepMGAOffscreenAllocator.c).                                        *)
AdmittedIsLive ==
  /\ \A s \in Presented, r \in Rectangles :
       ClearAdmitted(tx.state, ledger, s, r) =>
         /\ tx.state = "LINEAR_ACTIVE" /\ Owned(s)
         /\ LastByte(s, r.x, r.y, r.w, r.h) <= AllottedBytes(s)
  /\ LET drawable == {s \in Presented : SurfaceAdmitted(tx.state, ledger, s)} IN
     \A from \in drawable, to \in drawable, r \in Rectangles :
       CopyAdmitted(tx.state, ledger, from, r, to, r.y, r.x) =>
         /\ tx.state = "LINEAR_ACTIVE" /\ Owned(from) /\ Owned(to) /\ from # to
         /\ LastByte(from, r.x, r.y, r.w, r.h) <= AllottedBytes(from)
         /\ LastByte(to, r.y, r.x, r.w, r.h) <= AllottedBytes(to)
  /\ \A s \in held, a, b, c \in Corners :
       ValidTriangle(s.geometry, a, b, c) =>
         \A p \in {a, b, c} : LastByte(s, p[1], p[2], 1, 1) \in 4..AllottedBytes(s)
  /\ \A s, other \in issued : s.id = other.id => s = other
  /\ \A s \in issued : EndOf(s) <= ledger.arena
  /\ \A s, other \in issued :
       s # other => EndOf(s) <= starts[other.id] \/ EndOf(other) <= starts[s.id]
=============================================================================
