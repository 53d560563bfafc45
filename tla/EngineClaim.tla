------------------------------ MODULE EngineClaim ------------------------------
(* How the kernel driver shares one drawing engine.                          *)
(*                                                                           *)
(* Requests reach -[OpenStepMGAReplacementDisplay ...] from several threads: *)
(* batches ("v9", "v10") and presents through the ioctl of the character     *)
(* device, blits and fills through setIntValues:, the WARP qualification     *)
(* harness, and mode changes.  Each takes stormLock only long enough to read *)
(* or set stormBusy, and works on the engine outside the lock while the flag *)
(* says the engine is its own.  stormBlitFailed is the latch that a timeout  *)
(* leaves behind.  Steps are split where another thread can run: between the *)
(* checks made on entry, the claim, the work done under it and the release.  *)
EXTENDS Naturals

CONSTANTS
    Threads,        \* threads that may be inside a request
    Kinds,          \* the kinds of request they make
    ClaimSpins,     \* OSMGA_MODE_CLAIM_SPINS, the tries a mode change makes
    MaxEpoch,       \* bound on the number of mode changes
    MaxInject       \* bound on injected timeouts (the parameter allows 4)

AllKinds == {"v9", "v10", "present", "blit", "fill", "harness"}

ASSUME BoundsAssumption == ClaimSpins \in Nat /\ MaxEpoch \in Nat /\ MaxInject \in Nat
ASSUME KindsAssumption == Kinds \subseteq AllKinds

VARIABLES
    stormBusy,            \* the claim
    stormBlitFailed,      \* the latch
    osmgaModeEpoch,       \* bumped when a mode change ends
    linearModeActive,     \* the driver's belief that the linear mode is up
    osmgaInjectTimeouts,  \* timeouts still to pretend
    osmgaHW3DLast,        \* the verdict word every submission shares
    pc, kind, epoch, inject, rc,   \* each request: where it is, what it sampled
    retained,             \* the harness left the engine claimed for good
    modePc, modeOp, modeSpins, modeClaimed,   \* the mode-changing thread
    hwMode,               \* what the CRTC and DAC registers hold
    engine,               \* "idle", or the kind of work still running
    softrap,              \* STATUS.softrapen: a list ended and nobody acknowledged
    rearmed,              \* history: the latch was cleared over a running engine
    disturbed             \* history: a mode was programmed under this claim

driver  == <<stormBusy, stormBlitFailed, osmgaModeEpoch, linearModeActive,
             osmgaInjectTimeouts, osmgaHW3DLast, retained>>
request == <<pc, kind, epoch, inject, rc>>
mode    == <<modePc, modeOp, modeSpins, modeClaimed, hwMode>>
card    == <<engine, softrap, rearmed>>
engineVars == <<driver, request, mode, card, disturbed>>

SubmitKinds == {"v9", "v10"}
Codes       == {"none", "SUCCESS", "RESOURCE", "BUSY", "INVALID_ARG",
                "UNSUPPORTED", "IO"}
Verdicts    == {"NOT_RUN", "OK", "BAD"}
Holding     == {"held", "prep", "ring", "poll", "recover", "settle", "release"}

Numbers ==
    /\ osmgaModeEpoch \in 0 .. MaxEpoch
    /\ osmgaInjectTimeouts \in 0 .. MaxInject
    /\ epoch \in [Threads -> 0 .. MaxEpoch]
    /\ modeSpins \in 0 .. ClaimSpins

EngineTypeOK ==
    /\ Numbers
    /\ stormBusy \in BOOLEAN /\ stormBlitFailed \in BOOLEAN
    /\ linearModeActive \in BOOLEAN /\ retained \in BOOLEAN
    /\ osmgaHW3DLast \in Verdicts
    /\ pc \in [Threads -> {"idle", "claim", "reply"} \cup Holding]
    /\ kind \in [Threads -> AllKinds]
    /\ inject \in [Threads -> BOOLEAN]
    /\ rc \in [Threads -> Codes]
    /\ modePc \in {"idle", "claim", "program", "changing", "release"}
    /\ modeOp \in {"enter", "revert"}
    /\ modeClaimed \in BOOLEAN
    /\ hwMode \in {"vga", "linear", "changing", "other"}
    /\ engine \in AllKinds \cup {"idle"}
    /\ softrap \in BOOLEAN
    /\ rearmed \in BOOLEAN
    /\ disturbed \in [Threads -> BOOLEAN]

EngineInit ==
    /\ stormBusy = FALSE /\ stormBlitFailed = FALSE /\ retained = FALSE
    /\ osmgaModeEpoch = 0
    /\ linearModeActive = FALSE
    /\ osmgaInjectTimeouts = 0
    /\ osmgaHW3DLast = "NOT_RUN"
    /\ pc = [c \in Threads |-> "idle"]
    /\ kind = [c \in Threads |-> "v9"]
    /\ epoch = [c \in Threads |-> 0]
    /\ inject = [c \in Threads |-> FALSE]
    /\ rc = [c \in Threads |-> "none"]
    /\ modePc = "idle" /\ modeOp = "revert"
    /\ modeSpins = 0 /\ modeClaimed = FALSE
    /\ hwMode = "vga"
    /\ engine = "idle" /\ softrap = FALSE /\ rearmed = FALSE
    /\ disturbed = [c \in Threads |-> FALSE]

\* The request leaves its handler with this code.
Finish(c, code) ==
    /\ pc' = [pc EXCEPT ![c] = "reply"]
    /\ rc' = [rc EXCEPT ![c] = code]

Goto(c, step) == pc' = [pc EXCEPT ![c] = step]

-------------------------------------------------------------------------------
\* Entry: the checks made before the engine is claimed.  A submission clears the
\* shared verdict first, whoever else may be about to read it.
GateRefuses(k) ==
    ~linearModeActive \/ (k \in {"blit", "fill"} /\ stormBlitFailed)

GateCode(k) == IF k = "present" THEN "INVALID_ARG" ELSE "RESOURCE"

Gate(c, k) ==
    /\ pc[c] = "idle"
    /\ kind' = [kind EXCEPT ![c] = k]
    /\ osmgaHW3DLast' = IF k \in SubmitKinds THEN "NOT_RUN" ELSE osmgaHW3DLast
    /\ IF GateRefuses(k)
         THEN Finish(c, GateCode(k))
         ELSE Goto(c, "claim") /\ UNCHANGED rc
    /\ UNCHANGED <<stormBusy, stormBlitFailed, osmgaModeEpoch, linearModeActive,
                   osmgaInjectTimeouts, retained, epoch, inject,
                   mode, card, disturbed>>

\* The claim, under stormLock.  Blits and fills do not look at the latch here.
BusyCode(k)  == IF k \in {"v9", "present"} THEN "BUSY" ELSE "RESOURCE"
LatchCode(k) == IF k = "present" THEN "IO" ELSE "RESOURCE"
HonoursLatch(k) == k \notin {"blit", "fill"}

ClaimRefused(c) ==
    /\ pc[c] = "claim"
    /\ \/ HonoursLatch(kind[c]) /\ stormBlitFailed /\ Finish(c, LatchCode(kind[c]))
       \/ ~(HonoursLatch(kind[c]) /\ stormBlitFailed) /\ stormBusy
             /\ Finish(c, BusyCode(kind[c]))
    /\ UNCHANGED <<driver, kind, epoch, inject, mode, card, disturbed>>

Take(c) ==
    /\ stormBusy' = TRUE
    /\ Goto(c, "held")
    /\ epoch' = [epoch EXCEPT ![c] = osmgaModeEpoch]
    /\ inject' = [inject EXCEPT ![c] = kind[c] = "v9" /\ osmgaInjectTimeouts > 0]
    /\ osmgaInjectTimeouts' = IF kind[c] = "v9" /\ osmgaInjectTimeouts > 0
                                THEN osmgaInjectTimeouts - 1 ELSE osmgaInjectTimeouts
    /\ disturbed' = [disturbed EXCEPT ![c] = modePc = "changing"]
    /\ UNCHANGED <<stormBlitFailed, osmgaModeEpoch, linearModeActive, osmgaHW3DLast,
                   retained, kind, rc, mode, card>>

ClaimAnyway(c) ==                                      \* mutant: latch not looked at
    pc[c] = "claim" /\ ~stormBusy /\ Take(c)

Claim(c) ==
    /\ pc[c] = "claim"
    /\ ~(HonoursLatch(kind[c]) /\ stormBlitFailed)
    /\ ~stormBusy
    /\ Take(c)

-------------------------------------------------------------------------------
\* Under the claim, before any register is written.
\* A refusal releases the engine and returns; it looks at no epoch.
Refuse(c, code, verdict) ==
    /\ stormBusy' = FALSE
    /\ osmgaHW3DLast' = verdict
    /\ Finish(c, code)
    /\ UNCHANGED <<stormBlitFailed, osmgaModeEpoch, linearModeActive,
                   osmgaInjectTimeouts, retained, kind, epoch, inject,
                   mode, card, disturbed>>

RefusalOutcomes(k) ==
    CASE k = "v9"      -> {<<"INVALID_ARG", "BAD">>, <<"RESOURCE", "OK">>}
      [] k = "v10"     -> {<<"RESOURCE", "NOT_RUN">>, <<"INVALID_ARG", "BAD">>,
                           <<"UNSUPPORTED", "BAD">>, <<"SUCCESS", "OK">>}
      [] k = "present" -> {<<"INVALID_ARG", osmgaHW3DLast>>}
      [] k = "harness" -> {<<"RESOURCE", osmgaHW3DLast>>}
      [] OTHER         -> {}

\* Version 9 reads the mode again now that it holds the claim.
ModeMovedOn(c) == kind[c] = "v9" /\ ~linearModeActive

RefuseModeMoved(c) ==
    /\ pc[c] = "held" /\ ModeMovedOn(c)
    /\ Refuse(c, "RESOURCE", osmgaHW3DLast)

RefuseRequest(c) ==
    /\ pc[c] = "held" /\ ~ModeMovedOn(c)
    /\ \E o \in RefusalOutcomes(kind[c]) : Refuse(c, o[1], o[2])

Admit(c) ==
    /\ pc[c] = "held" /\ ~ModeMovedOn(c)
    /\ Goto(c, "prep")
    /\ osmgaHW3DLast' = IF kind[c] \in SubmitKinds THEN "OK" ELSE osmgaHW3DLast
    /\ UNCHANGED <<stormBusy, stormBlitFailed, osmgaModeEpoch, linearModeActive,
                   osmgaInjectTimeouts, retained, kind, epoch, inject, rc,
                   mode, card, disturbed>>

-------------------------------------------------------------------------------
\* The engine is made ready.  A wait is bounded, so it may give up whenever the
\* engine is still running; version 9 also wants the trap clear; and the card may
\* refuse FIFO room (or, for version 10, the WARP set-up) at any time.
PrepareFailCode(k) == IF k = "present" THEN "BUSY" ELSE "RESOURCE"

PrepareFails(c) ==
    /\ pc[c] = "prep"
    /\ stormBlitFailed' = (stormBlitFailed \/ kind[c] \in SubmitKinds)
    /\ rc' = [rc EXCEPT ![c] = PrepareFailCode(kind[c])]
    /\ Goto(c, "release")
    /\ UNCHANGED <<stormBusy, osmgaModeEpoch, linearModeActive, osmgaInjectTimeouts,
                   osmgaHW3DLast, retained, kind, epoch, inject,
                   mode, card, disturbed>>

\* An empty scissor leaves nothing to draw: version 9 finds out after the waits.
NothingToDraw(c) ==
    /\ pc[c] = "prep" /\ kind[c] = "v9" /\ engine = "idle" /\ ~softrap
    /\ Refuse(c, "SUCCESS", osmgaHW3DLast)

Prepared(c) ==
    /\ pc[c] = "prep" /\ engine = "idle"
    /\ kind[c] = "v9" => ~softrap
    /\ Goto(c, "ring")
    /\ softrap' = (softrap /\ kind[c] \notin SubmitKinds)
    /\ UNCHANGED <<driver, kind, epoch, inject, rc, mode, engine, rearmed,
                   disturbed>>

\* PRIMEND, or the EXEC write of a two-dimensional operation.
Doorbell(c) ==
    /\ pc[c] = "ring"
    /\ engine' = kind[c]
    /\ Goto(c, "poll")
    /\ UNCHANGED <<driver, kind, epoch, inject, rc, mode, softrap, rearmed,
                   disturbed>>

-------------------------------------------------------------------------------
\* Completion.  A version 9 poll wants the trap as well as an idle engine; an
\* injected timeout does not look at all.
SeenDone(c) == engine = "idle" /\ (kind[c] \in SubmitKinds => softrap)

\* What a submission and the harness ask once more before they believe it: version
\* 9 that the engine is idle, the others that the fence came back and WARP stopped.
AsksOnceMore(c) == kind[c] \in SubmitKinds \cup {"harness"}

Completed(c, step) ==
    /\ pc[c] = step
    /\ SeenDone(c)
    /\ softrap' = (softrap /\ kind[c] \notin SubmitKinds)
    /\ IF AsksOnceMore(c)
         THEN Goto(c, "settle") /\ UNCHANGED rc
         ELSE Goto(c, "release") /\ rc' = [rc EXCEPT ![c] = "SUCCESS"]
    /\ UNCHANGED <<driver, kind, epoch, inject, mode, engine, rearmed, disturbed>>

PollDone(c) == ~inject[c] /\ Completed(c, "poll")

LatchAndFail(c) ==
    /\ stormBlitFailed' = TRUE
    /\ rc' = [rc EXCEPT ![c] = LatchCode(kind[c])]
    /\ Goto(c, "release")
    /\ UNCHANGED <<stormBusy, osmgaModeEpoch, linearModeActive, osmgaInjectTimeouts,
                   osmgaHW3DLast, retained, kind, epoch, inject,
                   mode, card, disturbed>>

PollForever(c) == FALSE                                \* mutant: a poll with no bound

TimeoutNoLatch(c) ==                                   \* mutant: released as it is
    /\ pc[c] = "poll" /\ kind[c] \notin {"v9", "harness"} /\ engine # "idle"
    /\ rc' = [rc EXCEPT ![c] = LatchCode(kind[c])]
    /\ Goto(c, "release")
    /\ UNCHANGED <<driver, kind, epoch, inject, mode, card, disturbed>>

\* The poll gave up: everything but version 9 and the harness latches at once.
PollTimeout(c) ==
    /\ pc[c] = "poll" /\ kind[c] \notin {"v9", "harness"} /\ engine # "idle"
    /\ LatchAndFail(c)

PollTimeoutV9(c) ==
    /\ pc[c] = "poll" /\ kind[c] = "v9" /\ (engine # "idle" \/ inject[c])
    /\ Goto(c, "recover")
    /\ UNCHANGED <<driver, kind, epoch, inject, rc, mode, card, disturbed>>

\* The harness keeps the claim: the engine is not to be touched until a reboot.
KeepsTheClaim(c) ==
    /\ retained' = TRUE
    /\ Finish(c, "RESOURCE")
    /\ UNCHANGED <<stormBusy, stormBlitFailed, osmgaModeEpoch, linearModeActive,
                   osmgaInjectTimeouts, osmgaHW3DLast, kind, epoch, inject,
                   mode, card, disturbed>>

PollTimeoutHarness(c) ==
    /\ pc[c] = "poll" /\ kind[c] = "harness" /\ engine # "idle"
    /\ KeepsTheClaim(c)

RecoveredAsFailure(c) ==                               \* mutant: done3 not set
    /\ pc[c] = "recover" /\ SeenDone(c)
    /\ softrap' = FALSE
    /\ rc' = [rc EXCEPT ![c] = "RESOURCE"]
    /\ Goto(c, "release")
    /\ UNCHANGED <<driver, kind, epoch, inject, mode, engine, rearmed, disturbed>>

RecoverDone(c) == Completed(c, "recover")

RecoverTimeout(c) ==
    /\ pc[c] = "recover" /\ engine # "idle"
    /\ LatchAndFail(c)

\* The last look.  It is bounded like every wait, and may find the card busy again,
\* without FIFO room or with an aborted transfer whatever the poll has seen.
Settled(c) ==
    /\ pc[c] = "settle" /\ engine = "idle"
    /\ rc' = [rc EXCEPT ![c] = "SUCCESS"]
    /\ Goto(c, "release")
    /\ UNCHANGED <<driver, kind, epoch, inject, mode, card, disturbed>>

SettleFails(c) ==
    /\ pc[c] = "settle"
    /\ IF kind[c] = "harness" THEN KeepsTheClaim(c) ELSE LatchAndFail(c)

\* The release.  A submission that a finished mode change overlapped has failed.
ReleaseClaim(c) ==
    /\ pc[c] = "release"
    /\ stormBusy' = FALSE
    /\ Finish(c, IF kind[c] \in SubmitKinds /\ osmgaModeEpoch # epoch[c]
                   THEN "RESOURCE" ELSE rc[c])
    /\ UNCHANGED <<stormBlitFailed, osmgaModeEpoch, linearModeActive,
                   osmgaInjectTimeouts, osmgaHW3DLast, retained, kind, epoch, inject, mode, card, disturbed>>

\* The ioctl handler copies the shared words into the caller's block afterwards.
Reply(c) ==
    /\ pc[c] = "reply"
    /\ Goto(c, "idle")
    /\ kind' = [kind EXCEPT ![c] = "v9"]             \* its locals die with it
    /\ epoch' = [epoch EXCEPT ![c] = 0]
    /\ inject' = [inject EXCEPT ![c] = FALSE]
    /\ rc' = [rc EXCEPT ![c] = "none"]
    /\ disturbed' = [disturbed EXCEPT ![c] = FALSE]
    /\ UNCHANGED <<driver, mode, card>>

-------------------------------------------------------------------------------
\* The mode-changing thread.  The display enters the linear mode only when it is
\* not in it; it may revert at any time.
ModeCall(op) ==
    /\ modePc = "idle" /\ osmgaModeEpoch < MaxEpoch
    /\ op = "enter" => ~linearModeActive
    /\ modePc' = "claim" /\ modeOp' = op /\ modeSpins' = 0
    /\ UNCHANGED <<driver, request, modeClaimed, hwMode, card, disturbed>>

ModeClaim ==
    /\ modePc = "claim" /\ modeSpins < ClaimSpins /\ ~stormBusy
    /\ stormBusy' = TRUE /\ modeClaimed' = TRUE
    /\ modePc' = "program"
    /\ UNCHANGED <<stormBlitFailed, osmgaModeEpoch, linearModeActive,
                   osmgaInjectTimeouts, osmgaHW3DLast, retained, request, modeOp,
                   modeSpins, hwMode, card, disturbed>>

ModeSpin ==
    /\ modePc = "claim" /\ modeSpins < ClaimSpins /\ stormBusy
    /\ modeSpins' = modeSpins + 1
    /\ UNCHANGED <<driver, request, modePc, modeOp, modeClaimed, hwMode, card, disturbed>>

\* "the engine stayed busy for a second; changing mode anyway"
ModeGiveUp ==
    /\ modePc = "claim" /\ modeSpins = ClaimSpins
    /\ modePc' = "program"
    /\ UNCHANGED <<driver, request, modeOp, modeSpins, modeClaimed, hwMode, card,
                   disturbed>>

\* The registers begin to change; a revert clears the flag first.
ModeStart ==
    /\ modePc = "program"
    /\ modePc' = "changing" /\ hwMode' = "changing"
    /\ linearModeActive' = (linearModeActive /\ modeOp = "enter")
    /\ disturbed' = [c \in Threads |-> disturbed[c] \/ pc[c] \in Holding]
    /\ UNCHANGED <<stormBusy, stormBlitFailed, osmgaModeEpoch, osmgaInjectTimeouts,
                   osmgaHW3DLast, retained, request, modeOp, modeSpins, modeClaimed,
                   card>>

\* Entering succeeds, or the PLL does not lock and the driver reverts by itself.
\* A revert puts the VGA image back only under the claim and if it has one.
EnterDone ==
    /\ modeOp = "enter"
    /\ \/ hwMode' = "linear" /\ linearModeActive' = TRUE
       \/ hwMode' \in {"vga", "other"} /\ UNCHANGED linearModeActive

RevertDone ==
    /\ modeOp = "revert"
    /\ hwMode' \in IF modeClaimed THEN {"vga", "other"} ELSE {"other"}
    /\ UNCHANGED linearModeActive

ModeEnd ==
    /\ modePc = "changing"
    /\ EnterDone \/ RevertDone
    /\ modePc' = "release"
    /\ UNCHANGED <<stormBusy, stormBlitFailed, osmgaModeEpoch, osmgaInjectTimeouts,
                   osmgaHW3DLast, retained, request, modeOp, modeSpins, modeClaimed,
                   card, disturbed>>

ModeReleaseAlways ==                                   \* mutant: claimed not looked at
    /\ modePc = "release"
    /\ stormBusy' = FALSE
    /\ osmgaModeEpoch' = osmgaModeEpoch + 1
    /\ modeClaimed' = FALSE /\ modePc' = "idle"
    /\ UNCHANGED <<stormBlitFailed, linearModeActive, osmgaInjectTimeouts,
                   osmgaHW3DLast, retained, request, modeOp, modeSpins, hwMode, card,
                   disturbed>>

ModeRelease ==
    /\ modePc = "release"
    /\ stormBusy' = (stormBusy /\ ~modeClaimed)
    /\ osmgaModeEpoch' = osmgaModeEpoch + 1
    /\ modeClaimed' = FALSE /\ modePc' = "idle"
    /\ UNCHANGED <<stormBlitFailed, linearModeActive, osmgaInjectTimeouts,
                   osmgaHW3DLast, retained, request, modeOp, modeSpins, hwMode, card,
                   disturbed>>

-------------------------------------------------------------------------------
\* Parameters anybody may set.  Neither looks at the claim.
Rearm ==
    /\ stormBlitFailed
    /\ stormBlitFailed' = FALSE
    /\ rearmed' = (rearmed \/ engine # "idle")
    /\ UNCHANGED <<stormBusy, osmgaModeEpoch, linearModeActive, osmgaInjectTimeouts,
                   osmgaHW3DLast, retained, request, mode, engine, softrap, disturbed>>

SetInject(n) ==
    /\ osmgaInjectTimeouts' = n
    /\ UNCHANGED <<stormBusy, stormBlitFailed, osmgaModeEpoch, linearModeActive,
                   osmgaHW3DLast, retained, request, mode, card, disturbed>>

\* The card finishes what it was given, or (no fairness) never does.
EngineDone ==
    /\ engine # "idle"
    /\ engine' = "idle"
    /\ softrap' = (softrap \/ engine \in SubmitKinds)
    /\ rearmed' = FALSE
    /\ UNCHANGED <<driver, request, mode, disturbed>>

-------------------------------------------------------------------------------
\* Everything a request does once it has been made.
Step(c) ==
    \/ ClaimRefused(c) \/ Claim(c)
    \/ RefuseModeMoved(c) \/ RefuseRequest(c) \/ Admit(c)
    \/ PrepareFails(c) \/ NothingToDraw(c) \/ Prepared(c) \/ Doorbell(c)
    \/ PollDone(c) \/ PollTimeout(c) \/ PollTimeoutV9(c) \/ PollTimeoutHarness(c)
    \/ RecoverDone(c) \/ RecoverTimeout(c) \/ Settled(c) \/ SettleFails(c)
    \/ ReleaseClaim(c) \/ Reply(c)

ModeStep ==
    ModeClaim \/ ModeSpin \/ ModeGiveUp \/ ModeStart \/ ModeEnd \/ ModeRelease

EngineNext ==
    \/ \E c \in Threads : (\E k \in Kinds : Gate(c, k)) \/ Step(c)
    \/ (\E op \in {"enter", "revert"} : ModeCall(op)) \/ ModeStep
    \/ Rearm
    \/ \E n \in 0 .. MaxInject : SetInject(n)
    \/ EngineDone

EngineSpec == EngineInit /\ [][EngineNext]_engineVars

\* A thread inside the driver keeps running; nothing is assumed of the card.
FairEngineSpec ==
    EngineSpec /\ (\A c \in Threads : WF_engineVars(Step(c))) /\ WF_engineVars(ModeStep)

-------------------------------------------------------------------------------
\* At most one of the requests, a claiming mode change and a wedged harness has
\* the engine, and stormBusy says exactly whether one has.  A mode change that
\* gave up waiting must not give back a claim it never had.
ClaimExclusive ==
    /\ \A c, d \in Threads : pc[c] \in Holding /\ pc[d] \in Holding => c = d
    /\ \A c \in Threads : pc[c] \in Holding => ~modeClaimed /\ ~retained
    /\ ~(modeClaimed /\ retained)
    /\ stormBusy <=> \/ \E c \in Threads : pc[c] \in Holding
                     \/ modeClaimed
                     \/ retained

\* An engine that may still be writing is never handed back as free: if nobody
\* has it, either it is idle, or the latch is set, or somebody cleared the latch
\* over it on purpose (OSMGAAccelRearm).
LatchCoversRunningEngine ==
    engine # "idle" => stormBusy \/ stormBlitFailed \/ rearmed

\* No list, present or harness run is started while the latch is set.
NothingAfterTheLatch ==
    [][\A c \in Threads : Doorbell(c) /\ HonoursLatch(kind[c]) => ~stormBlitFailed]_engineVars

\* A batch whose list completed is reported as drawn unless a mode change ended
\* meanwhile: the caller must not draw it a second time in software.  In
\* particular a completion that only the recovery poll saw still counts.  Only the
\* last look may take it back, and then nothing more goes to that engine.
CompletedIsReported ==
    [][\A c \in Threads :
          pc[c] \in {"poll", "recover", "settle"} /\ pc'[c] = "release" /\ engine = "idle"
             => rc'[c] = "SUCCESS" \/ (pc[c] = "settle" /\ stormBlitFailed')]_engineVars

\* A version 9 list is started only while the linear mode is up, unless a mode
\* change that could not get the engine reprogrammed the card under the claim.
ListsStartInLinearMode ==
    [][\A c \in Threads :
          Doorbell(c) /\ kind[c] = "v9" => hwMode = "linear" \/ disturbed[c]]_engineVars

\* The same for version 10 and for the present, which rely on the check made
\* before the claim ("the mode cannot change under a request that holds it").
WorkStartsInLinearMode ==
    [][\A c \in Threads :
          Doorbell(c) /\ kind[c] \in {"v10", "present"}
             => hwMode = "linear" \/ disturbed[c]]_engineVars

\* "any batch in flight will be told it failed": no submission succeeds if the
\* mode was reprogrammed while it had the engine.
InFlightIsToldItFailed ==
    [][\A c \in Threads :
          ReleaseClaim(c) /\ kind[c] \in SubmitKinds /\ disturbed[c]
             => rc'[c] # "SUCCESS"]_engineVars

\* A submission refused before its batch was looked at is answered NOT_RUN, not
\* with the verdict of some other batch, nor with one that another client's submission
\* left there in the middle (the comments at the clearing and at the reply say so).
UnseenBatchHasNoVerdict ==
    [][\A c \in Threads :
          Reply(c) /\ kind[c] \in SubmitKinds /\ rc[c] = "BUSY"
             => osmgaHW3DLast = "NOT_RUN"]_engineVars

\* Every request returns to its caller, although the card need not ever finish.
RequestsReturn == \A c \in Threads : pc[c] # "idle" ~> pc[c] = "idle"

===============================================================================
