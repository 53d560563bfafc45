-------------------------- MODULE ModeTransaction --------------------------
(* The transaction of protocol/OpenStepMGAModeTransaction.c: one change of  *)
(* mode, from the reviews to a linear picture, and the way back.  The code  *)
(* touches no hardware: a caller does, and reports what it saw.  A caller   *)
(* may call anything at any time; what a call may not do here, it is        *)
(* refused, and only Begin looks at no state.                               *)
EXTENDS ModeProfile, Sequences

CONSTANTS
  Machines,       \* what callers work from: inputs, slips, arenas, budgets, and two
                  \* bounds: transactions begun, samples of the lock taken in one
  Alter(_, _),    \* the inputs as they come with a slip of the caller
  Elapsed,        \* milliseconds a caller may measure
  Snapshots(_)    \* what it may read back, given what it should

ASSUME MachineAssumption ==
  /\ \A m \in Machines :
       /\ m.in.policy \in [timeout : Nat, required : Nat]
       /\ IsReview(m.in.mapping.mode)
       /\ \A slip \in m.slips : IsReview(Alter(m.in, slip).mapping.mode)
       /\ \A q \in m.budgets : IsBudget(q)
  /\ Elapsed \subseteq Nat

VARIABLES
  machine,        \* the caller's reviewed inputs
  tx,             \* the transaction object
  history         \* what happened, for the properties

txVars == <<machine, tx, history>>
-----------------------------------------------------------------------------
(* The bounded poll.  READY and TIMEOUT are for good.                       *)
ValidPolicy(policy) == policy.timeout # 0 /\ policy.required # 0
FreshPoll == [ready |-> 0, result |-> "CONTINUE"]

(* Mutant: a sample that is not ready keeps the count.                      *)
PolledThroughDips(policy, poll, elapsed, ready) ==
  LET count == IF ready THEN poll.ready + 1 ELSE poll.ready IN
  CASE ~ValidPolicy(policy) -> [poll |-> poll, result |-> "INVALID_ARGUMENT"]
    [] ValidPolicy(policy) /\ poll.result # "CONTINUE" -> [poll |-> poll, result |-> poll.result]
    [] OTHER ->
         LET result == IF elapsed >= policy.timeout THEN "TIMEOUT"
                       ELSE IF ready /\ count >= policy.required THEN "READY" ELSE "CONTINUE"
         IN [poll |-> [ready |-> count, result |-> result], result |-> result]

Polled(policy, poll, elapsed, ready) ==
  CASE ~ValidPolicy(policy) -> [poll |-> poll, result |-> "INVALID_ARGUMENT"]
    [] ValidPolicy(policy) /\ poll.result # "CONTINUE" -> [poll |-> poll, result |-> poll.result]
    [] OTHER ->
         LET count  == IF ready THEN poll.ready + 1 ELSE 0
             result == IF elapsed >= policy.timeout THEN "TIMEOUT"
                       ELSE IF ready /\ count >= policy.required THEN "READY" ELSE "CONTINUE"
         IN [poll |-> [ready |-> IF result = "TIMEOUT" THEN poll.ready ELSE count,
                       result |-> result],
             result |-> result]
-----------------------------------------------------------------------------
(* Begin goes through its checks in order and keeps what each one plans, so *)
(* one that fails late leaves the plans of the stages before.               *)
Preflight == <<"mapping", "matrix", "same", "range", "crtc", "image", "pll", "bytes", "poll">>

Passes(in, stage) ==
  CASE stage = "mapping" -> ValidMapping(in.mapping)
    [] stage = "matrix" -> ValidMatrix(in.matrix)
    [] stage = "same" -> in.mapping.mode = in.pll.mode
    [] stage = "range" -> CanPublish(in.mapping, in.base)
    [] stage = "crtc" -> CanPlanCRTC(in.mapping.mode)
    [] stage = "image" -> CanImage(in.mapping.mode)
    [] stage = "pll" -> CanPlanPLL(in.pll)
    [] stage = "bytes" -> CanEncode(in.pll, PLLPlan(in.pll))
    [] stage = "poll" -> ValidPolicy(in.policy)

(* How many stages a Begin gets through.                                    *)
Reach(in) ==
  CHOOSE n \in 0..Len(Preflight) :
    /\ \A i \in 1..n : Passes(in, Preflight[i])
    /\ n < Len(Preflight) => ~Passes(in, Preflight[n + 1])

RollbackStages == {"display_state", "pll_state", "vga_safe_state", "superclass_revert"}
States ==
  {"IDLE", "PREFLIGHT_READY", "PLL_LOCK_PENDING", "PLL_LOCKED", "PRIMARY_CRTC_VERIFIED",
   "LINEAR_ACTIVE", "ROLLBACK_REQUIRED", "ROLLED_BACK"}

NoPlan == [unplanned |-> TRUE]
IdleTransaction ==
  [state |-> "IDLE", restored |-> {}, lock |-> FreshPoll, range |-> NoPlan, crtc |-> NoPlan,
   image |-> NoPlan, pll |-> NoPlan, bytes |-> NoPlan]

TxInit ==
  /\ machine \in Machines
  /\ tx = IdleTransaction
  /\ history = [begins |-> 0, last |-> "none", reach |-> 0, approved |-> "none", intact |-> FALSE,
                samples |-> <<>>, readBack |-> FALSE, entered |-> FALSE, restored |-> {}]
-----------------------------------------------------------------------------
BeginWith(slip, in, reach) ==
  LET approved == reach = 9
      made(n, plan, kept) == IF reach >= n THEN plan ELSE kept IN
  /\ tx' = [state |-> IF approved THEN "PREFLIGHT_READY" ELSE tx.state,
            restored |-> IF approved THEN {} ELSE tx.restored,
            range |-> made(4, RangePlan(in.base), tx.range),
            crtc |-> made(5, CRTCPlan(in.mapping.mode), tx.crtc),
            image |-> made(6, CRTCImage(in.mapping.mode), tx.image),
            pll |-> made(7, PLLPlan(in.pll), tx.pll),
            bytes |-> made(8, PLLBytes(in.pll, PLLPlan(in.pll)), tx.bytes),
            lock |-> made(9, FreshPoll, tx.lock)]
  /\ history' =
       IF approved
       THEN [history EXCEPT !.begins = @ + 1, !.last = slip, !.reach = reach, !.approved = slip,
                            !.intact = TRUE, !.samples = <<>>, !.readBack = FALSE,
                            !.entered = FALSE]
       ELSE [history EXCEPT !.begins = @ + 1, !.last = slip, !.reach = reach,
                            !.intact = @ /\ reach < 4]
  /\ UNCHANGED machine

Begin ==
  /\ history.begins < machine.begins
  /\ \E slip \in machine.slips :
       \E in \in {Alter(machine.in, slip)} : \E reach \in {Reach(in)} : BeginWith(slip, in, reach)

BeginPLLLock ==
  /\ tx.state = "PREFLIGHT_READY"
  /\ tx' = [tx EXCEPT !.state = "PLL_LOCK_PENDING"]
  /\ UNCHANGED <<machine, history>>

(* A failure owes a whole roll-back, whatever was restored before.          *)
Fail(t) == [t EXCEPT !.state = "ROLLBACK_REQUIRED", !.restored = {}]
Owing(h) == [h EXCEPT !.restored = {}]

(* The caller hands in the policy with each sample.                         *)
ObservePLLLock(policy, elapsed, locked) ==
  LET polled == Polled(policy, tx.lock, elapsed, locked)
      seen   == [history EXCEPT !.samples =
                   Append(@, [ready |-> locked, late |-> elapsed >= policy.timeout])]
      next   == [tx EXCEPT !.lock = polled.poll] IN
  /\ tx.state = "PLL_LOCK_PENDING"
  /\ Len(history.samples) < machine.samples
  /\ CASE polled.result = "CONTINUE" -> tx' = next /\ history' = seen
       [] polled.result = "READY" -> tx' = [next EXCEPT !.state = "PLL_LOCKED"] /\ history' = seen
       [] OTHER -> tx' = Fail(next) /\ history' = Owing(seen)
  /\ UNCHANGED machine

Observe ==
  \E policy \in {machine.in.policy, [machine.in.policy EXCEPT !.timeout = 0]} :
    \E elapsed \in Elapsed, locked \in BOOLEAN : ObservePLLLock(policy, elapsed, locked)

(* What the mode that was approved asks of the CRTC, whatever tx holds now. *)
ApprovedImage == CRTCImage(Alter(machine.in, history.approved).mapping.mode)

ReportPrimaryCRTCReadback(seen) ==
  /\ tx.state = "PLL_LOCKED"
  /\ IF ReadsBack(tx.image, seen)
     THEN /\ tx' = [tx EXCEPT !.state = "PRIMARY_CRTC_VERIFIED"]
          /\ history' = [history EXCEPT !.readBack = ReadsBack(ApprovedImage, seen)]
     ELSE tx' = Fail(tx) /\ history' = Owing(history)
  /\ UNCHANGED machine

ReadBack == \E seen \in Snapshots(tx.image) : ReportPrimaryCRTCReadback(seen)

ReportLinearModeEntry(succeeded) ==
  /\ tx.state = "PRIMARY_CRTC_VERIFIED"
  /\ IF succeeded
     THEN /\ tx' = [tx EXCEPT !.state = "LINEAR_ACTIVE"]
          /\ history' = [history EXCEPT !.entered = TRUE]
     ELSE tx' = Fail(tx) /\ history' = Owing(history)
  /\ UNCHANGED machine

Enter == \E succeeded \in BOOLEAN : ReportLinearModeEntry(succeeded)

(* Asked for while it is owed already, a roll-back keeps what is restored.  *)
RequireModeRollback ==
  /\ tx.state \notin {"IDLE", "ROLLED_BACK"}
  /\ IF tx.state = "ROLLBACK_REQUIRED" THEN UNCHANGED <<tx, history>>
     ELSE tx' = Fail(tx) /\ history' = Owing(history)
  /\ UNCHANGED machine

ReportModeRollbackStage(stage, restored) ==
  /\ tx.state = "ROLLBACK_REQUIRED"
  /\ IF restored
     THEN /\ tx' = [tx EXCEPT !.restored = @ \cup {stage}]
          /\ history' = [history EXCEPT !.restored = @ \cup {stage}]
     ELSE UNCHANGED <<tx, history>>
  /\ UNCHANGED machine

Restore ==
  \E stage \in RollbackStages, restored \in BOOLEAN : ReportModeRollbackStage(stage, restored)

CompleteModeRollback ==
  /\ tx.state = "ROLLBACK_REQUIRED"
  /\ tx.restored = RollbackStages
  /\ tx' = [tx EXCEPT !.state = "ROLLED_BACK"]
  /\ UNCHANGED <<machine, history>>

TxNext ==
  \/ Begin \/ BeginPLLLock \/ Observe \/ ReadBack \/ Enter
  \/ RequireModeRollback \/ Restore \/ CompleteModeRollback
=============================================================================
