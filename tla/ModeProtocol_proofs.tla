------------------------ MODULE ModeProtocol_proofs ------------------------
(* That every state of the mode transaction is earned, for every machine,   *)
(* every slip of its caller and any number of samples and transactions.     *)
(* In the first half what the planners compute plays no part and CRTCImage  *)
(* is a name; the second is about the planners: for every review, the PLL   *)
(* plan is the nearest setting and the image shows the mode.                *)
EXTENDS ModeProtocol, NaturalsInduction, FiniteSetTheorems, TLAPS

Poll == [ready : Nat, result : {"CONTINUE", "READY", "TIMEOUT"}]
Sample == [ready : BOOLEAN, late : BOOLEAN]

TxTypeOK ==
  /\ machine \in Machines
  /\ tx \in [state : States, restored : SUBSET RollbackStages, lock : Poll, range : {tx.range},
             crtc : {tx.crtc}, image : {tx.image}, pll : {tx.pll}, bytes : {tx.bytes}]
  /\ history \in [begins : {history.begins}, last : {history.last}, reach : {history.reach},
                  approved : {history.approved}, intact : {history.intact},
                  samples : Seq(Sample), readBack : {history.readBack},
                  entered : {history.entered}, restored : SUBSET RollbackStages]

(* While the lock is awaited, the poll has counted the ready samples at the *)
(* end, and none came late.                                                 *)
PollCounts ==
  tx.state \in {"PREFLIGHT_READY", "PLL_LOCK_PENDING"} =>
    /\ tx.lock.result = "CONTINUE"
    /\ tx.lock.ready <= Len(history.samples)
    /\ StableLock(history.samples, tx.lock.ready)

(* Up to the readback the image is the one approved, if no Begin came near. *)
ImageHeld ==
  (history.intact /\ tx.state \in {"PREFLIGHT_READY", "PLL_LOCK_PENDING", "PLL_LOCKED"}) =>
    tx.image = ApprovedImage

(* While a roll-back is owed, the stages marked are those restored since.   *)
RestoredSince == tx.state = "ROLLBACK_REQUIRED" => tx.restored = history.restored

Earned == TxTypeOK /\ PollCounts /\ ImageHeld /\ RestoredSince /\ StatesAreEarned
-----------------------------------------------------------------------------
(* A Begin gets through a number of stages between none and all nine, and   *)
(* what it was given passes each of them.                                   *)
LEMMA ReachBounds ==
  ASSUME NEW in
  PROVE  Reach(in) \in 0..9 /\ \A i \in 1..Reach(in) : Passes(in, Preflight[i])
<1> DEFINE P(i) == Passes(in, Preflight[i])
           Stops(n) == /\ \A i \in 1..n : P(i)
                       /\ n < Len(Preflight) => ~P(n + 1)
<1>1. Len(Preflight) = 9
  BY DEF Preflight
<1>2. \E n \in 0..9 : Stops(n)
  <2> HIDE DEF P
  <2> SUFFICES ASSUME \A n \in 0..9 : ~Stops(n)
               PROVE  FALSE
    OBVIOUS
  <2> USE <1>1
  <2>1. P(1)
    OBVIOUS
  <2>2. P(2)
    BY <2>1
  <2>3. P(3)
    BY <2>1, <2>2
  <2>4. P(4)
    BY <2>1, <2>2, <2>3
  <2>5. P(5)
    BY <2>1, <2>2, <2>3, <2>4
  <2>6. P(6)
    BY <2>1, <2>2, <2>3, <2>4, <2>5
  <2>7. P(7)
    BY <2>1, <2>2, <2>3, <2>4, <2>5, <2>6
  <2>8. P(8)
    BY <2>1, <2>2, <2>3, <2>4, <2>5, <2>6, <2>7
  <2>9. P(9)
    BY <2>1, <2>2, <2>3, <2>4, <2>5, <2>6, <2>7, <2>8
  <2> QED
    BY <2>1, <2>2, <2>3, <2>4, <2>5, <2>6, <2>7, <2>8, <2>9
<1>3. Reach(in) = CHOOSE n \in 0..9 : Stops(n)
  BY <1>1 DEF Reach
<1>4. Reach(in) \in 0..9 /\ Stops(Reach(in))
  <2> HIDE DEF Stops
  <2> QED
    BY <1>2, <1>3
<1> QED
  BY <1>4
-----------------------------------------------------------------------------
(* What a sample makes of a poll that still goes on.                        *)
LEMMA PollStep ==
  ASSUME NEW policy \in [timeout : Nat, required : Nat], NEW poll \in Poll,
         poll.result = "CONTINUE", NEW elapsed, NEW ready \in BOOLEAN,
         NEW p, p = Polled(policy, poll, elapsed, ready)
  PROVE  /\ p.poll \in Poll
         /\ p.result \in {"CONTINUE", "READY"} =>
              /\ p.poll = [ready |-> IF ready THEN poll.ready + 1 ELSE 0, result |-> p.result]
              /\ ~(elapsed >= policy.timeout)
         /\ p.result = "READY" => ready /\ policy.required <= poll.ready + 1
<1>1. CASE ~ValidPolicy(policy)
  BY <1>1 DEF Polled, Poll
<1>2. CASE ValidPolicy(policy)
  <2> DEFINE count == IF ready THEN poll.ready + 1 ELSE 0
             late == elapsed >= policy.timeout
             result == IF late THEN "TIMEOUT"
                       ELSE IF ready /\ count >= policy.required THEN "READY" ELSE "CONTINUE"
  <2>1. p = [poll |-> [ready |-> IF result = "TIMEOUT" THEN poll.ready ELSE count,
                       result |-> result], result |-> result]
    BY <1>2 DEF Polled
  <2>2. count \in Nat /\ poll.ready \in Nat /\ policy.required \in Nat
    BY DEF Poll
  <2> HIDE DEF late
  <2>3. /\ p.poll \in Poll
        /\ p.result \in {"CONTINUE", "READY"} =>
             p.poll = [ready |-> count, result |-> p.result] /\ ~late
        /\ p.result = "READY" => ready /\ policy.required <= poll.ready + 1
    BY <2>1, <2>2 DEF Poll
  <2> QED
    BY <2>3 DEF late
<1> QED
  BY <1>1, <1>2

(* One sample more: the ready ones at the end are one more, or none.        *)
LEMMA LongerRun ==
  ASSUME NEW samples \in Seq(Sample), NEW n \in Nat, n <= Len(samples),
         StableLock(samples, n), NEW sample \in Sample, ~sample.late,
         NEW k \in Nat, k = IF sample.ready THEN n + 1 ELSE 0
  PROVE  k <= Len(Append(samples, sample)) /\ StableLock(Append(samples, sample), k)
<1> DEFINE longer == Append(samples, sample)
<1>1. /\ longer \in Seq(Sample) /\ Len(longer) = Len(samples) + 1
      /\ \A i \in 1..Len(samples) : longer[i] = samples[i]
      /\ longer[Len(samples) + 1] = sample
  OBVIOUS
<1>2. DOMAIN longer = 1..Len(samples) + 1 /\ DOMAIN samples = 1..Len(samples)
  BY <1>1
<1>3. k <= Len(longer)
  BY <1>1 DEF Sample
<1>4. ASSUME NEW i \in Len(longer) - k + 1 .. Len(longer)
      PROVE  longer[i].ready
  <2>1. CASE i = Len(samples) + 1
    BY <2>1, <1>1
  <2>2. CASE i # Len(samples) + 1
    <3>1. i \in Len(samples) - n + 1 .. Len(samples) /\ i \in 1..Len(samples)
      BY <2>2, <1>1
    <3> QED
      BY <3>1, <1>1 DEF StableLock
  <2> QED
    BY <2>1, <2>2
<1>5. ASSUME NEW i \in DOMAIN longer
      PROVE  ~longer[i].late
  BY <1>1, <1>2 DEF StableLock
<1> QED
  BY <1>1, <1>3, <1>4, <1>5 DEF StableLock

(* Fewer are asked for than there are.                                      *)
LEMMA ShorterRun ==
  ASSUME NEW samples \in Seq(Sample), NEW n \in Nat, NEW k \in Nat, k <= n,
         StableLock(samples, n)
  PROVE  StableLock(samples, k)
<1>1. Len(samples) \in Nat
  OBVIOUS
<1> QED
  BY <1>1 DEF StableLock
-----------------------------------------------------------------------------
LEMMA EarnedInit == Init => Earned
<1> SUFFICES ASSUME Init PROVE Earned
  OBVIOUS
<1> USE DEF Init, TxInit, IdleTransaction
<1>1. TxTypeOK
  BY DEF TxTypeOK, States, RollbackStages, Poll, FreshPoll, Sample
<1>2. PollCounts /\ ImageHeld /\ RestoredSince /\ StatesAreEarned
  BY DEF PollCounts, ImageHeld, RestoredSince, StatesAreEarned
<1> QED
  BY <1>1, <1>2 DEF Earned

(* Begin: approved, everything starts over; refused, the state stays, and   *)
(* the image is replaced only by one that got beyond the first stages.      *)
LEMMA EarnedBegin ==
  ASSUME Earned, NEW slip, NEW in, in = Alter(machine.in, slip), NEW reach,
         reach = Reach(in), BeginWith(slip, in, reach)
  PROVE  Earned'
<1>1. reach \in 0..9
  BY ReachBounds
<1>2. machine' = machine
  BY DEF BeginWith
<1>3. CASE reach = 9
  <2>1. /\ tx' = [state |-> "PREFLIGHT_READY", restored |-> {}, range |-> RangePlan(in.base),
                  crtc |-> CRTCPlan(in.mapping.mode), image |-> CRTCImage(in.mapping.mode),
                  pll |-> PLLPlan(in.pll), bytes |-> PLLBytes(in.pll, PLLPlan(in.pll)),
                  lock |-> FreshPoll]
        /\ history' = [history EXCEPT !.begins = @ + 1, !.last = slip, !.reach = reach,
                            !.approved = slip, !.intact = TRUE, !.samples = <<>>,
                            !.readBack = FALSE, !.entered = FALSE]
    BY <1>3 DEF BeginWith
  <2>2. /\ history'.approved = slip /\ history'.samples = <<>>
        /\ tx'.state = "PREFLIGHT_READY" /\ tx'.lock = FreshPoll
        /\ tx'.image = CRTCImage(in.mapping.mode)
    BY <2>1 DEF Earned, TxTypeOK
  <2>3. TxTypeOK'
    <3>1. FreshPoll \in Poll /\ "PREFLIGHT_READY" \in States /\ <<>> \in Seq(Sample)
      BY DEF Poll, FreshPoll, States
    <3> QED
      BY <3>1, <2>1, <1>2 DEF Earned, TxTypeOK
  <2>4. PollCounts'
    BY <2>2 DEF PollCounts, StableLock, FreshPoll
  <2>5. ImageHeld'
    BY <2>2, <1>2 DEF ImageHeld, ApprovedImage
  <2>6. RestoredSince' /\ StatesAreEarned'
    BY <2>2 DEF RestoredSince, StatesAreEarned
  <2> QED
    BY <2>3, <2>4, <2>5, <2>6 DEF Earned
<1>4. CASE reach # 9
  <2>1. /\ tx'.state = tx.state /\ tx'.restored = tx.restored /\ tx'.lock = tx.lock
        /\ reach < 4 => tx'.image = tx.image
        /\ DOMAIN tx' = {"state", "restored", "lock", "range", "crtc", "image", "pll", "bytes"}
        /\ tx' = [state |-> tx'.state, restored |-> tx'.restored, range |-> tx'.range,
                  crtc |-> tx'.crtc, image |-> tx'.image, pll |-> tx'.pll, bytes |-> tx'.bytes,
                  lock |-> tx'.lock]
    BY <1>1, <1>4 DEF BeginWith
  <2>2. history' = [history EXCEPT !.begins = @ + 1, !.last = slip, !.reach = reach,
                                   !.intact = @ /\ reach < 4]
    BY <1>1, <1>4 DEF BeginWith
  <2>3. /\ history'.approved = history.approved /\ history'.samples = history.samples
        /\ history'.readBack = history.readBack /\ history'.entered = history.entered
        /\ history'.restored = history.restored
        /\ history'.intact => history.intact /\ reach < 4
    BY <2>2 DEF Earned, TxTypeOK
  <2>4. TxTypeOK'
    BY <2>1, <2>2, <1>2 DEF Earned, TxTypeOK
  <2>5. PollCounts' /\ RestoredSince'
    BY <2>1, <2>3 DEF Earned, PollCounts, RestoredSince
  <2>6. ImageHeld'
    BY <2>1, <2>3, <1>2 DEF Earned, ImageHeld, ApprovedImage
  <2>7. StatesAreEarned'
    BY <2>1, <2>3, <1>2 DEF Earned, StatesAreEarned
  <2> QED
    BY <2>4, <2>5, <2>6, <2>7 DEF Earned
<1> QED
  BY <1>3, <1>4

(* The lock: begun with a fresh poll, then a sample at a time.              *)
LEMMA EarnedBeginPLLLock ==
  ASSUME Earned, BeginPLLLock
  PROVE  Earned'
<1>1. TxTypeOK'
  BY DEF Earned, TxTypeOK, BeginPLLLock, States
<1>2. PollCounts' /\ ImageHeld' /\ RestoredSince' /\ StatesAreEarned'
  BY DEF Earned, TxTypeOK, BeginPLLLock, PollCounts, ImageHeld, RestoredSince, StatesAreEarned,
         ApprovedImage
<1> QED
  BY <1>1, <1>2 DEF Earned

(* A failure owes all four stages, and none has been restored since.        *)
LEMMA EarnedFailure ==
  ASSUME Earned, machine' = machine,
         NEW t, t \in [state : States, restored : SUBSET RollbackStages, lock : Poll,
                       range : {t.range}, crtc : {t.crtc}, image : {t.image}, pll : {t.pll},
                       bytes : {t.bytes}],
         NEW samples \in Seq(Sample), NEW h, h = [history EXCEPT !.samples = samples],
         tx' = Fail(t), history' = Owing(h)
  PROVE  Earned'
<1>1. tx'.state = "ROLLBACK_REQUIRED" /\ tx'.restored = {} /\ history'.restored = {}
  BY DEF Earned, TxTypeOK, Fail, Owing
<1>2. TxTypeOK'
  BY DEF Earned, TxTypeOK, Fail, Owing, States
<1>3. PollCounts' /\ ImageHeld' /\ RestoredSince' /\ StatesAreEarned'
  BY <1>1 DEF PollCounts, ImageHeld, RestoredSince, StatesAreEarned
<1> QED
  BY <1>2, <1>3 DEF Earned

LEMMA EarnedObserve ==
  ASSUME Earned,
         NEW policy \in {machine.in.policy, [machine.in.policy EXCEPT !.timeout = 0]},
         NEW elapsed \in Elapsed, NEW locked \in BOOLEAN,
         ObservePLLLock(policy, elapsed, locked)
  PROVE  Earned'
<1> DEFINE p == Polled(policy, tx.lock, elapsed, locked)
           late == elapsed >= policy.timeout
           samples == Append(history.samples, [ready |-> locked, late |-> late])
           seen == [history EXCEPT !.samples = samples]
           next == [tx EXCEPT !.lock = p.poll]
<1>1. /\ machine.in.policy \in [timeout : Nat, required : Nat]
      /\ policy \in [timeout : Nat, required : Nat] /\ policy.required = machine.in.policy.required
  BY MachineAssumption DEF Earned, TxTypeOK
<1>2. /\ machine' = machine /\ tx.state = "PLL_LOCK_PENDING"
      /\ CASE p.result = "CONTINUE" -> tx' = next /\ history' = seen
           [] p.result = "READY" -> tx' = [next EXCEPT !.state = "PLL_LOCKED"] /\ history' = seen
           [] OTHER -> tx' = Fail(next) /\ history' = Owing(seen)
  BY DEF ObservePLLLock
<1>3. /\ tx.lock \in Poll /\ tx.lock.result = "CONTINUE" /\ history.samples \in Seq(Sample)
      /\ tx.lock.ready \in Nat /\ tx.lock.ready <= Len(history.samples)
      /\ StableLock(history.samples, tx.lock.ready)
  BY <1>2 DEF Earned, TxTypeOK, PollCounts, Poll
<1>4. /\ p.poll \in Poll
      /\ p.result \in {"CONTINUE", "READY"} =>
           /\ p.poll = [ready |-> IF locked THEN tx.lock.ready + 1 ELSE 0, result |-> p.result]
           /\ ~late
      /\ p.result = "READY" => locked /\ policy.required <= tx.lock.ready + 1
  BY <1>1, <1>3, PollStep
<1>5. late \in BOOLEAN /\ samples \in Seq(Sample)
  BY <1>1, <1>3, MachineAssumption DEF Sample
<1> HIDE DEF p, late
<1>6. next \in [state : States, restored : SUBSET RollbackStages, lock : Poll,
                range : {next.range}, crtc : {next.crtc}, image : {next.image}, pll : {next.pll},
                bytes : {next.bytes}]
  BY <1>4 DEF Earned, TxTypeOK
<1>7. CASE p.result \in {"CONTINUE", "READY"}
  <2>1. /\ history' = seen /\ history'.samples = samples
        /\ tx' = [next EXCEPT !.state = IF p.result = "READY" THEN "PLL_LOCKED" ELSE @]
    BY <1>2, <1>6, <1>7 DEF Earned, TxTypeOK
  <2>2. /\ tx'.state = IF p.result = "READY" THEN "PLL_LOCKED" ELSE "PLL_LOCK_PENDING"
        /\ tx'.lock = p.poll /\ tx'.image = tx.image
    BY <2>1, <1>2 DEF Earned, TxTypeOK
  <2>3. TxTypeOK'
    BY <2>1, <1>2, <1>4, <1>5 DEF Earned, TxTypeOK, States
  <2> DEFINE k == IF locked THEN tx.lock.ready + 1 ELSE 0
  <2>4. k <= Len(samples) /\ StableLock(samples, k) /\ k \in Nat
    <3> DEFINE sample == [ready |-> locked, late |-> late]
    <3>1. k \in Nat /\ ~late
      BY <1>3, <1>4, <1>7
    <3>2. /\ sample \in Sample /\ ~sample.late /\ sample.ready = locked
          /\ k = IF sample.ready THEN tx.lock.ready + 1 ELSE 0
      BY <3>1, <1>5 DEF Sample
    <3>3. samples = Append(history.samples, sample)
      OBVIOUS
    <3> HIDE DEF samples, k, sample
    <3> QED
      BY <3>1, <3>2, <3>3, <1>3, LongerRun
  <2> HIDE DEF samples
  <2>5. PollCounts'
    BY <2>1, <2>2, <2>4, <1>4, <1>7 DEF PollCounts
  <2>6. ImageHeld'
    BY <2>1, <2>2, <1>2 DEF Earned, TxTypeOK, ImageHeld, ApprovedImage
  <2>7. StatesAreEarned'
    <3>1. CASE p.result = "READY"
      <4>1. StableLock(samples, machine.in.policy.required)
        BY <3>1, <2>4, <1>1, <1>4, <1>5, ShorterRun
      <4> QED
        BY <3>1, <4>1, <2>1, <2>2, <1>2 DEF StatesAreEarned
    <3>2. CASE p.result # "READY"
      BY <3>2, <2>2 DEF StatesAreEarned
    <3> QED
      BY <3>1, <3>2
  <2> QED
    BY <2>2, <2>3, <2>5, <2>6, <2>7 DEF Earned, RestoredSince
<1>8. CASE p.result \notin {"CONTINUE", "READY"}
  <2>1. tx' = Fail(next) /\ history' = Owing(seen)
    BY <1>2, <1>8
  <2> HIDE DEF samples, next
  <2> QED
    BY <2>1, <1>2, <1>5, <1>6, EarnedFailure
<1> QED
  BY <1>7, <1>8

(* A failure that took no sample: the samples are as they were.             *)
LEMMA EarnedFailed ==
  ASSUME Earned, machine' = machine, tx' = Fail(tx), history' = Owing(history)
  PROVE  Earned'
<1>1. /\ history.samples \in Seq(Sample)
      /\ history = [history EXCEPT !.samples = history.samples]
  BY DEF Earned, TxTypeOK
<1>2. tx \in [state : States, restored : SUBSET RollbackStages, lock : Poll, range : {tx.range},
              crtc : {tx.crtc}, image : {tx.image}, pll : {tx.pll}, bytes : {tx.bytes}]
  BY DEF Earned, TxTypeOK
<1> QED
  BY <1>1, <1>2, EarnedFailure

(* The readback was of the image kept, which is the one approved if intact. *)
LEMMA EarnedReadBack ==
  ASSUME Earned, NEW seen, ReportPrimaryCRTCReadback(seen)
  PROVE  Earned'
<1>1. machine' = machine /\ tx.state = "PLL_LOCKED"
  BY DEF ReportPrimaryCRTCReadback
<1>2. CASE ReadsBack(tx.image, seen)
  <2>1. /\ tx' = [tx EXCEPT !.state = "PRIMARY_CRTC_VERIFIED"]
        /\ history' = [history EXCEPT !.readBack = ReadsBack(ApprovedImage, seen)]
    BY <1>2 DEF ReportPrimaryCRTCReadback
  <2>2. /\ tx'.state = "PRIMARY_CRTC_VERIFIED" /\ history'.samples = history.samples
        /\ history'.intact = history.intact
        /\ history'.readBack = ReadsBack(ApprovedImage, seen)
    BY <2>1 DEF Earned, TxTypeOK
  <2>3. TxTypeOK'
    BY <2>1, <1>1 DEF Earned, TxTypeOK, States
  <2>4. PollCounts' /\ ImageHeld' /\ RestoredSince'
    BY <2>2 DEF PollCounts, ImageHeld, RestoredSince
  <2>5. StatesAreEarned'
    BY <2>2, <1>1, <1>2 DEF Earned, ImageHeld, StatesAreEarned
  <2> QED
    BY <2>3, <2>4, <2>5 DEF Earned
<1>3. CASE ~ReadsBack(tx.image, seen)
  BY <1>1, <1>3, EarnedFailed DEF ReportPrimaryCRTCReadback
<1> QED
  BY <1>2, <1>3

LEMMA EarnedEnter ==
  ASSUME Earned, NEW succeeded \in BOOLEAN, ReportLinearModeEntry(succeeded)
  PROVE  Earned'
<1>1. machine' = machine /\ tx.state = "PRIMARY_CRTC_VERIFIED"
  BY DEF ReportLinearModeEntry
<1>2. CASE succeeded
  <2>1. /\ tx' = [tx EXCEPT !.state = "LINEAR_ACTIVE"]
        /\ history' = [history EXCEPT !.entered = TRUE]
    BY <1>2 DEF ReportLinearModeEntry
  <2>2. /\ tx'.state = "LINEAR_ACTIVE" /\ history'.samples = history.samples
        /\ history'.intact = history.intact /\ history'.readBack = history.readBack
        /\ history'.entered = TRUE
    BY <2>1 DEF Earned, TxTypeOK
  <2>3. TxTypeOK'
    BY <2>1, <1>1 DEF Earned, TxTypeOK, States
  <2>4. PollCounts' /\ ImageHeld' /\ RestoredSince'
    BY <2>2 DEF PollCounts, ImageHeld, RestoredSince
  <2>5. StatesAreEarned'
    BY <2>2, <1>1 DEF Earned, StatesAreEarned
  <2> QED
    BY <2>3, <2>4, <2>5 DEF Earned
<1>3. CASE ~succeeded
  BY <1>1, <1>3, EarnedFailed DEF ReportLinearModeEntry
<1> QED
  BY <1>2, <1>3

(* Nothing of the transaction changes.                                      *)
LEMMA EarnedIdle ==
  ASSUME Earned, UNCHANGED txVars
  PROVE  Earned'
<1>1. machine' = machine /\ tx' = tx /\ history' = history
  BY DEF txVars
<1>2. TxTypeOK' /\ PollCounts' /\ ImageHeld' /\ RestoredSince' /\ StatesAreEarned'
  BY <1>1 DEF Earned, TxTypeOK, PollCounts, ImageHeld, RestoredSince, StatesAreEarned,
              ApprovedImage
<1> QED
  BY <1>2 DEF Earned

LEMMA EarnedRequire ==
  ASSUME Earned, RequireModeRollback
  PROVE  Earned'
BY EarnedFailed, EarnedIdle DEF RequireModeRollback, txVars

(* A stage restored is marked in the object and in the history alike.       *)
LEMMA EarnedRestore ==
  ASSUME Earned, NEW stage \in RollbackStages, NEW restored \in BOOLEAN,
         ReportModeRollbackStage(stage, restored)
  PROVE  Earned'
<1>1. machine' = machine /\ tx.state = "ROLLBACK_REQUIRED"
  BY DEF ReportModeRollbackStage
<1>2. CASE restored
  <2>1. /\ tx' = [tx EXCEPT !.restored = @ \cup {stage}]
        /\ history' = [history EXCEPT !.restored = @ \cup {stage}]
    BY <1>2 DEF ReportModeRollbackStage
  <2>2. /\ tx'.state = "ROLLBACK_REQUIRED" /\ tx'.restored = tx.restored \cup {stage}
        /\ history'.restored = history.restored \cup {stage}
    BY <2>1, <1>1 DEF Earned, TxTypeOK
  <2>3. TxTypeOK'
    BY <2>1, <2>2, <1>1 DEF Earned, TxTypeOK
  <2>4. PollCounts' /\ ImageHeld' /\ StatesAreEarned'
    BY <2>2 DEF PollCounts, ImageHeld, StatesAreEarned
  <2>5. RestoredSince'
    BY <2>2, <1>1 DEF Earned, RestoredSince
  <2> QED
    BY <2>3, <2>4, <2>5 DEF Earned
<1>3. CASE ~restored
  BY <1>1, <1>3, EarnedIdle DEF ReportModeRollbackStage, txVars
<1> QED
  BY <1>2, <1>3

LEMMA EarnedComplete ==
  ASSUME Earned, CompleteModeRollback
  PROVE  Earned'
<1>1. TxTypeOK'
  BY DEF Earned, TxTypeOK, CompleteModeRollback, States
<1>2. /\ tx.state = "ROLLBACK_REQUIRED" /\ tx.restored = RollbackStages
      /\ tx'.state = "ROLLED_BACK" /\ history' = history
  BY DEF Earned, TxTypeOK, CompleteModeRollback
<1>3. PollCounts' /\ ImageHeld' /\ RestoredSince' /\ StatesAreEarned'
  BY <1>2 DEF Earned, PollCounts, ImageHeld, RestoredSince, StatesAreEarned
<1> QED
  BY <1>1, <1>3 DEF Earned
-----------------------------------------------------------------------------
LEMMA EarnedNext == Earned /\ [Next]_vars => Earned'
<1> SUFFICES ASSUME Earned, [Next]_vars PROVE Earned'
  OBVIOUS
<1>1. CASE Begin
  BY <1>1, EarnedBegin DEF Begin
<1>2. CASE BeginPLLLock
  BY <1>2, EarnedBeginPLLLock
<1>3. CASE Observe
  BY <1>3, EarnedObserve DEF Observe
<1>4. CASE ReadBack
  BY <1>4, EarnedReadBack DEF ReadBack
<1>5. CASE Enter
  BY <1>5, EarnedEnter DEF Enter
<1>6. CASE RequireModeRollback
  BY <1>6, EarnedRequire
<1>7. CASE Restore
  BY <1>7, EarnedRestore DEF Restore
<1>8. CASE CompleteModeRollback
  BY <1>8, EarnedComplete
<1>9. CASE UNCHANGED txVars
  BY <1>9, EarnedIdle
<1>10. TxNext \/ UNCHANGED txVars
  BY DEF Next, vars, txVars
<1> QED
  BY <1>1, <1>2, <1>3, <1>4, <1>5, <1>6, <1>7, <1>8, <1>9, <1>10 DEF TxNext

LEMMA EarnedAlways == Spec => []Earned
BY EarnedInit, EarnedNext, PTL DEF Spec

(* A state of the transaction says what was shown to it: the lock was ready *)
(* often enough and in time, the readback was of the image approved, the    *)
(* linear mode was entered, all stages were restored since the failure.     *)
THEOREM StatesAreEarnedAlways == Spec => []StatesAreEarned
<1>1. Earned => StatesAreEarned
  BY DEF Earned
<1> QED
  BY <1>1, EarnedAlways, PTL
-----------------------------------------------------------------------------
(* The ledger: what is live was issued, is not returned, and has an         *)
(* identifier no other surface ever had; what was issued lies before the    *)
(* front and apart.                                                         *)
Geometry == [width : Nat, height : Nat, stride : Nat, bytes : Nat]

LedgerTypeOK ==
  /\ ledger \in [arena : {ledger.arena}, used : {ledger.used}, alignment : {ledger.alignment},
                 next : 0..IdMax, live : {ledger.live}]
  /\ \A s \in issued : s.id \in 1..IdMax /\ s.geometry \in Geometry
  /\ \A s \in held : s.geometry \in Geometry

IssuedOnce ==
  /\ \A s, other \in issued : s.id = other.id => s = other
  /\ ledger.next # 0 => \A s \in issued : s.id < ledger.next
  /\ returned \subseteq {s.id : s \in issued}

LiveIsOwned == \A s \in ledger.live : Owned(s)

Placed ==
  /\ ledger.arena \in Nat /\ ledger.used \in 0..ledger.arena
  /\ starts \in [1..IdMax -> Nat]
  /\ \A s \in issued : EndOf(s) \in 0..ledger.used
  /\ \A s, other \in issued :
       s # other => EndOf(s) <= starts[other.id] \/ EndOf(other) <= starts[s.id]

Honest == LedgerTypeOK /\ IssuedOnce /\ LiveIsOwned /\ Placed

LEMMA HonestInit == Init => Honest
<1> SUFFICES ASSUME Init PROVE Honest
  OBVIOUS
<1> USE LedgerAssumption DEF Init, LedgerInit, NoLedger
<1>1. LedgerTypeOK /\ IssuedOnce /\ LiveIsOwned
  BY DEF LedgerTypeOK, IssuedOnce, LiveIsOwned
<1>2. Placed
  BY DEF Placed
<1> QED
  BY <1>1, <1>2 DEF Honest

LEMMA HonestInitialize ==
  ASSUME Honest, machine \in Machines, NEW arena \in machine.arenas, Initialize(arena)
  PROVE  Honest'
<1>1. arena.bytes \in Nat
  BY ProtocolAssumption
<1> USE LedgerAssumption DEF Initialize
<1>2. LedgerTypeOK' /\ IssuedOnce' /\ LiveIsOwned'
  BY DEF Honest, LedgerTypeOK, IssuedOnce, LiveIsOwned
<1>3. Placed'
  BY <1>1 DEF Placed
<1> QED
  BY <1>2, <1>3 DEF Honest

(* Up to the next boundary is no less, and a number.                        *)
LEMMA AlignedUp ==
  ASSUME NEW bytes \in Nat, NEW alignment \in PowersOfTwo
  PROVE  Aligned(bytes, alignment) \in Nat /\ bytes <= Aligned(bytes, alignment)
<1>1. alignment \in Nat \ {0}
  BY DEF PowersOfTwo
<1>2. (bytes % alignment) \in 0..alignment - 1
  BY <1>1
<1> QED
  BY <1>1, <1>2 DEF Aligned

(* The next identifier is above all others, or nought and nobody gets it.   *)
LEMMA HonestAllocate ==
  ASSUME Honest, NEW q \in Requests, Allocate(q)
  PROVE  Honest'
<1> DEFINE bytes == q.stride * 4 * q.height
           surface == [id |-> ledger.next, kernel |-> TRUE, outside |-> TRUE,
                       geometry |-> [width |-> q.width, height |-> q.height,
                                     stride |-> q.stride, bytes |-> bytes]]
<1>1. /\ ledger.next \in 1..IdMax /\ IdMax \in Nat
      /\ q \in [width : Nat, height : Nat, stride : Nat]
  BY LedgerAssumption DEF Allocate, CanAllocate, Honest, LedgerTypeOK
<1>2. surface.id = ledger.next /\ surface.geometry \in Geometry
  BY <1>1 DEF Geometry
<1>3. /\ ledger' = [ledger EXCEPT !.live = @ \cup {surface},
                                  !.next = (@ + 1) % (IdMax + 1),
                                  !.used = @ + Aligned(bytes, ledger.alignment)]
      /\ issued' = issued \cup {surface} /\ returned' = returned
      /\ held' = held \cup {surface}
      /\ starts' = [starts EXCEPT ![ledger.next] = ledger.used]
  BY DEF Allocate
<1> HIDE DEF surface
<1>4. /\ ledger'.live = ledger.live \cup {surface}
      /\ ledger'.next = (ledger.next + 1) % (IdMax + 1)
  BY <1>3 DEF Honest, LedgerTypeOK
<1>5. (ledger.next + 1) % (IdMax + 1) = IF ledger.next = IdMax THEN 0 ELSE ledger.next + 1
  BY <1>1
<1>6. LedgerTypeOK'
  <2>1. ledger'.next \in 0..IdMax
    BY <1>1, <1>4, <1>5
  <2>2. \A s \in issued' : s.id \in 1..IdMax /\ s.geometry \in Geometry
    BY <1>1, <1>2, <1>3 DEF Honest, LedgerTypeOK
  <2>3. ledger' \in [arena : {ledger'.arena}, used : {ledger'.used},
                     alignment : {ledger'.alignment}, next : {ledger'.next},
                     live : {ledger'.live}]
    BY <1>3 DEF Honest, LedgerTypeOK
  <2>4. \A s \in held' : s.geometry \in Geometry
    BY <1>2, <1>3 DEF Honest, LedgerTypeOK
  <2> QED
    BY <2>1, <2>2, <2>3, <2>4 DEF LedgerTypeOK
<1>7. \A s \in issued : s.id < ledger.next /\ s.id \in Nat
  BY <1>1 DEF Honest, LedgerTypeOK, IssuedOnce
<1>8. IssuedOnce'
  <2>1. \A s, other \in issued' : s.id = other.id => s = other
    BY <1>1, <1>2, <1>3, <1>7 DEF Honest, IssuedOnce
  <2>2. ledger'.next # 0 => \A s \in issued' : s.id < ledger'.next
    BY <1>1, <1>2, <1>3, <1>4, <1>5, <1>7
  <2>3. returned' \subseteq {s.id : s \in issued'}
    BY <1>3 DEF Honest, IssuedOnce
  <2> QED
    BY <2>1, <2>2, <2>3 DEF IssuedOnce
<1>9. LiveIsOwned'
  <2>1. surface.id \notin returned
    BY <1>1, <1>2, <1>7 DEF Honest, IssuedOnce
  <2> QED
    BY <2>1, <1>3, <1>4 DEF Honest, LiveIsOwned, Owned
<1>10. Placed'
  <2> DEFINE size == Aligned(bytes, ledger.alignment)
  <2>1. bytes \in Nat /\ ledger.alignment \in PowersOfTwo
    BY <1>1 DEF Allocate, CanAllocate
  <2>2. size \in Nat /\ size <= ledger.arena - ledger.used
    BY <2>1, AlignedUp DEF Allocate, CanAllocate, RequiredBytes
  <2>3. /\ ledger'.arena = ledger.arena /\ ledger'.alignment = ledger.alignment
        /\ ledger'.used = ledger.used + size
    BY <1>3 DEF Honest, LedgerTypeOK
  <2>4. ASSUME NEW s, s = surface
        PROVE  EndOf(s)' = ledger.used + size /\ starts'[s.id] = ledger.used
    <3>1. surface.geometry.bytes = bytes
      BY DEF surface
    <3>2. starts'[surface.id] = ledger.used
      BY <1>1, <1>2, <1>3 DEF Honest, Placed
    <3> QED
      BY <2>4, <3>1, <3>2, <2>3 DEF EndOf
  <2> HIDE DEF size
  <2>5. ASSUME NEW s \in issued
        PROVE  /\ EndOf(s)' = EndOf(s) /\ starts'[s.id] = starts[s.id]
               /\ EndOf(s) \in 0..ledger.used /\ s # surface
    <3>1. s.id # surface.id /\ s.id \in 1..IdMax
      BY <1>1, <1>2, <1>7 DEF Honest, LedgerTypeOK
    <3>2. starts'[s.id] = starts[s.id]
      BY <3>1, <1>2, <1>3 DEF Honest, Placed
    <3> QED
      BY <3>1, <3>2, <2>3 DEF EndOf, Honest, Placed
  <2>6. ledger'.used \in 0..ledger'.arena /\ ledger'.arena \in Nat
    BY <2>2, <2>3 DEF Honest, Placed
  <2>7. starts' \in [1..IdMax -> Nat]
    <3>1. starts \in [1..IdMax -> Nat] /\ ledger.used \in Nat
      BY DEF Honest, Placed
    <3> QED
      BY <3>1, <1>1, <1>3
  <2>8. \A s \in issued' : EndOf(s)' \in 0..ledger'.used
    <3> SUFFICES ASSUME NEW s \in issued' PROVE EndOf(s)' \in 0..ledger'.used
      OBVIOUS
    <3>1. ledger.used \in Nat
      BY DEF Honest, Placed
    <3>2. CASE s = surface
      BY <3>1, <3>2, <2>2, <2>3, <2>4
    <3>3. CASE s \in issued
      BY <3>1, <3>3, <2>2, <2>3, <2>5
    <3> QED
      BY <3>2, <3>3, <1>3
  <2>9. \A s, other \in issued' :
          s # other => EndOf(s)' <= starts'[other.id] \/ EndOf(other)' <= starts'[s.id]
    <3> SUFFICES ASSUME NEW s \in issued', NEW other \in issued', s # other
                 PROVE  EndOf(s)' <= starts'[other.id] \/ EndOf(other)' <= starts'[s.id]
      OBVIOUS
    <3>1. CASE s \in issued /\ other \in issued
      BY <3>1, <2>5 DEF Honest, Placed
    <3>2. CASE s = surface
      <4>1. other \in issued
        BY <3>2, <1>3
      <4> QED
        BY <3>2, <4>1, <2>4, <2>5
    <3>3. CASE other = surface
      <4>1. s \in issued
        BY <3>3, <1>3
      <4> QED
        BY <3>3, <4>1, <2>4, <2>5
    <3> QED
      BY <3>1, <3>2, <3>3, <1>3
  <2> QED
    BY <2>6, <2>7, <2>8, <2>9 DEF Placed
<1> QED
  BY <1>6, <1>8, <1>9, <1>10 DEF Honest

(* No other live surface has the identifier that is returned.               *)
LEMMA HonestRelease ==
  ASSUME Honest, NEW id, Release(id)
  PROVE  Honest'
<1>1. PICK s \in ledger.live :
        /\ s.id = id
        /\ ledger' = [ledger EXCEPT !.live = @ \ {s}]
        /\ returned' = returned \cup {id} /\ issued' = issued
        /\ held' = held /\ starts' = starts
  BY DEF Release
<1>2. /\ ledger'.live = ledger.live \ {s} /\ ledger'.next = ledger.next
      /\ ledger'.used = ledger.used /\ ledger'.arena = ledger.arena
      /\ ledger'.alignment = ledger.alignment
  BY <1>1 DEF Honest, LedgerTypeOK
<1>3. LedgerTypeOK'
  BY <1>1, <1>2 DEF Honest, LedgerTypeOK
<1>4. s \in issued
  BY DEF Honest, LiveIsOwned, Owned
<1>5. IssuedOnce'
  BY <1>1, <1>2, <1>4 DEF Honest, IssuedOnce
<1>6. LiveIsOwned'
  BY <1>1, <1>2, <1>4 DEF Honest, IssuedOnce, LiveIsOwned, Owned
<1>7. Placed'
  BY <1>1, <1>2 DEF Honest, Placed, EndOf
<1> QED
  BY <1>3, <1>5, <1>6, <1>7 DEF Honest

LEMMA HonestIdle ==
  ASSUME Honest, UNCHANGED ledgerVars
  PROVE  Honest'
<1>1. LedgerTypeOK' /\ IssuedOnce' /\ LiveIsOwned'
  BY DEF ledgerVars, Honest, LedgerTypeOK, IssuedOnce, LiveIsOwned, Owned
<1>2. Placed'
  BY DEF ledgerVars, Honest, Placed, EndOf
<1> QED
  BY <1>1, <1>2 DEF Honest

LEMMA HonestNext == Earned /\ Honest /\ [Next]_vars => Honest'
<1> SUFFICES ASSUME Earned, Honest, [Next]_vars PROVE Honest'
  OBVIOUS
<1>1. CASE \E arena \in machine.arenas : Initialize(arena)
  BY <1>1, HonestInitialize DEF Earned, TxTypeOK
<1>2. CASE LedgerNext
  BY <1>2, HonestAllocate, HonestRelease DEF LedgerNext
<1>3. CASE UNCHANGED ledgerVars
  BY <1>3, HonestIdle
<1> QED
  BY <1>1, <1>2, <1>3 DEF Next, vars, ledgerVars

LEMMA HonestAlways == Spec => []Honest
BY HonestInit, HonestNext, EarnedAlways, PTL DEF Spec

(* A rectangle inside a surface ends inside the surface's bytes.            *)
LEMMA InsideBytes ==
  ASSUME NEW s, s.geometry \in Geometry, NEW x \in Nat, NEW y \in Nat, NEW w \in Nat,
         NEW h \in Nat, ValidClear(s.geometry, x, y, w, h)
  PROVE  LastByte(s, x, y, w, h) <= AllottedBytes(s)
<1> DEFINE stride == s.geometry.stride
           height == s.geometry.height
<1>1. /\ stride \in Nat /\ height \in Nat /\ s.geometry.width \in Nat /\ s.geometry.bytes \in Nat
      /\ y + h <= height /\ x + w <= stride /\ h # 0
      /\ stride * 4 * height <= s.geometry.bytes
  BY DEF Geometry, ValidClear, ValidSurface, RequiredBytes
<1> HIDE DEF stride, height
<1>2. (y + h - 1) \in Nat /\ (y + h - 1) <= height - 1
  BY <1>1
<1>3. \A a, b, c \in Nat : a <= b => a * c <= b * c
  OBVIOUS
<1>4. height - 1 \in Nat
  BY <1>1, <1>2
<1>5. (y + h - 1) * stride <= (height - 1) * stride
  BY <1>1, <1>2, <1>3, <1>4
<1>6. (height - 1) * stride = height * stride - stride /\ stride * 4 * height = (height * stride) * 4
  BY <1>1
<1> DEFINE area == height * stride
           rows == (y + h - 1) * stride
<1>7. area \in Nat /\ rows \in Nat
  BY <1>1, <1>2
<1>8. rows <= area - stride /\ area * 4 <= s.geometry.bytes
  BY <1>1, <1>5, <1>6
<1>9. LastByte(s, x, y, w, h) = (rows + x + w) * 4
  BY DEF LastByte, stride
<1> HIDE DEF area, rows
<1>10. (rows + x + w) * 4 <= s.geometry.bytes
  BY <1>1, <1>7, <1>8
<1> QED
  BY <1>9, <1>10 DEF AllottedBytes

Rectangle == [x : Nat, y : Nat, w : Nat, h : Nat]

(* A clear that is admitted: in the linear mode, after a lock that was      *)
(* ready in time, on a surface the ledger issued and did not take back, and *)
(* inside its bytes.                                                        *)
DrawnSafely ==
  \A s, r : (r \in Rectangle /\ ClearAdmitted(tx.state, ledger, s, r)) =>
    /\ tx.state = "LINEAR_ACTIVE" /\ history.entered
    /\ StableLock(history.samples, machine.in.policy.required)
    /\ Owned(s)
    /\ LastByte(s, r.x, r.y, r.w, r.h) <= AllottedBytes(s)

LEMMA HonestDraws == StatesAreEarned /\ Honest => DrawnSafely
<1> SUFFICES ASSUME StatesAreEarned, Honest, NEW s, NEW r \in Rectangle,
                    ClearAdmitted(tx.state, ledger, s, r)
             PROVE  /\ tx.state = "LINEAR_ACTIVE" /\ history.entered
                    /\ StableLock(history.samples, machine.in.policy.required)
                    /\ Owned(s)
                    /\ LastByte(s, r.x, r.y, r.w, r.h) <= AllottedBytes(s)
  BY DEF DrawnSafely
<1>1. /\ tx.state = "LINEAR_ACTIVE" /\ s \in ledger.live
      /\ ValidClear(s.geometry, r.x, r.y, r.w, r.h)
  BY DEF ClearAdmitted, SurfaceAdmitted, LiveSurface
<1>2. history.entered /\ StableLock(history.samples, machine.in.policy.required)
  BY <1>1 DEF StatesAreEarned
<1>3. Owned(s) /\ s.geometry \in Geometry
  BY <1>1 DEF Honest, LiveIsOwned, Owned, LedgerTypeOK
<1>4. r.x \in Nat /\ r.y \in Nat /\ r.w \in Nat /\ r.h \in Nat
  BY DEF Rectangle
<1> QED
  BY <1>1, <1>2, <1>3, <1>4, InsideBytes

(* The transaction and the ledger together: whatever record a client        *)
(* presents, a clear is admitted only in a mode that was earned, on a       *)
(* surface that is its own, inside what it was allotted.                    *)
THEOREM DrawnSafelyAlways == Spec => []DrawnSafely
<1>1. StatesAreEarned /\ Honest => DrawnSafely
  BY HonestDraws
<1> QED
  BY <1>1, HonestAlways, StatesAreEarnedAlways, PTL DEF Spec
-----------------------------------------------------------------------------
(* The corner of a triangle is a pixel of its surface.                      *)
LEMMA CornerInside ==
  ASSUME NEW s, s.geometry \in Geometry, NEW p \in Int \X Int, ValidSurface(s.geometry),
         InsideSurface(s.geometry, p)
  PROVE  LastByte(s, p[1], p[2], 1, 1) \in 4..AllottedBytes(s)
<1>1. p[1] \in Nat /\ p[2] \in Nat
  BY DEF InsideSurface
<1>2. ValidClear(s.geometry, p[1], p[2], 1, 1)
  BY <1>1 DEF ValidClear, InsideSurface, Geometry
<1>3. LastByte(s, p[1], p[2], 1, 1) <= AllottedBytes(s)
  BY <1>1, <1>2, InsideBytes
<1>4. p[2] * s.geometry.stride \in Nat
  BY <1>1 DEF Geometry
<1>5. LastByte(s, p[1], p[2], 1, 1) = (p[2] * s.geometry.stride + p[1] + 1) * 4
  BY <1>1 DEF LastByte, Geometry
<1> DEFINE rows == p[2] * s.geometry.stride
<1>6. AllottedBytes(s) \in Nat
  BY DEF AllottedBytes, Geometry
<1> HIDE DEF rows
<1>7. (rows + p[1] + 1) * 4 \in Nat /\ (rows + p[1] + 1) * 4 >= 4
  BY <1>1, <1>4 DEF rows
<1> QED
  BY <1>3, <1>5, <1>6, <1>7 DEF rows

LEMMA LiveIsSound ==
  ASSUME Honest, NEW s, SurfaceAdmitted(tx.state, ledger, s)
  PROVE  tx.state = "LINEAR_ACTIVE" /\ Owned(s) /\ s.geometry \in Geometry
<1>1. s \in ledger.live /\ tx.state = "LINEAR_ACTIVE"
  BY DEF SurfaceAdmitted, LiveSurface
<1> QED
  BY <1>1 DEF Honest, LiveIsOwned, Owned, LedgerTypeOK

LEMMA HonestAdmits == Honest => AdmittedIsLive
<1> SUFFICES ASSUME Honest PROVE AdmittedIsLive
  OBVIOUS
<1>1. \A r \in Rectangles : r.x \in Nat /\ r.y \in Nat /\ r.w \in Nat /\ r.h \in Nat
  BY ProtocolAssumption
<1>2. ASSUME NEW s, NEW r \in Rectangles, ClearAdmitted(tx.state, ledger, s, r)
      PROVE  /\ tx.state = "LINEAR_ACTIVE" /\ Owned(s)
             /\ LastByte(s, r.x, r.y, r.w, r.h) <= AllottedBytes(s)
  <2>1. tx.state = "LINEAR_ACTIVE" /\ Owned(s) /\ s.geometry \in Geometry
    BY <1>2, LiveIsSound DEF ClearAdmitted
  <2> QED
    BY <2>1, <1>1, <1>2, InsideBytes DEF ClearAdmitted
<1>3. ASSUME NEW from, NEW to, NEW r \in Rectangles,
             CopyAdmitted(tx.state, ledger, from, r, to, r.y, r.x)
      PROVE  /\ tx.state = "LINEAR_ACTIVE" /\ Owned(from) /\ Owned(to) /\ from # to
             /\ LastByte(from, r.x, r.y, r.w, r.h) <= AllottedBytes(from)
             /\ LastByte(to, r.y, r.x, r.w, r.h) <= AllottedBytes(to)
  <2>1. /\ ValidClear(from.geometry, r.x, r.y, r.w, r.h)
        /\ ValidClear(to.geometry, r.y, r.x, r.w, r.h)
        /\ from # to
    BY <1>3 DEF CopyAdmitted
  <2>2. tx.state = "LINEAR_ACTIVE" /\ Owned(from) /\ from.geometry \in Geometry
    BY <1>3, LiveIsSound DEF CopyAdmitted
  <2>3. Owned(to) /\ to.geometry \in Geometry
    BY <1>3, LiveIsSound DEF CopyAdmitted
  <2>4. LastByte(from, r.x, r.y, r.w, r.h) <= AllottedBytes(from)
    BY <1>1, <2>1, <2>2, InsideBytes
  <2>5. LastByte(to, r.y, r.x, r.w, r.h) <= AllottedBytes(to)
    BY <1>1, <2>1, <2>3, InsideBytes
  <2> QED
    BY <2>1, <2>2, <2>3, <2>4, <2>5
<1>4. ASSUME NEW s \in held, NEW a \in Corners, NEW b \in Corners, NEW c \in Corners,
             ValidTriangle(s.geometry, a, b, c), NEW p \in {a, b, c}
      PROVE  LastByte(s, p[1], p[2], 1, 1) \in 4..AllottedBytes(s)
  <2>1. s.geometry \in Geometry /\ p \in Int \X Int
    BY ProtocolAssumption DEF Honest, LedgerTypeOK
  <2>2. ValidSurface(s.geometry) /\ InsideSurface(s.geometry, p)
    BY <1>4 DEF ValidTriangle
  <2> QED
    BY <2>1, <2>2, CornerInside
<1>5. \A s, other \in issued : s.id = other.id => s = other
  BY DEF Honest, IssuedOnce
<1>6. \A s \in issued : EndOf(s) <= ledger.arena
  BY DEF Honest, Placed
<1>7. \A s, other \in issued :
        s # other => EndOf(s) <= starts[other.id] \/ EndOf(other) <= starts[s.id]
  BY DEF Honest, Placed
<1> QED
  BY <1>2, <1>3, <1>4, <1>5, <1>6, <1>7 DEF AdmittedIsLive

(* What a client presents and is admitted is live, its own and unchanged,   *)
(* is drawn inside its bytes, and its bytes are nobody else's: clears,      *)
(* copies and triangles, for any arena, identifiers and number of surfaces. *)
THEOREM AdmittedIsLiveAlways == Spec => []AdmittedIsLive
BY HonestAlways, HonestAdmits, PTL
-----------------------------------------------------------------------------
(* A quotient grows with what is divided.                                    *)
LEMMA Monotone ==
  ASSUME NEW n \in Nat \ {0}, NEW u \in Nat, NEW v \in Nat, u <= v
  PROVE  u \div n <= v \div n
OBVIOUS

(* A quotient, without the division.                                         *)
LEMMA Cut ==
  ASSUME NEW n \in Nat \ {0}, NEW u \in Nat, NEW a \in Int, a = u \div n
  PROVE  a \in Nat /\ n * a <= u /\ u < n * a + n
OBVIOUS

(* A common factor taken away from an inequality.                            *)
LEMMA Above ==
  ASSUME NEW n \in Nat \ {0}, NEW s \in Int, NEW t \in Int, n * s <= n * t
  PROVE  s <= t
OBVIOUS

(* The same of a strict one.                                                 *)
LEMMA AboveStrict ==
  ASSUME NEW n \in Nat \ {0}, NEW s \in Int, NEW t \in Int, n * s < n * t
  PROVE  s < t
OBVIOUS

(* What is left of half a part of 54 MHz over n is a multiple of what the    *)
(* rounding works in, but for reference 7 with post divider 2 or 4: a        *)
(* feedback divider that rounds below the clock is never half a unit worse   *)
(* than the next above.                                                      *)
LEMMA LuckyAt ==
  ASSUME NEW p \in {2, 4, 8, 16}, NEW r \in 1..10, ~(r = 7 /\ p \in {2, 4}),
         NEW n \in Nat, n = p * r, NEW k \in Nat, k = (54000 \div n + 1) \div 2,
         NEW q \in Nat, NEW g \in Nat, NEW rho \in Int, 
         rho = n * q - 54000 * g, rho > 0, rho < 27000
  PROVE  rho <= n * k /\ n * k <= 54000 - rho
<1>1. CASE r = 1
  BY <1>1
<1>2. CASE r = 2
  BY <1>2
<1>3. CASE r = 3
  BY <1>3
<1>4. CASE r = 4
  BY <1>4
<1>5. CASE r = 5
  BY <1>5
<1>6. CASE r = 6
  BY <1>6
<1>7. CASE r = 7
  BY <1>7
<1>8. CASE r = 8
  BY <1>8
<1>9. CASE r = 9
  BY <1>9
<1>10. CASE r = 10
  BY <1>10
<1> QED
  BY <1>1, <1>2, <1>3, <1>4, <1>5, <1>6, <1>7, <1>8, <1>9, <1>10

(* What is made with f parts of 54 MHz over n.                               *)
Made(f, n) == (54000 * f) \div n

(* What is made, without the division.                                       *)
LEMMA MadeCut ==
  ASSUME NEW n \in Nat \ {0}, NEW f \in Nat
  PROVE  Made(f, n) \in Nat /\ n * Made(f, n) <= 54000 * f /\ 54000 * f < n * Made(f, n) + n
BY DEF Made

(* A greater feedback divider makes no less.                                 *)
LEMMA MadeGrows ==
  ASSUME NEW n \in Nat \ {0}, NEW f \in Nat, NEW g \in Nat, f <= g
  PROVE  Made(f, n) <= Made(g, n)
<1>1. 54000 * f <= 54000 * g /\ 54000 * f \in Nat /\ 54000 * g \in Nat
  OBVIOUS
<1> QED
  BY <1>1, Monotone DEF Made

(* Dividing by the reference and then by the post divider is dividing by     *)
(* both.                                                                     *)
LEMMA CutTwice ==
  ASSUME NEW p \in Nat \ {0}, NEW r \in Nat \ {0}, NEW u \in Nat
  PROVE  (u \div r) \div p = u \div (p * r)
<1>1. PICK v \in Int : v = u \div r
  OBVIOUS
<1>2. PICK w \in Int : w = v \div p
  BY <1>1
<1>3. v \in Nat /\ r * v <= u /\ u < r * v + r
  BY <1>1, Cut
<1>4. w \in Nat /\ p * w <= v /\ v < p * w + p
  BY <1>2, <1>3, Cut
<1>5. PICK n \in Nat \ {0} : n = p * r
  OBVIOUS
<1>6. PICK a \in Int : a = u \div n
  BY <1>5
<1>7. a \in Nat /\ n * a <= u /\ u < n * a + n
  BY <1>6, Cut
<1>8. r * (p * w) = n * w /\ r * (p * w + p) = n * w + n /\ n * (w + 1) = n * w + n
  BY <1>4, <1>5
<1>9. n * w <= u
  <2>1. r * (p * w) <= r * v
    BY <1>4
  <2> QED
    BY <2>1, <1>3, <1>8, <1>4, <1>5
<1>10. u < n * w + n
  <2>1. v + 1 <= p * w + p
    BY <1>4
  <2>2. r * (v + 1) <= r * (p * w + p)
    BY <2>1, <1>4
  <2>3. r * (v + 1) = r * v + r
    BY <1>3
  <2> QED
    BY <2>2, <2>3, <1>3, <1>8, <1>4, <1>5
<1>11. w < a + 1
  <2>1. n * w < n * (a + 1)
    BY <1>9, <1>7
  <2> QED
    BY <2>1, AboveStrict, <1>4, <1>7
<1>12. a < w + 1
  <2>1. n * a < n * (w + 1)
    BY <1>10, <1>7, <1>8
  <2> QED
    BY <2>1, AboveStrict, <1>4, <1>7
<1>13. a = w
  BY <1>11, <1>12, <1>4, <1>7
<1> QED
  BY <1>13, <1>1, <1>2, <1>5, <1>6

(* So what a VCO gives after its post divider is what is made over both.     *)
LEMMA MadeOfBoth ==
  ASSUME NEW p \in Nat \ {0}, NEW r \in Nat \ {0}, NEW f \in Nat
  PROVE  Vco(f, r) \div p = Made(f, p * r)
<1>1. PICK u \in Nat : u = 54000 * f
  OBVIOUS
<1>2. Vco(f, r) = u \div r /\ Made(f, p * r) = u \div (p * r)
  BY <1>1 DEF Vco, Reference, Made
<1>3. (u \div r) \div p = u \div (p * r)
  BY CutTwice
<1> QED
  BY <1>2, <1>3

(* Of two feedback dividers, the nearest to a number below it.               *)
LEMMA NearestBelow ==
  ASSUME NEW n \in Nat \ {0}, NEW q \in Nat, NEW g \in Nat, NEW f \in Nat, f < g,
         54000 * g <= n * q + 27000
  PROVE  Distance(Made(g, n), q) <= Distance(Made(f, n), q)
<1> DEFINE a == Made(g, n)  b == Made(f, n)
<1>1. a \in Nat /\ b \in Nat /\ b <= a /\ n * a <= 54000 * g /\ n * b <= 54000 * f
  <2>1. a \in Nat /\ n * a <= 54000 * g
    BY MadeCut
  <2>2. b \in Nat /\ n * b <= 54000 * f
    BY MadeCut
  <2>3. b <= a
    BY MadeGrows
  <2> QED
    BY <2>1, <2>2, <2>3
<1> HIDE DEF a, b
<1>2. ASSUME a > q PROVE a + b <= 2 * q
  <2>1. n * (a + b) = n * a + n * b /\ n * (2 * q) = 2 * (n * q)
    BY <1>1
  <2>2. n * (a + b) <= n * (2 * q)
    <3>1. PICK na \in Int, nb \in Int, nq \in Int : na = n * a /\ nb = n * b /\ nq = n * q
      BY <1>1
    <3>2. na + nb <= 2 * nq
      BY <1>1, <3>1
    <3> QED
      BY <2>1, <3>1, <3>2
  <2> QED
    BY <1>1, <2>2, Above
<1>3. Distance(a, q) <= Distance(b, q)
  BY <1>1, <1>2 DEF Distance
<1> QED
  BY <1>3 DEF a, b

(* Where the next divider above is at least as far off as one that is        *)
(* short: k is half of 54 MHz over n, rounded.                               *)
Halfway(n, q, g, k) ==
  Made(g, n) < q => n * q - 54000 * g <= n * k /\ n * k <= 54000 - (n * q - 54000 * g)

(* Where that holds, no greater feedback divider is nearer.                  *)
LEMMA NearestAbove ==
  ASSUME NEW n \in Nat \ {0}, NEW q \in Nat, NEW g \in Nat, NEW f \in Nat, f > g,
         NEW k \in Nat, Halfway(n, q, g, k)
  PROVE  Distance(Made(g, n), q) <= Distance(Made(f, n), q)
<1>a. PICK a \in Nat : a = Made(g, n) /\ n * a <= 54000 * g /\ 54000 * g < n * a + n
  BY MadeCut
<1>m. Made(f, n) \in Nat /\ n * Made(f, n) <= 54000 * f /\ 54000 * f < n * Made(f, n) + n
  BY ONLY MadeCut, n \in Nat \ {0}, f \in Nat
<1>c. PICK b \in Nat : b = Made(f, n)
  BY <1>m
<1>b. b = Made(f, n) /\ n * b <= 54000 * f /\ 54000 * f < n * b + n
  BY <1>m, <1>c
<1>1. a <= b
  <2>1. Made(g, n) <= Made(f, n)
    BY MadeGrows
  <2> QED
    BY <2>1, <1>a, <1>b
<1>2. CASE ~(a < q)
  <2>1. Distance(a, q) <= Distance(b, q)
    BY <1>1, <1>2 DEF Distance
  <2> QED
    BY <2>1, <1>a, <1>b
<1>3. CASE a < q
  <2>1. n * q - 54000 * g <= n * k /\ n * k <= 54000 - (n * q - 54000 * g)
    BY <1>3, <1>a DEF Halfway
  <2>2. q - k <= a
    <3>1. n * q - n * k <= 54000 * g /\ n * (q - k) = n * q - n * k
      BY <2>1
    <3>2. n * (q - k) < n * (a + 1)
      BY <3>1, <1>a, <1>b
    <3>3. q - k < a + 1
      BY <3>2, AboveStrict, <1>1
    <3> QED
      BY <3>3, <1>1
  <2>3. q + k <= b
    <3>1. n * q + n * k <= 54000 * f /\ n * (q + k) = n * q + n * k
      BY <2>1
    <3>2. n * (q + k) < n * (b + 1)
      BY <3>1, <1>a, <1>b
    <3>3. q + k < b + 1
      BY <3>2, AboveStrict, <1>1
    <3> QED
      BY <3>3, <1>1
  <2>4. Distance(a, q) <= Distance(b, q)
    BY <2>2, <2>3, <1>1, <1>3 DEF Distance
  <2> QED
    BY <2>4, <1>a, <1>b
<1> QED
  BY <1>2, <1>3

(* A feedback divider g is the clock q over n, rounded: half up.             *)
Rounds(g, n, q) == 54000 * g <= n * q + 27000 /\ n * q < 54000 * g + 27000

(* The feedback divider planned is that, over both dividers.                 *)
LEMMA FeedbackRounds ==
  ASSUME NEW q \in Nat, NEW p \in Nat \ {0}, NEW r \in Nat \ {0}
  PROVE  Feedback(q, p, r) \in Nat /\ Rounds(Feedback(q, p, r), p * r, q)
<1>1. q * p * r = (p * r) * q /\ (p * r) * q \in Nat
  OBVIOUS
<1> QED
  BY <1>1 DEF Feedback, Reference, Rounds

(* The same, written out.                                                    *)
LEMMA FeedbackCuts ==
  ASSUME NEW q \in Nat, NEW p \in Nat \ {0}, NEW r \in Nat \ {0}
  PROVE  /\ Feedback(q, p, r) \in Nat
         /\ 54000 * Feedback(q, p, r) <= (p * r) * q + 27000
         /\ (p * r) * q < 54000 * Feedback(q, p, r) + 27000
BY FeedbackRounds DEF Rounds

(* Over 20 and 40, which is reference 10, it is at most half a step off.     *)
LEMMA Coarse ==
  ASSUME NEW n \in {20, 40}, NEW q \in Nat, NEW g \in Nat,
         54000 * g <= n * q + 27000, n * q < 54000 * g + 27000
  PROVE  Distance(Made(g, n), q) * n <= 27000
<1>1. Made(g, n) \in Nat /\ n * Made(g, n) <= 54000 * g /\ 54000 * g < n * Made(g, n) + n
  BY MadeCut
<1> QED
  BY <1>1 DEF Distance

(* With a post divider and any reference and feedback, the rounded divider   *)
(* of that reference is no further off; of reference 7 it may be, by a       *)
(* kilohertz, and then that of reference 10 is not.                          *)
LEMMA NearestOfAll ==
  ASSUME NEW q \in Nat, NEW p \in PostDividers, NEW r \in 1..10, NEW f \in Nat
  PROVE  \E ref \in {r, 10} :
           Distance(Made(Feedback(q, p, ref), p * ref), q) <= Distance(Made(f, p * r), q)
<1>1. p \in {2, 4, 8, 16} /\ p \in Nat \ {0} /\ r \in Nat \ {0}
  BY DEF PostDividers
<1>2. PICK n \in Nat \ {0} : n = p * r
  BY <1>1
<1>3. PICK g \in Nat : g = Feedback(q, p, r)
  BY <1>1, FeedbackCuts
<1>4. 54000 * g <= n * q + 27000 /\ n * q < 54000 * g + 27000
  BY <1>1, <1>2, <1>3, FeedbackCuts
<1>rho. PICK rho \in Int : rho = n * q - 54000 * g
  OBVIOUS
<1>5. Made(g, n) \in Nat /\ n * Made(g, n) <= 54000 * g /\ 54000 * g < n * Made(g, n) + n
  BY MadeCut
<1> DEFINE Near(ref) ==
      Distance(Made(Feedback(q, p, ref), p * ref), q) <= Distance(Made(f, p * r), q)
<1>6. ASSUME Distance(Made(g, n), q) <= Distance(Made(f, n), q)
      PROVE  Near(r)
  BY <1>2, <1>3, <1>6
<1>7. CASE f = g
  <2>1. Distance(Made(g, n), q) <= Distance(Made(f, n), q)
    BY <1>7, <1>5 DEF Distance
  <2> QED
    BY <2>1, <1>6
<1>8. CASE f < g
  <2>1. Distance(Made(g, n), q) <= Distance(Made(f, n), q)
    BY <1>8, <1>4, NearestBelow
  <2> QED
    BY <2>1, <1>6
<1>9. CASE f > g /\ ~(r = 7 /\ p \in {2, 4})
  <2>0. PICK k \in Nat : k = (54000 \div n + 1) \div 2
    OBVIOUS
  <2>1. ASSUME Made(g, n) < q
        PROVE  rho <= n * k /\ n * k <= 54000 - rho
    <3>1. n * q > 54000 * g
      <4>1. 54000 * g < n * (Made(g, n) + 1) /\ Made(g, n) + 1 <= q
        BY <1>5, <2>1
      <4>2. n * (Made(g, n) + 1) <= n * q
        BY <4>1, <1>5
      <4> QED
        BY <4>1, <4>2, <1>5
    <3>3. rho > 0 /\ rho < 27000
      BY <1>4, <3>1, <1>rho
    <3>4. rho <= n * k /\ n * k <= 54000 - rho
      BY <1>1, <1>2, <1>9, <1>rho, <2>0, <3>3, LuckyAt
    <3> QED
      BY <3>4
  <2>2. Halfway(n, q, g, k)
    BY <2>1, <1>rho DEF Halfway
  <2>3. Distance(Made(g, n), q) <= Distance(Made(f, n), q)
    BY <1>9, <2>2, NearestAbove
  <2> QED
    BY <2>3, <1>6
<1>10. CASE f > g /\ r = 7 /\ p \in {2, 4}
  <2>1. CASE ~(Made(g, n) < q)
    <3>0. Halfway(n, q, g, 0)
      BY <2>1 DEF Halfway
    <3>1. Distance(Made(g, n), q) <= Distance(Made(f, n), q)
      BY <3>0, <1>10, NearestAbove
    <3> QED
      BY <3>1, <1>6
  <2>2. CASE Made(g, n) < q
    <3>w. Feedback(q, p, 10) \in Nat /\ Rounds(Feedback(q, p, 10), p * 10, q)
      <4>1. 10 \in Nat \ {0}
        OBVIOUS
      <4> QED
        BY <1>1, <4>1, FeedbackRounds, Zenon
    <3>1. PICK h \in Nat : h = Feedback(q, p, 10)
      BY <3>w
    <3>2. PICK nh \in {20, 40} : nh = p * 10
      BY <1>10
    <3>3. 54000 * h <= nh * q + 27000 /\ nh * q < 54000 * h + 27000
      BY <3>w, <3>1, <3>2 DEF Rounds
    <3>4. Distance(Made(h, nh), q) * nh <= 27000
      BY <3>3, Coarse
    <3>5. Made(h, nh) \in Nat /\ Made(f, n) \in Nat /\ 54000 * f < n * Made(f, n) + n
      <4>1. nh \in Nat \ {0}
        OBVIOUS
      <4>2. Made(h, nh) \in Nat
        BY <4>1, MadeCut
      <4>3. Made(f, n) \in Nat /\ 54000 * f < n * Made(f, n) + n
        BY MadeCut
      <4> QED
        BY <4>2, <4>3
    <3>6. (n = 14 /\ nh = 20) \/ (n = 28 /\ nh = 40)
      BY <1>2, <1>10, <3>2
    <3>7. Distance(Made(h, nh), q) <= Distance(Made(f, n), q)
      <4>1. Distance(Made(h, nh), q) \in Nat
        BY <3>5 DEF Distance
      <4>2. PICK b \in Nat : b = Made(f, n)
        BY <3>5
      <4>3. 54000 * f >= 54000 * g + 54000
        BY <1>10
      <4>4. CASE n = 14 /\ nh = 20
        <5>1. b >= q + 1927 /\ Distance(Made(h, nh), q) <= 1350
          BY <4>1, <4>2, <4>3, <4>4, <3>4, <3>5, <1>4
        <5> QED
          BY <5>1, <4>1, <4>2 DEF Distance
      <4>5. CASE n = 28 /\ nh = 40
        <5>1. b >= q + 962 /\ Distance(Made(h, nh), q) <= 675
          BY <4>1, <4>2, <4>3, <4>5, <3>4, <3>5, <1>4
        <5> QED
          BY <5>1, <4>1, <4>2 DEF Distance
      <4> QED
        BY <3>6, <4>4, <4>5
    <3>8. Near(10)
      BY <3>1, <3>2, <3>7, <1>2
    <3> QED
      BY <3>8
  <2> QED
    BY <2>1, <2>2
<1> QED
  BY <1>4, <1>7, <1>8, <1>9, <1>10

-----------------------------------------------------------------------------
(* The window of the VCO, as two inequalities.                               *)
LEMMA Window ==
  ASSUME NEW c \in Int
  PROVE  c \in VcoMin..VcoMax <=> (c >= 256000 /\ c <= 1300000)
<1>1. PICK lo \in Int, hi \in Int : lo = VcoMin /\ hi = VcoMax
  BY DEF VcoMin, VcoMax
<1>2. c \in VcoMin..VcoMax <=> (c >= lo /\ c <= hi)
  <2>1. c \in lo..hi <=> (c >= lo /\ c <= hi)
    OBVIOUS
  <2> QED
    BY <1>1, <2>1
<1>3. lo = 256000 /\ hi = 1300000
  BY <1>1 DEF VcoMin, VcoMax
<1> QED
  BY <1>2, <1>3

(* What is made is a number of kilohertz.                                    *)
LEMMA MadeIsNat ==
  ASSUME NEW n \in Nat \ {0}, NEW f \in Nat
  PROVE  Made(f, n) \in Nat
BY DEF Made

(* A post divider that puts the VCO in its window has, with each reference,  *)
(* a feedback divider its register can hold: it is a setting the planner     *)
(* looks at.                                                                 *)
LEMMA InDividers ==
  ASSUME NEW q \in Nat, NEW p \in PostDividers, NEW r \in 1..10, q * p \in VcoMin..VcoMax
  PROVE  <<p, r>> \in Dividers(q)
<1>1. p \in {2, 4, 8, 16} /\ p \in Nat \ {0} /\ r \in Nat \ {0}
  BY DEF PostDividers
<1>c. PICK c \in Nat : c = q * p
  BY <1>1
<1>w. c >= 256000 /\ c <= 1300000 /\ c <= WordMax /\ WordMax \in Nat
  <2>1. c \in VcoMin..VcoMax
    BY <1>c
  <2> QED
    <3>1. c >= 256000 /\ c <= 1300000
      BY <2>1, Window
    <3>2. 1300000 <= WordMax /\ WordMax \in Nat
      BY WordAssumption, VcoAssumption DEF VcoMax
    <3> QED
      BY <3>1, <3>2
<1>2. q <= WordMax \div p
  <2>1. WordMax \in Nat /\ q * p <= WordMax
    BY <1>c, <1>w
  <2>2. CASE p = 2
    BY <2>1, <2>2
  <2>3. CASE p = 4
    BY <2>1, <2>3
  <2>4. CASE p = 8
    BY <2>1, <2>4
  <2>5. CASE p = 16
    BY <2>1, <2>5
  <2> QED
    BY <1>1, <2>2, <2>3, <2>4, <2>5
<1>3. Feedback(q, p, r) \in 2..257
  <2>1. PICK g \in Nat : g = Feedback(q, p, r)
    BY <1>1, FeedbackCuts
  <2>3. (p * r) * q = c * r
    BY <1>1, <1>c
  <2>4. 54000 * g <= c * r + 27000 /\ c * r < 54000 * g + 27000
    <3>1. PICK n \in Nat \ {0} : n = p * r
      BY <1>1
    <3>2. 54000 * g <= n * q + 27000 /\ n * q < 54000 * g + 27000
      BY ONLY <1>1, <2>1, <3>1, FeedbackCuts, q \in Nat
    <3> QED
      BY <3>1, <3>2, <2>3
  <2>6. c * r >= 256000 /\ c * r <= 13000000
    BY <1>w
  <2>7. PICK t \in Nat : t = c * r
    BY <1>1
  <2> QED
    BY <2>1, <2>4, <2>6, <2>7
<1> QED
  BY <1>2, <1>3 DEF Dividers

(* How far such a setting is off.                                            *)
LEMMA CandidateError ==
  ASSUME NEW q \in Nat, NEW p \in PostDividers, NEW r \in 1..10
  PROVE  /\ ErrorOf(Candidate(q, p, r)) = Distance(Made(Feedback(q, p, r), p * r), q)
         /\ ErrorOf(Candidate(q, p, r)) \in Nat
<1>1. p \in {2, 4, 8, 16} /\ p \in Nat \ {0} /\ r \in Nat \ {0} /\ p * r \in Nat \ {0}
  BY DEF PostDividers
<1>2. PICK g \in Nat : g = Feedback(q, p, r)
  BY <1>1, FeedbackCuts
<1>3. Vco(g, r) \div p = Made(g, p * r)
  BY <1>1, MadeOfBoth
<1>4. Made(g, p * r) \in Nat
  <2>1. PICK n \in Nat \ {0} : n = p * r
    BY <1>1
  <2>2. Made(g, n) \in Nat
    BY MadeCut
  <2> QED
    BY <2>1, <2>2
<1>5. Distance(Made(g, p * r), q) \in Nat
  BY <1>4 DEF Distance
<1> QED
  BY <1>2, <1>3, <1>5 DEF Candidate, ErrorOf

(* A feedback and a divider multiplied by the same make the same.            *)
LEMMA Scaled ==
  ASSUME NEW m \in Nat \ {0}, NEW n \in Nat \ {0}, NEW f \in Nat
  PROVE  Made(m * f, m * n) = Made(f, n)
<1>1. PICK a \in Int : a = Made(f, n)
  BY MadeCut
<1>2. PICK k \in Nat \ {0} : k = m * n
  OBVIOUS
<1>3. PICK h \in Nat : h = m * f
  OBVIOUS
<1>4. PICK b \in Int : b = Made(h, k)
  BY MadeCut
<1>5. a \in Nat /\ n * a <= 54000 * f /\ 54000 * f < n * a + n
  BY <1>1, MadeCut
<1>6. b \in Nat /\ k * b <= 54000 * h /\ 54000 * h < k * b + k
  BY <1>4, MadeCut
<1>7. k * a <= 54000 * h /\ 54000 * h < k * (a + 1)
  <2>1. m * (n * a) <= m * (54000 * f)
    BY <1>5
  <2>2. m * (54000 * f) < m * (n * a + n)
    BY <1>5
  <2>3. m * (n * a) = k * a /\ m * (54000 * f) = 54000 * h /\ m * (n * a + n) = k * (a + 1)
    BY <1>2, <1>3, <1>5
  <2> QED
    BY <2>1, <2>2, <2>3
<1>8. k * (b + 1) = k * b + k
  BY <1>6
<1>9. a < b + 1
  <2>1. k * a < k * (b + 1)
    BY <1>6, <1>7, <1>8
  <2> QED
    BY <2>1, AboveStrict, <1>5, <1>6
<1>10. b < a + 1
  <2>1. k * b < k * (a + 1)
    BY <1>6, <1>7
  <2> QED
    BY <2>1, AboveStrict, <1>5, <1>6
<1>11. a = b
  BY <1>5, <1>6, <1>9, <1>10
<1> QED
  BY <1>1, <1>2, <1>3, <1>4, <1>11

(* In the window: any setting is matched by one the planner looks at.        *)
LEMMA InWindow ==
  ASSUME NEW q \in Nat, NEW p \in PostDividers, q * p \in VcoMin..VcoMax,
         NEW r \in 1..10, NEW f \in Nat
  PROVE  \E d \in Dividers(q) :
           ErrorOf(Candidate(q, d[1], d[2])) <= Distance(Made(f, p * r), q)
<1>1. PICK ref \in {r, 10} :
        Distance(Made(Feedback(q, p, ref), p * ref), q) <= Distance(Made(f, p * r), q)
  BY NearestOfAll
<1>2. ref \in 1..10
  OBVIOUS
<1>3. <<p, ref>> \in Dividers(q)
  BY <1>2, InDividers, Zenon
<1>4. ErrorOf(Candidate(q, p, ref)) <= Distance(Made(f, p * r), q)
  <2>1. ErrorOf(Candidate(q, p, ref)) = Distance(Made(Feedback(q, p, ref), p * ref), q)
    BY <1>2, CandidateError, Zenon
  <2> QED
    BY <1>1, <2>1
<1> QED
  BY <1>3, <1>4

(* And so is every setting of the hardware whose VCO stays under the top of  *)
(* the window, whatever its post divider: outside the window, below it,      *)
(* another post divider reaches the same clock with a faster VCO.            *)
LEMMA RivalIsBeaten ==
  ASSUME NEW q \in Nat, Dividers(q) # {}, NEW p \in PostDividers, NEW r \in 1..10,
         NEW f \in Nat, Vco(f, r) <= VcoMax
  PROVE  \E d \in Dividers(q) :
           ErrorOf(Candidate(q, d[1], d[2])) <= Distance(Vco(f, r) \div p, q)
<1>1. p \in {2, 4, 8, 16} /\ p \in Nat \ {0} /\ r \in Nat \ {0} /\ p * r \in Nat \ {0}
  BY DEF PostDividers
<1>2. Vco(f, r) \div p = Made(f, p * r)
  BY <1>1, MadeOfBoth
<1>3. PICK o \in PostDividers : q * o \in VcoMin..VcoMax
  <2>1. PICK d \in Dividers(q) : TRUE
    OBVIOUS
  <2> QED
    BY <2>1 DEF Dividers
<1>4. CASE o >= p
  <2>1. PICK m \in {1, 2, 4, 8} : o = m * p
    BY <1>1, <1>3, <1>4 DEF PostDividers
  <2>2. m \in Nat \ {0} /\ m * (p * r) = o * r /\ m * f \in Nat
    BY <2>1, <1>1
  <2>3. Made(m * f, o * r) = Made(f, p * r)
    <3>0. PICK n \in Nat \ {0} : n = p * r
      BY <1>1
    <3>1. Made(m * f, m * n) = Made(f, n)
      BY <2>2, Scaled, Zenon
    <3> QED
      BY <3>0, <3>1, <2>2
  <2>4. \E d \in Dividers(q) :
          ErrorOf(Candidate(q, d[1], d[2])) <= Distance(Made(m * f, o * r), q)
    BY <1>3, <2>2, InWindow
  <2> QED
    BY <1>2, <2>3, <2>4
<1>5. CASE q * p \in VcoMin..VcoMax
  BY <1>2, <1>5, InWindow
<1>6. CASE o < p /\ q * p \notin VcoMin..VcoMax
  <2>1. q * p > 1300000
    <3>1. PICK m \in {2, 4, 8} : p = m * o
      BY <1>1, <1>3, <1>6 DEF PostDividers
    <3>2. o \in Nat
      BY <1>3 DEF PostDividers
    <3>3. PICK c \in Nat : c = q * o
      BY <3>2
    <3>4. PICK e \in Nat : e = q * p
      BY <1>1
    <3>5. e = m * c
      BY <3>1, <3>2, <3>3, <3>4
    <3>6. c \in VcoMin..VcoMax /\ e \notin VcoMin..VcoMax
      BY <3>3, <3>4, <1>3, <1>6
    <3>7. e > 1300000
      <4>1. c >= 256000 /\ c <= 1300000 /\ ~(e >= 256000 /\ e <= 1300000)
        BY <3>6, Window
      <4> QED
        BY <3>5, <4>1
    <3> QED
      BY <3>4, <3>7
  <2>2. f <= 24 * r
    <3>1. 54000 * f < 1300001 * r
      <4>1. PICK v \in Int : v = (54000 * f) \div r
        OBVIOUS
      <4>2. v \in Nat /\ r * v <= 54000 * f /\ 54000 * f < r * v + r
        BY <1>1, <4>1, Cut
      <4>3. v <= 1300000
        BY <4>1 DEF Vco, Reference, VcoMax
      <4>4. r * v <= r * 1300000
        BY <4>2, <4>3
      <4> QED
        BY <4>2, <4>4
    <3> QED
      BY <3>1
  <2>3. Made(f, p * r) <= Made(24, p)
    <3>1. Made(f, p * r) <= Made(24 * r, p * r)
      BY <1>1, <2>2, MadeGrows
    <3>2. Made(r * 24, r * p) = Made(24, p)
      BY <1>1, Scaled, Zenon
    <3>3. r * 24 = 24 * r /\ r * p = p * r
      BY <1>1
    <3> QED
      BY <3>1, <3>2, <3>3
  <2>4. p * Made(24, p) = 1296000 /\ Made(24, p) \in Nat
    BY <1>1 DEF Made
  <2>5. Made(24, p) < q
    <3>0. PICK e \in Nat : e = q * p /\ e = p * q
      BY <1>1
    <3>1. p * Made(24, p) < p * q
      BY <2>1, <2>4, <3>0
    <3> QED
      BY <3>1, <2>4, <1>1, AboveStrict
  <2>6. Made(f, p * r) \in Nat
    <3>1. PICK n \in Nat \ {0} : n = p * r
      BY <1>1
    <3>2. Made(f, n) \in Nat
      BY MadeIsNat
    <3> QED
      BY <3>1, <3>2
  <2>7. Distance(Made(24, p), q) <= Distance(Made(f, p * r), q)
    BY <2>3, <2>4, <2>5, <2>6 DEF Distance
  <2>8. PICK m \in {2, 4, 8}, h \in Nat : p = m * o /\ 24 = m * h
    <3>1. PICK m \in {2, 4, 8} : p = m * o
      BY <1>1, <1>3, <1>6 DEF PostDividers
    <3>2. 24 = 2 * 12 /\ 24 = 4 * 6 /\ 24 = 8 * 3
      OBVIOUS
    <3> QED
      BY <3>1, <3>2
  <2>9. Made(h, o * 1) = Made(24, p)
    <3>1. o \in Nat \ {0} /\ o * 1 = o
      BY <1>3 DEF PostDividers
    <3>0. m \in Nat \ {0}
      OBVIOUS
    <3>2. Made(m * h, m * o) = Made(h, o)
      BY <3>0, <3>1, Scaled, Zenon
    <3> QED
      BY <3>1, <3>2, <2>8
  <2>10. \E d \in Dividers(q) :
           ErrorOf(Candidate(q, d[1], d[2])) <= Distance(Made(h, o * 1), q)
    BY <1>3, InWindow
  <2>11. PICK d \in Dividers(q) :
           ErrorOf(Candidate(q, d[1], d[2])) <= Distance(Made(24, p), q)
    BY <2>9, <2>10
  <2>12. ErrorOf(Candidate(q, d[1], d[2])) \in Nat
    <3>1. d[1] \in PostDividers /\ d[2] \in 1..10
      BY DEF Dividers
    <3> QED
      BY <3>1, CandidateError, Zenon
  <2> QED
    <3>1. Distance(Made(24, p), q) \in Nat /\ Distance(Made(f, p * r), q) \in Nat
      BY <2>4, <2>6 DEF Distance
    <3>2. ErrorOf(Candidate(q, d[1], d[2])) <= Distance(Made(f, p * r), q)
      BY <2>7, <2>11, <2>12, <3>1
    <3> QED
      BY <3>2, <1>2
<1> QED
  <2>1. o \in Nat /\ p \in Nat
    BY <1>1, <1>3 DEF PostDividers
  <2> QED
    BY <1>4, <1>5, <1>6, <2>1

-----------------------------------------------------------------------------
(* The order of the natural numbers.                                         *)
Less == {p \in Nat \X Nat : p[1] < p[2]}

(* A set of natural numbers that is not empty has a least one.               *)
LEMMA LeastOf ==
  ASSUME NEW S, S \subseteq Nat, S # {}
  PROVE  \E x \in S : \A y \in S : x <= y
<1>1. IsWellFoundedOn(Less, Nat)
  BY NatLessThanWellFounded DEF OpToRel, Less
<1>2. PICK x \in S : \A y \in S : ~(<<y, x>> \in Less)
  BY <1>1, WFMin
<1>3. ASSUME NEW y \in S PROVE x <= y
  <2>1. x \in Nat /\ y \in Nat
    OBVIOUS
  <2>2. ASSUME y < x PROVE <<y, x>> \in Less
    <3>1. <<y, x>> \in Nat \X Nat /\ <<y, x>>[1] < <<y, x>>[2]
      BY <2>1, <2>2
    <3> QED BY <3>1, Zenon DEF Less
  <2> QED BY <1>2, <2>1, <2>2
<1> QED BY <1>3

(* The order of preference as one number: references end at 10 and post      *)
(* dividers at 16.                                                           *)
KeyOf(c) == ErrorOf(c) * 187 + c.reference * 17 + c.post

(* The least key is preferred.                                               *)
LEMMA LeastKeyIsPreferred ==
  ASSUME NEW a, NEW b, ErrorOf(a) \in Nat, ErrorOf(b) \in Nat,
         a.reference \in 1..10, b.reference \in 1..10, a.post \in 2..16, b.post \in 2..16,
         KeyOf(a) <= KeyOf(b)
  PROVE  Preferred(a, b)
<1>1. PICK i \in Nat, j \in Nat : i = ErrorOf(a) /\ j = ErrorOf(b)
  OBVIOUS
<1>2. PICK u \in 1..10, v \in 1..10, s \in 2..16, t \in 2..16 :
        u = a.reference /\ v = b.reference /\ s = a.post /\ t = b.post
  OBVIOUS
<1>3. i * 187 + u * 17 + s <= j * 187 + v * 17 + t
  BY <1>1, <1>2 DEF KeyOf
<1>4. i < j \/ (i = j /\ u < v) \/ (i = j /\ u = v /\ s <= t)
  BY <1>3
<1> QED
  BY <1>1, <1>2, <1>4 DEF Preferred

(* So the plan exists where a setting does, and none is less off.            *)
LEMMA PlanIsPreferred ==
  ASSUME NEW q \in Nat, Dividers(q) # {}, NEW r, r.mode.clock = q
  PROVE  \E d \in Dividers(q) :
           /\ PLLPlan(r) = Candidate(q, d[1], d[2])
           /\ \A e \in Dividers(q) : ErrorOf(PLLPlan(r)) <= ErrorOf(Candidate(q, e[1], e[2]))
<1> DEFINE Of(d) == Candidate(q, d[1], d[2])
           made == {Of(d) : d \in Dividers(q)}
           keys == {KeyOf(c) : c \in made}
           Best(c) == \A other \in made : Preferred(c, other)
<1>1. ASSUME NEW d \in Dividers(q)
      PROVE  /\ ErrorOf(Of(d)) \in Nat
             /\ Of(d).reference \in 1..10 /\ Of(d).post \in 2..16
  <2>1. d[1] \in PostDividers /\ d[2] \in 1..10
    BY DEF Dividers
  <2>2. ErrorOf(Of(d)) \in Nat
    BY <2>1, CandidateError, Zenon
  <2>3. Of(d).reference = d[2] /\ Of(d).post = d[1]
    BY DEF Candidate
  <2> QED
    BY <2>1, <2>2, <2>3 DEF PostDividers
<1> HIDE DEF Of
<1>2. ASSUME NEW c \in made PROVE KeyOf(c) \in Nat
  <2>1. ErrorOf(c) \in Nat /\ c.reference \in 1..10 /\ c.post \in 2..16
    BY <1>1
  <2> QED
    BY <2>1 DEF KeyOf
<1>3. \E c \in made : Best(c)
  <2>1. keys \subseteq Nat /\ keys # {}
    BY <1>2
  <2>2. PICK k \in keys : \A other \in keys : k <= other
    BY <2>1, LeastOf
  <2>3. PICK c \in made : k = KeyOf(c)
    OBVIOUS
  <2>4. ASSUME NEW other \in made PROVE Preferred(c, other)
    <3>1. KeyOf(c) <= KeyOf(other)
      BY <2>2, <2>3
    <3>2. /\ ErrorOf(c) \in Nat /\ c.reference \in 1..10 /\ c.post \in 2..16
          /\ ErrorOf(other) \in Nat /\ other.reference \in 1..10 /\ other.post \in 2..16
      BY <1>1
    <3> QED
      BY <3>1, <3>2, LeastKeyIsPreferred
  <2> QED
    BY <2>4
<1>4. PLLPlan(r) = CHOOSE c \in made : Best(c)
  BY DEF PLLPlan, Of
<1>5. PLLPlan(r) \in made /\ Best(PLLPlan(r))
  <2> HIDE DEF made, Best
  <2> QED
    BY <1>3, <1>4
<1>6. PICK d \in Dividers(q) : PLLPlan(r) = Of(d)
  BY <1>5
<1>7. ASSUME NEW e \in Dividers(q) PROVE ErrorOf(PLLPlan(r)) <= ErrorOf(Of(e))
  <2>1. Preferred(PLLPlan(r), Of(e))
    BY <1>5
  <2>2. ErrorOf(PLLPlan(r)) \in Nat /\ ErrorOf(Of(e)) \in Nat
    BY <1>1, <1>6
  <2> QED
    BY <2>1, <2>2 DEF Preferred
<1> QED
  BY <1>6, <1>7 DEF Of

(* The plan is the nearest setting the hardware has.                         *)
LEMMA PlanIsNearest ==
  ASSUME NEW q \in Nat, Dividers(q) # {}, NEW r, r.mode.clock = q
  PROVE  PLLPlan(r).requested = q /\ NearestSetting(PLLPlan(r))
<1>1. PICK d \in Dividers(q) :
        /\ PLLPlan(r) = Candidate(q, d[1], d[2])
        /\ \A e \in Dividers(q) : ErrorOf(PLLPlan(r)) <= ErrorOf(Candidate(q, e[1], e[2]))
  BY PlanIsPreferred
<1>2. PLLPlan(r).requested = q
  BY <1>1 DEF Candidate
<1>3. ASSUME NEW post \in PostDividers, NEW reference \in 1..10, NEW feedback \in 2..257,
             Vco(feedback, reference) \in VcoMin..VcoMax
      PROVE  ErrorOf(PLLPlan(r)) <= Distance(Vco(feedback, reference) \div post, q)
  <2>1. feedback \in Nat
    OBVIOUS
  <2>2. Vco(feedback, reference) <= VcoMax
    <3>1. PICK lo \in Int, hi \in Int : lo = VcoMin /\ hi = VcoMax
      BY DEF VcoMin, VcoMax
    <3> QED
      BY <1>3, <3>1
  <2>3. PICK e \in Dividers(q) : ErrorOf(Candidate(q, e[1], e[2]))
                                   <= Distance(Vco(feedback, reference) \div post, q)
    BY <2>1, <2>2, RivalIsBeaten
  <2>4. ErrorOf(PLLPlan(r)) <= ErrorOf(Candidate(q, e[1], e[2]))
    BY <1>1
  <2>5. ErrorOf(PLLPlan(r)) \in Nat /\ ErrorOf(Candidate(q, e[1], e[2])) \in Nat
    <3>1. d[1] \in PostDividers /\ d[2] \in 1..10 /\ e[1] \in PostDividers /\ e[2] \in 1..10
      BY DEF Dividers
    <3>2. ErrorOf(Candidate(q, d[1], d[2])) \in Nat
      BY <3>1, CandidateError, Zenon
    <3>3. ErrorOf(Candidate(q, e[1], e[2])) \in Nat
      BY <3>1, CandidateError, Zenon
    <3> QED
      BY <1>1, <3>2, <3>3
  <2>6. Distance(Vco(feedback, reference) \div post, q) \in Int
    <3>1. post \in Nat \ {0} /\ reference \in Nat \ {0}
      BY DEF PostDividers
    <3>2. PICK n \in Nat \ {0} : n = post * reference
      BY <3>1
    <3>3. Vco(feedback, reference) \div post = Made(feedback, n)
      BY <3>1, <3>2, <2>1, MadeOfBoth
    <3>4. Made(feedback, n) \in Nat
      BY <2>1, MadeIsNat
    <3> QED
      BY <3>3, <3>4 DEF Distance
  <2> QED
    BY <2>3, <2>4, <2>5, <2>6
<1> QED
  BY <1>2, <1>3, Zenon DEF NearestSetting

(* The three bytes make the clock that was planned: no field overflows.      *)
LEMMA BytesSayPlan ==
  ASSUME NEW q \in Nat, NEW r, NEW d \in Dividers(q),
         NEW plan, plan = Candidate(q, d[1], d[2])
  PROVE  PLLMakes(PLLBytes(r, plan)) = plan.achieved
<1>1. d[1] \in {2, 4, 8, 16} /\ d[2] \in 1..10 /\ Feedback(q, d[1], d[2]) \in 2..257
  BY DEF Dividers, PostDividers
<1>2. PICK post \in {2, 4, 8, 16}, ref \in 1..10, feed \in 2..257 :
        post = d[1] /\ ref = d[2] /\ feed = Feedback(q, d[1], d[2])
  BY <1>1
<1>3. /\ plan.feedback = feed /\ plan.reference = ref /\ plan.post = post
      /\ plan.achieved = Vco(feed, ref) \div post
  BY <1>2 DEF Candidate
<1>4. PICK s \in Nat : StabilityBits(plan.vco) = 8 * s
  <2> DEFINE steps == {b \in {550, 700, 900, 1100, 1300} : plan.vco >= b * 1000}
  <2>1. IsFiniteSet({550, 700, 900, 1100, 1300})
    <3>1. PICK lo \in Int, hi \in Int : lo = 0 /\ hi = 1300
      OBVIOUS
    <3>2. IsFiniteSet(lo..hi)
      BY FS_Interval
    <3>3. {550, 700, 900, 1100, 1300} \subseteq lo..hi
      BY <3>1
    <3> QED
      BY <3>2, <3>3, FS_Subset
  <2>2. IsFiniteSet(steps)
    BY <2>1, FS_Subset
  <2>3. Cardinality(steps) \in Nat
    BY <2>2, FS_CardinalityType
  <2>4. StabilityBits(plan.vco) = 8 * Cardinality(steps)
    BY DEF StabilityBits
  <2> HIDE DEF steps
  <2>5. PICK s \in Nat : s = Cardinality(steps)
    BY <2>3
  <2> QED
    BY <2>4, <2>5
<1>5. PostBits(post) \in 0..3 /\ 2^(PostBits(post) + 1) = post
  <2>1. CASE post = 2
    BY <2>1 DEF PostBits
  <2>2. CASE post = 4
    BY <2>2 DEF PostBits
  <2>3. CASE post = 8
    BY <2>3 DEF PostBits
  <2>4. CASE post = 16
    BY <2>4 DEF PostBits
  <2> QED
    BY <2>1, <2>2, <2>3, <2>4
<1>6. PICK k \in 0..3 : k = PostBits(post)
  BY <1>5
<1> DEFINE b == PLLBytes(r, plan)
<1>7. b.n + 2 = feed /\ b.m + 1 = ref /\ b.p = k + 8 * s
  BY <1>3, <1>4, <1>6 DEF PLLBytes
<1>8. b.p % 8 = k
  BY <1>7
<1> QED
  BY <1>3, <1>5, <1>6, <1>7, <1>8 DEF PLLMakes

-----------------------------------------------------------------------------
(* A number of nine to twelve bits from its low byte and the rest.           *)
LEMMA Parts ==
  ASSUME NEW v \in Nat
  PROVE  /\ v <= 511 => v = (v % 256) + 256 * ((v \div 256) % 2)
         /\ v <= 1023 => v = (v % 256) + 256 * ((v \div 256) % 4)
         /\ v <= 2047 => v = (v % 256) + 256 * ((v \div 256) % 2) + 512 * ((v \div 512) % 2)
                            + 1024 * ((v \div 1024) % 2)
         /\ v <= 4095 => v = (v % 256) + 256 * ((v \div 256) % 2) + 512 * ((v \div 512) % 2)
                            + 1024 * ((v \div 1024) % 4)
OBVIOUS

(* Whole characters, counted from nought.                                    *)
LEMMA Characters ==
  ASSUME NEW w \in Nat, w % 8 = 0, w >= 8, NEW k, k = w \div 8 - 1
  PROVE  k \in Nat /\ w = 8 * (k + 1)
OBVIOUS

(* The counters of a mode that can have an image fit their registers.        *)
LEMMA CountersOf ==
  ASSUME NEW m, IsReview(m), CanImage(m),
         NEW c, c = Counters(m), NEW w, w = m.mode.width, NEW h, h = m.mode.height,
         NEW x, x = m.timing.h, NEW y, y = m.timing.v
  PROVE  /\ w \in Nat /\ h \in Nat
         /\ x \in [front : Nat, sync : Nat, back : Nat]
         /\ y \in [front : Nat, sync : Nat, back : Nat]
         /\ c.hd \in Nat /\ c.hs \in Nat /\ c.he \in Nat /\ c.ht \in Nat /\ c.wd \in Nat
         /\ c.vd \in Nat /\ c.vs \in Nat /\ c.ve \in Nat /\ c.vt \in Nat
         /\ c.hd <= 511 /\ c.hs <= 511 /\ c.he <= 511 /\ c.ht <= 511 /\ c.ht >= 4 /\ c.wd <= 1023
         /\ c.vd <= 4095 /\ c.vs <= 4095 /\ c.ve <= 4095 /\ c.vt <= 4095
         /\ w = 8 * (c.hd + 1) /\ w + x.front = 8 * (c.hs + 1)
         /\ w + x.front + x.sync = 8 * (c.he + 1)
         /\ 8 * (c.ht + 1) - (w + x.front + x.sync + x.back) \in {0, 8}
         /\ h = c.vd + 1 /\ h + y.front = c.vs + 1 /\ h + y.front + y.sync = c.ve + 1
         /\ h + y.front + y.sync + y.back = c.vt + 2
         /\ 16 * c.wd = 4 * w
<1>1. /\ w \in Nat /\ h \in Nat
      /\ x \in [front : Nat, sync : Nat, back : Nat]
      /\ y \in [front : Nat, sync : Nat, back : Nat]
  BY DEF IsReview
<1>2. w # 0 /\ h # 0
  BY DEF CanImage, CanPlanCRTC, ValidModeReview
<1>w. w \in Nat /\ h \in Nat
  BY <1>1
<1>a. /\ x.front \in Nat /\ x.sync \in Nat /\ x.back \in Nat
      /\ y.front \in Nat /\ y.sync \in Nat /\ y.back \in Nat
  BY <1>1
<1>b. PICK s \in Nat, e \in Nat, t \in Nat :
        s = w + x.front /\ e = w + x.front + x.sync /\ t = w + x.front + x.sync + x.back
  BY <1>1, <1>a
<1>c. PICK vs \in Nat, ve \in Nat, vt \in Nat :
        vs = h + y.front /\ ve = h + y.front + y.sync /\ vt = h + y.front + y.sync + y.back
  BY <1>1, <1>a
<1>3. /\ s = w + x.front /\ e = s + x.sync /\ t = e + x.back
      /\ vs = h + y.front /\ ve = vs + y.sync /\ vt = ve + y.back
  BY <1>b, <1>c
<1>4. /\ CRTCPlan(m).hDisplay = w /\ CRTCPlan(m).hStart = s /\ CRTCPlan(m).hEnd = e
      /\ CRTCPlan(m).hTotal = t /\ CRTCPlan(m).vDisplay = h /\ CRTCPlan(m).vStart = vs
      /\ CRTCPlan(m).vEnd = ve /\ CRTCPlan(m).vTotal = vt
  BY <1>1, <1>3 DEF CRTCPlan, SyncStart, SyncEnd, AxisTotal
<1>5. /\ w % 8 = 0 /\ s % 8 = 0 /\ e % 8 = 0 /\ t % 8 = 0 /\ vt >= 2
  BY <1>4 DEF CanImage
<1>6. /\ c.hd = w \div 8 - 1 /\ c.hs = s \div 8 - 1 /\ c.he = e \div 8 - 1
      /\ c.ht = Rounded(t \div 8 - 1) /\ c.wd = w \div 4
      /\ c.vd = h - 1 /\ c.vs = vs - 1 /\ c.ve = ve - 1 /\ c.vt = vt - 2
  BY <1>4 DEF Counters
<1>d. /\ c.hd \in Int /\ c.hs \in Int /\ c.he \in Int /\ c.wd \in Int
      /\ c.vd \in Int /\ c.vs \in Int /\ c.ve \in Int /\ c.vt \in Int
  BY <1>w, <1>6
<1>7. /\ c.hd <= 511 /\ c.hs <= 511 /\ c.he <= 511 /\ c.ht <= 511 /\ c.ht >= 4 /\ c.wd <= 1023
      /\ c.vd <= 4095 /\ c.vs <= 4095 /\ c.ve <= 4095 /\ c.vt <= 4095
  BY DEF CanImage, CountersFit
<1>8. w >= 8 /\ s >= w /\ e >= s /\ t >= e /\ h >= 1 /\ vs >= h /\ ve >= vs /\ vt >= ve
  <2>1. w >= 8 /\ h >= 1
    BY <1>w, <1>2, <1>5
  <2>2. s >= w /\ e >= s /\ t >= e /\ vs >= h /\ ve >= vs /\ vt >= ve
    BY <1>w, <1>a, <1>3
  <2> QED
    BY <2>1, <2>2
<1>9. PICK n \in Int : n = t \div 8 - 1
  OBVIOUS
<1>10. c.ht = n \/ c.ht = n + 1
  BY <1>6, <1>9 DEF Rounded
<1>12. /\ c.hd \in Nat /\ c.hs \in Nat /\ c.he \in Nat
       /\ w = 8 * (c.hd + 1) /\ s = 8 * (c.hs + 1) /\ e = 8 * (c.he + 1)
  <2>1. w >= 8 /\ s >= 8 /\ e >= 8
    BY <1>w, <1>8
  <2>2. c.hd = w \div 8 - 1 /\ c.hs = s \div 8 - 1 /\ c.he = e \div 8 - 1
    BY <1>6
  <2>3. c.hd \in Nat /\ w = 8 * (c.hd + 1)
    BY <2>1, <2>2, <1>w, <1>5, Characters
  <2>4. c.hs \in Nat /\ s = 8 * (c.hs + 1)
    BY <2>1, <2>2, <1>5, Characters
  <2>5. c.he \in Nat /\ e = 8 * (c.he + 1)
    BY <2>1, <2>2, <1>5, Characters
  <2> QED
    BY <2>3, <2>4, <2>5
<1>11. /\ c.hd \in Nat /\ c.hs \in Nat /\ c.he \in Nat /\ c.ht \in Nat /\ c.wd \in Nat
       /\ c.vd \in Nat /\ c.vs \in Nat /\ c.ve \in Nat /\ c.vt \in Nat
  <2>1. c.ht \in Nat
    BY <1>7, <1>9, <1>10
  <2>2. c.wd \in Nat
    BY <1>w, <1>6
  <2>3. c.vd \in Nat /\ c.vs \in Nat /\ c.ve \in Nat /\ c.vt \in Nat
    <3>1. vs >= 1 /\ ve >= 1
      BY <1>w, <1>8
    <3>2. c.vd = h - 1 /\ c.vs = vs - 1 /\ c.ve = ve - 1 /\ c.vt = vt - 2
      BY <1>6
    <3> QED
      BY <3>1, <3>2, <1>5, <1>8, <1>w
  <2> QED
    BY <2>1, <2>2, <2>3, <1>12
<1>13. 8 * (c.ht + 1) - t \in {0, 8}
  BY <1>5, <1>9, <1>10
<1>17. 16 * c.wd = 4 * w
  <2>1. c.wd = w \div 4
    BY <1>6
  <2> QED
    BY <2>1, <1>w, <1>5
<1>14. h = c.vd + 1 /\ vs = c.vs + 1 /\ ve = c.ve + 1 /\ vt = c.vt + 2
  BY <1>w, <1>d, <1>6
<1>15. /\ w + x.front = 8 * (c.hs + 1) /\ w + x.front + x.sync = 8 * (c.he + 1)
       /\ 8 * (c.ht + 1) - (w + x.front + x.sync + x.back) \in {0, 8}
  BY <1>b, <1>12, <1>13
<1>16. /\ h + y.front = c.vs + 1 /\ h + y.front + y.sync = c.ve + 1
       /\ h + y.front + y.sync + y.back = c.vt + 2
  BY <1>c, <1>14
<1> QED
  BY <1>1, <1>7, <1>11, <1>12, <1>14, <1>15, <1>16, <1>17

(* The registers of an image that carry the counters.                        *)
LEMMA ImageOf ==
  ASSUME NEW m, NEW c, c = Counters(m), NEW image, image = CRTCImage(m)
  PROVE  /\ image.extended[0] = Field(c.wd, 8, 2) * 16
         /\ image.extended[1] = Field(c.ht - 4, 8, 1) + Field(c.hd, 8, 1) * 2
                                 + Field(c.hs, 8, 1) * 4 + Field(c.ht, 6, 1) * 64
         /\ image.extended[2] = Field(c.vt, 10, 2) + Field(c.vd, 10, 1) * 4
                                 + Field(c.vd, 10, 2) * 8 + Field(c.vs, 10, 2) * 32
                                 + Field(c.vd, 10, 1) * 128
         /\ image.crtc[0] = (c.ht - 4) % 256 /\ image.crtc[1] = c.hd % 256
         /\ image.crtc[4] = c.hs % 256
         /\ image.crtc[5] = Field(c.ht, 5, 1) * 128 + Field(c.he, 0, 5)
         /\ image.crtc[6] = c.vt % 256
         /\ image.crtc[7] = Field(c.vt, 8, 1) + Field(c.vs, 8, 1) * 4
                             + Field(c.vd, 8, 1) * (2 + 8 + 16) + Field(c.vt, 9, 1) * 32
                             + Field(c.vd, 9, 1) * 64 + Field(c.vs, 9, 1) * 128
         /\ image.crtc[16] = c.vs % 256 /\ image.crtc[17] = Field(c.ve, 0, 4) + 32
         /\ image.crtc[18] = c.vd % 256 /\ image.crtc[19] = c.wd % 256
BY DEF CRTCImage

(* The byte of several fields taken apart: the overflow register.            *)
LEMMA Apart ==
  ASSUME NEW a \in 0..1, NEW b \in 0..1, NEW d \in 0..1, NEW e \in 0..1, NEW f \in 0..1,
         NEW g \in 0..1,
         NEW v, v = a + b * 4 + d * (2 + 8 + 16) + e * 32 + f * 64 + g * 128
  PROVE  /\ v % 2 = a /\ (v \div 4) % 2 = b /\ (v \div 2) % 2 = d /\ (v \div 32) % 2 = e
         /\ (v \div 64) % 2 = f /\ (v \div 128) % 2 = g
OBVIOUS

(* The same of the extension register of the characters.                     *)
LEMMA Apart1 ==
  ASSUME NEW a \in 0..1, NEW b \in 0..1, NEW d \in 0..1, NEW e \in 0..1,
         NEW v, v = a + b * 2 + d * 4 + e * 64
  PROVE  v % 2 = a /\ (v \div 2) % 2 = b /\ (v \div 4) % 2 = d
OBVIOUS

(* The same of the extension register of the lines.                          *)
LEMMA Apart2 ==
  ASSUME NEW a \in 0..3, NEW b \in 0..1, NEW d \in 0..3, NEW e \in 0..3,
         NEW v, v = a + b * 4 + d * 8 + e * 32 + b * 128
  PROVE  v % 4 = a /\ (v \div 4) % 2 = b /\ (v \div 32) % 4 = e
OBVIOUS

-----------------------------------------------------------------------------
(* The powers of two the fields are cut by.                                  *)
LEMMA Powers ==
  /\ 2^0 = 1 /\ 2^1 = 2 /\ 2^2 = 4 /\ 2^4 = 16 /\ 2^5 = 32 /\ 2^6 = 64 /\ 2^7 = 128
  /\ 2^8 = 256 /\ 2^9 = 512 /\ 2^10 = 1024
  /\ \A v \in Nat : v \div 1 = v
OBVIOUS

(* A field is no greater than its bits allow.                                *)
LEMMA Bits ==
  ASSUME NEW v \in Nat
  PROVE  /\ Field(v, 6, 1) \in 0..1 /\ Field(v, 5, 1) \in 0..1 /\ Field(v, 8, 1) \in 0..1
         /\ Field(v, 9, 1) \in 0..1 /\ Field(v, 10, 1) \in 0..1 /\ Field(v, 10, 2) \in 0..3
         /\ Field(v, 8, 2) \in 0..3 /\ Field(v, 0, 5) \in 0..31 /\ Field(v, 0, 4) \in 0..15
<1>1. /\ Field(v, 6, 1) = (v \div 64) % 2 /\ Field(v, 5, 1) = (v \div 32) % 2
      /\ Field(v, 8, 1) = (v \div 256) % 2 /\ Field(v, 9, 1) = (v \div 512) % 2
      /\ Field(v, 10, 1) = (v \div 1024) % 2 /\ Field(v, 10, 2) = (v \div 1024) % 4
      /\ Field(v, 8, 2) = (v \div 256) % 4
      /\ Field(v, 0, 5) = v % 32 /\ Field(v, 0, 4) = v % 16
  BY Powers DEF Field
<1>2. /\ v \div 32 \in Int /\ v \div 64 \in Int /\ v \div 256 \in Int /\ v \div 512 \in Int
      /\ v \div 1024 \in Int
  OBVIOUS
<1>3. \A n \in Int : n % 2 \in 0..1 /\ n % 4 \in 0..3 /\ n % 16 \in 0..15 /\ n % 32 \in 0..31
  OBVIOUS
<1>4. /\ Field(v, 6, 1) \in 0..1 /\ Field(v, 5, 1) \in 0..1 /\ Field(v, 8, 1) \in 0..1
      /\ Field(v, 9, 1) \in 0..1 /\ Field(v, 10, 1) \in 0..1
  BY <1>1, <1>2, <1>3
<1>5. Field(v, 10, 2) \in 0..3 /\ Field(v, 8, 2) \in 0..3
  BY <1>1, <1>2, <1>3
<1>6. Field(v, 0, 5) \in 0..31 /\ Field(v, 0, 4) \in 0..15
  <2>1. v % 32 \in 0..31 /\ v % 16 \in 0..15
    OBVIOUS
  <2> QED
    BY <1>1, <2>1
<1> QED
  BY <1>4, <1>5, <1>6

(* A counter from its low byte and its high bits: nine bits.                 *)
LEMMA NineBits ==
  ASSUME NEW v \in Nat, v <= 511
  PROVE  (v % 256) + 256 * Field(v, 8, 1) = v
<1>1. Field(v, 8, 1) = (v \div 256) % 2
  BY Powers DEF Field
<1>2. v = (v % 256) + 256 * ((v \div 256) % 2)
  BY Parts
<1> QED
  BY <1>1, <1>2

(* The same of eleven bits.                                                  *)
LEMMA ElevenBits ==
  ASSUME NEW v \in Nat, v <= 2047
  PROVE  (v % 256) + 256 * Field(v, 8, 1) + 512 * Field(v, 9, 1) + 1024 * Field(v, 10, 1) = v
<1>1. /\ Field(v, 8, 1) = (v \div 256) % 2 /\ Field(v, 9, 1) = (v \div 512) % 2
      /\ Field(v, 10, 1) = (v \div 1024) % 2
  BY Powers DEF Field
<1>2. v = (v % 256) + 256 * ((v \div 256) % 2) + 512 * ((v \div 512) % 2)
            + 1024 * ((v \div 1024) % 2)
  BY Parts
<1> QED
  BY <1>1, <1>2

(* The same of twelve bits.                                                  *)
LEMMA TwelveBits ==
  ASSUME NEW v \in Nat, v <= 4095
  PROVE  (v % 256) + 256 * Field(v, 8, 1) + 512 * Field(v, 9, 1) + 1024 * Field(v, 10, 2) = v
<1>1. /\ Field(v, 8, 1) = (v \div 256) % 2 /\ Field(v, 9, 1) = (v \div 512) % 2
      /\ Field(v, 10, 2) = (v \div 1024) % 4
  BY Powers DEF Field
<1>2. v = (v % 256) + 256 * ((v \div 256) % 2) + 512 * ((v \div 512) % 2)
            + 1024 * ((v \div 1024) % 4)
  BY Parts
<1> QED
  BY <1>1, <1>2

(* The lines of the image.                                                   *)
LEMMA LinesShown ==
  ASSUME NEW m, NEW c, c = Counters(m), NEW image, image = CRTCImage(m),
         c.vd \in Nat, c.vs \in Nat, c.vt \in Nat, c.ve \in Nat,
         c.vd <= 4095, c.vs <= 4095, c.vt <= 4095, c.ve <= 4095
  PROVE  /\ c.vd <= 2047 => Shown(image).vDisplay = c.vd + 1
         /\ Shown(image).vStart = c.vs + 1
         /\ Shown(image).vSync = ((c.ve % 16) - c.vs) % 16
         /\ Shown(image).vTotal = c.vt + 2
<1>1. PICK vd \in Nat, vs \in Nat, vt \in Nat, ve \in Nat :
        vd = c.vd /\ vs = c.vs /\ vt = c.vt /\ ve = c.ve
  OBVIOUS
<1>2. PICK o, e :
        /\ o = image.crtc[7] /\ e = image.extended[2]
        /\ o = Field(vt, 8, 1) + Field(vs, 8, 1) * 4 + Field(vd, 8, 1) * (2 + 8 + 16)
                + Field(vt, 9, 1) * 32 + Field(vd, 9, 1) * 64 + Field(vs, 9, 1) * 128
        /\ e = Field(vt, 10, 2) + Field(vd, 10, 1) * 4 + Field(vd, 10, 2) * 8
                + Field(vs, 10, 2) * 32 + Field(vd, 10, 1) * 128
  BY <1>1, ImageOf
<1>3. /\ image.crtc[18] = vd % 256 /\ image.crtc[16] = vs % 256 /\ image.crtc[6] = vt % 256
      /\ image.crtc[17] = Field(ve, 0, 4) + 32
  BY <1>1, ImageOf
<1>4. o \in Nat /\ e \in Nat
  BY <1>2, Bits
<1>5. /\ o % 2 = Field(vt, 8, 1) /\ (o \div 4) % 2 = Field(vs, 8, 1)
      /\ (o \div 2) % 2 = Field(vd, 8, 1) /\ (o \div 32) % 2 = Field(vt, 9, 1)
      /\ (o \div 64) % 2 = Field(vd, 9, 1) /\ (o \div 128) % 2 = Field(vs, 9, 1)
  BY <1>2, Bits, Apart
<1>6. /\ e % 4 = Field(vt, 10, 2) /\ (e \div 4) % 2 = Field(vd, 10, 1)
      /\ (e \div 32) % 4 = Field(vs, 10, 2)
  BY <1>2, Bits, Apart2
<1>7. /\ Field(o, 0, 1) = Field(vt, 8, 1) /\ Field(o, 2, 1) = Field(vs, 8, 1)
      /\ Field(o, 1, 1) = Field(vd, 8, 1) /\ Field(o, 5, 1) = Field(vt, 9, 1)
      /\ Field(o, 6, 1) = Field(vd, 9, 1) /\ Field(o, 7, 1) = Field(vs, 9, 1)
  <2>1. /\ Field(o, 0, 1) = o % 2 /\ Field(o, 1, 1) = (o \div 2) % 2
        /\ Field(o, 2, 1) = (o \div 4) % 2 /\ Field(o, 5, 1) = (o \div 32) % 2
        /\ Field(o, 6, 1) = (o \div 64) % 2 /\ Field(o, 7, 1) = (o \div 128) % 2
    BY <1>4, Powers DEF Field
  <2> QED
    BY <1>5, <2>1
<1>8. /\ Field(e, 0, 2) = Field(vt, 10, 2) /\ Field(e, 2, 1) = Field(vd, 10, 1)
      /\ Field(e, 5, 2) = Field(vs, 10, 2)
  <2>1. /\ Field(e, 0, 2) = e % 4 /\ Field(e, 2, 1) = (e \div 4) % 2
        /\ Field(e, 5, 2) = (e \div 32) % 4
    BY <1>4, Powers DEF Field
  <2> QED
    BY <1>6, <2>1
<1>11. Shown(image).vStart = vs + 1
  <2>1. image.crtc[16] + 256 * Field(o, 2, 1) + 512 * Field(o, 7, 1) + 1024 * Field(e, 5, 2) = vs
    BY <1>1, <1>3, <1>7, <1>8, TwelveBits
  <2>2. Shown(image).vStart =
          image.crtc[16] + 256 * Field(o, 2, 1) + 512 * Field(o, 7, 1) + 1024 * Field(e, 5, 2) + 1
    BY <1>2 DEF Shown
  <2> QED
    BY <2>1, <2>2
<1>12. Shown(image).vTotal = vt + 2
  <2>1. image.crtc[6] + 256 * Field(o, 0, 1) + 512 * Field(o, 5, 1) + 1024 * Field(e, 0, 2) = vt
    BY <1>1, <1>3, <1>7, <1>8, TwelveBits
  <2>2. Shown(image).vTotal =
          image.crtc[6] + 256 * Field(o, 0, 1) + 512 * Field(o, 5, 1) + 1024 * Field(e, 0, 2) + 2
    BY <1>2 DEF Shown
  <2> QED
    BY <2>1, <2>2
<1>13. vd <= 2047 => Shown(image).vDisplay = vd + 1
  <2> HAVE vd <= 2047
  <2>1. image.crtc[18] + 256 * Field(o, 1, 1) + 512 * Field(o, 6, 1) + 1024 * Field(e, 2, 1) = vd
    BY <1>3, <1>7, <1>8, ElevenBits
  <2>2. Shown(image).vDisplay =
          image.crtc[18] + 256 * Field(o, 1, 1) + 512 * Field(o, 6, 1) + 1024 * Field(e, 2, 1) + 1
    BY <1>2 DEF Shown
  <2> QED
    BY <2>1, <2>2
<1>14. Shown(image).vSync = ((ve % 16) - vs) % 16
  <2>1. Field(image.crtc[17], 0, 4) = ve % 16
    <3>0. Field(ve, 0, 4) = ve % 16
      BY Powers DEF Field
    <3>1. PICK k \in Nat : k = image.crtc[17] /\ k = (ve % 16) + 32
      BY <1>3, <3>0
    <3>2. Field(k, 0, 4) = k % 16
      BY Powers DEF Field
    <3>3. k % 16 = ve % 16
      BY <3>1
    <3> QED
      BY <3>1, <3>2, <3>3
  <2>2. image.crtc[16] + 256 * Field(o, 2, 1) + 512 * Field(o, 7, 1) + 1024 * Field(e, 5, 2) = vs
    BY <1>1, <1>3, <1>7, <1>8, TwelveBits
  <2>3. Shown(image).vSync =
          (Field(image.crtc[17], 0, 4)
             - (image.crtc[16] + 256 * Field(o, 2, 1) + 512 * Field(o, 7, 1)
                  + 1024 * Field(e, 5, 2))) % 16
    BY <1>2 DEF Shown
  <2> QED
    BY <2>1, <2>2, <2>3
<1> QED
  BY <1>1, <1>11, <1>12, <1>13, <1>14

(* The characters of the image, and its row.                                 *)
LEMMA CharactersShown ==
  ASSUME NEW m, NEW c, c = Counters(m), NEW image, image = CRTCImage(m),
         c.hd \in Nat, c.hs \in Nat, c.he \in Nat, c.ht \in Nat, c.wd \in Nat,
         c.hd <= 511, c.hs <= 511, c.he <= 511, c.ht <= 511, c.ht >= 4, c.wd <= 1023
  PROVE  /\ Shown(image).hDisplay = 8 * (c.hd + 1)
         /\ Shown(image).hStart = 8 * (c.hs + 1)
         /\ Shown(image).hSync = 8 * (((c.he % 32) - c.hs) % 32)
         /\ Shown(image).hTotal = 8 * (c.ht + 1)
         /\ Shown(image).row = 16 * c.wd
<1>0. PICK hd \in Nat, hs \in Nat, he \in Nat, ht \in Nat, wd \in Nat :
        hd = c.hd /\ hs = c.hs /\ he = c.he /\ ht = c.ht /\ wd = c.wd
  OBVIOUS
<1>a. PICK hr \in Nat : hr = ht - 4
  BY <1>0
<1>1. hd = c.hd /\ hs = c.hs /\ he = c.he /\ ht = c.ht /\ wd = c.wd /\ hr = c.ht - 4
  BY <1>0, <1>a
<1>2. PICK e : /\ e = image.extended[1]
               /\ e = Field(hr, 8, 1) + Field(hd, 8, 1) * 2 + Field(hs, 8, 1) * 4
                       + Field(ht, 6, 1) * 64
  BY <1>1, ImageOf
<1>3. /\ image.crtc[0] = hr % 256 /\ image.crtc[1] = hd % 256 /\ image.crtc[4] = hs % 256
      /\ image.crtc[5] = Field(ht, 5, 1) * 128 + Field(he, 0, 5)
      /\ image.crtc[19] = wd % 256 /\ image.extended[0] = Field(wd, 8, 2) * 16
  BY <1>1, ImageOf
<1>4. e \in Nat
  BY <1>2, Bits
<1>5. e % 2 = Field(hr, 8, 1) /\ (e \div 2) % 2 = Field(hd, 8, 1) /\ (e \div 4) % 2 = Field(hs, 8, 1)
  BY <1>2, Bits, Apart1
<1>6. /\ Field(e, 0, 1) = Field(hr, 8, 1) /\ Field(e, 1, 1) = Field(hd, 8, 1)
      /\ Field(e, 2, 1) = Field(hs, 8, 1)
  <2>1. /\ Field(e, 0, 1) = e % 2 /\ Field(e, 1, 1) = (e \div 2) % 2
        /\ Field(e, 2, 1) = (e \div 4) % 2
    BY <1>4, Powers DEF Field
  <2> QED
    BY <1>5, <2>1
<1>8. /\ image.crtc[4] + 256 * Field(e, 2, 1) = hs /\ image.crtc[1] + 256 * Field(e, 1, 1) = hd
      /\ image.crtc[0] + 256 * Field(e, 0, 1) = hr
  <2>1. hr <= 511 /\ hd <= 511 /\ hs <= 511
    BY <1>1
  <2> QED
    BY <2>1, <1>3, <1>6, NineBits
<1>9. Field(image.crtc[5], 0, 5) = he % 32
  <2>1. PICK b \in 0..1 : b = Field(ht, 5, 1)
    BY Bits
  <2>2. Field(he, 0, 5) = he % 32
    BY Powers DEF Field
  <2>3. PICK k \in Nat : k = image.crtc[5] /\ k = b * 128 + (he % 32)
    <3>1. PICK k \in Nat : k = b * 128 + (he % 32)
      OBVIOUS
    <3>2. image.crtc[5] = Field(ht, 5, 1) * 128 + Field(he, 0, 5)
      BY <1>3
    <3>3. image.crtc[5] = b * 128 + (he % 32)
      <4>1. Field(ht, 5, 1) * 128 = b * 128
        BY <2>1
      <4> QED
        BY <3>2, <2>2, <4>1
    <3> QED
      BY <3>1, <3>3
  <2>4. Field(k, 0, 5) = k % 32
    BY Powers DEF Field
  <2>5. k % 32 = he % 32
    BY <2>3
  <2> QED
    BY <2>3, <2>4, <2>5
<1>10. (wd % 256) + 256 * Field(image.extended[0], 4, 2) = wd
  <2>1. PICK f \in 0..3 : f = Field(wd, 8, 2)
    BY Bits
  <2>2. PICK k \in Nat : k = image.extended[0] /\ k = f * 16
    BY <1>3, <2>1
  <2>3. Field(k, 4, 2) = (k \div 16) % 4
    BY Powers DEF Field
  <2>4. (k \div 16) % 4 = f
    BY <2>2
  <2>5. Field(wd, 8, 2) = (wd \div 256) % 4
    BY Powers DEF Field
  <2>6. wd <= 1023
    BY <1>1
  <2>7. wd = (wd % 256) + 256 * ((wd \div 256) % 4)
    BY <2>6, Parts
  <2> QED
    BY <2>1, <2>2, <2>3, <2>4, <2>5, <2>7
<1>11. /\ Shown(image).hDisplay = 8 * (image.crtc[1] + 256 * Field(e, 1, 1) + 1)
       /\ Shown(image).hStart = 8 * (image.crtc[4] + 256 * Field(e, 2, 1) + 1)
       /\ Shown(image).hSync =
            8 * ((Field(image.crtc[5], 0, 5) - (image.crtc[4] + 256 * Field(e, 2, 1))) % 32)
       /\ Shown(image).hTotal = 8 * (image.crtc[0] + 256 * Field(e, 0, 1) + 5)
       /\ Shown(image).row = 16 * (image.crtc[19] + 256 * Field(image.extended[0], 4, 2))
  BY <1>2 DEF Shown
<1> QED
  BY <1>1, <1>3, <1>8, <1>9, <1>10, <1>11

(* The image written shows the mode reviewed: its sizes, starts and row,     *)
(* its total to a character, its syncs to what the short end counters say.   *)
LEMMA ImageShowsTheMode ==
  ASSUME NEW m, IsReview(m), CanImage(m)
  PROVE  ShowsTheMode(CRTCImage(m), m)
<1>1. PICK c, image, w, h, x, y :
        /\ c = Counters(m) /\ image = CRTCImage(m) /\ w = m.mode.width /\ h = m.mode.height
        /\ x = m.timing.h /\ y = m.timing.v
  OBVIOUS
<1>2. /\ w \in Nat /\ h \in Nat
      /\ x \in [front : Nat, sync : Nat, back : Nat]
      /\ y \in [front : Nat, sync : Nat, back : Nat]
      /\ c.hd \in Nat /\ c.hs \in Nat /\ c.he \in Nat /\ c.ht \in Nat /\ c.wd \in Nat
      /\ c.vd \in Nat /\ c.vs \in Nat /\ c.ve \in Nat /\ c.vt \in Nat
      /\ c.hd <= 511 /\ c.hs <= 511 /\ c.he <= 511 /\ c.ht <= 511 /\ c.ht >= 4 /\ c.wd <= 1023
      /\ c.vd <= 4095 /\ c.vs <= 4095 /\ c.ve <= 4095 /\ c.vt <= 4095
  BY <1>1, CountersOf
<1>3. /\ w = 8 * (c.hd + 1) /\ w + x.front = 8 * (c.hs + 1)
      /\ w + x.front + x.sync = 8 * (c.he + 1)
      /\ 8 * (c.ht + 1) - (w + x.front + x.sync + x.back) \in {0, 8}
      /\ h = c.vd + 1 /\ h + y.front = c.vs + 1 /\ h + y.front + y.sync = c.ve + 1
      /\ h + y.front + y.sync + y.back = c.vt + 2
      /\ 16 * c.wd = 4 * w
  BY <1>1, CountersOf
<1>4. /\ c.vd <= 2047 => Shown(image).vDisplay = c.vd + 1
      /\ Shown(image).vStart = c.vs + 1
      /\ Shown(image).vSync = ((c.ve % 16) - c.vs) % 16
      /\ Shown(image).vTotal = c.vt + 2
  BY <1>1, <1>2, LinesShown
<1>5. /\ Shown(image).hDisplay = 8 * (c.hd + 1)
      /\ Shown(image).hStart = 8 * (c.hs + 1)
      /\ Shown(image).hSync = 8 * (((c.he % 32) - c.hs) % 32)
      /\ Shown(image).hTotal = 8 * (c.ht + 1)
      /\ Shown(image).row = 16 * c.wd
  BY <1>1, <1>2, CharactersShown
<1>6. /\ x.front \in Nat /\ x.sync \in Nat /\ x.back \in Nat
      /\ y.front \in Nat /\ y.sync \in Nat /\ y.back \in Nat
  BY <1>2
<1>7. x.sync < 256 => Shown(image).hSync = x.sync
  <2>1. PICK he \in Nat, hs \in Nat, s \in Nat : he = c.he /\ hs = c.hs /\ s = x.sync
    BY <1>2, <1>6
  <2>2. s = 8 * (he - hs)
    <3>1. w + x.front = 8 * (hs + 1) /\ w + x.front + s = 8 * (he + 1)
      BY <2>1, <1>3
    <3>2. PICK k \in Nat : k = w + x.front
      BY <1>2, <1>6
    <3> QED
      BY <3>1, <3>2
  <2>3. s < 256 => 8 * (((he % 32) - hs) % 32) = s
    BY <2>2
  <2> QED
    BY <1>5, <2>1, <2>3
<1>8. y.sync < 16 => Shown(image).vSync = y.sync
  <2>1. PICK ve \in Nat, vs \in Nat, s \in Nat : ve = c.ve /\ vs = c.vs /\ s = y.sync
    BY <1>2, <1>6
  <2>2. s = ve - vs
    <3>1. h + y.front = vs + 1 /\ h + y.front + s = ve + 1
      BY <2>1, <1>3
    <3>2. PICK k \in Nat : k = h + y.front
      BY <1>2, <1>6
    <3> QED
      BY <3>1, <3>2
  <2>3. s < 16 => ((ve % 16) - vs) % 16 = s
    BY <2>2
  <2> QED
    BY <1>4, <2>1, <2>3
<1>9. h <= 2048 => Shown(image).vDisplay = h
  BY <1>2, <1>3, <1>4
<1>10. /\ AxisTotal(w, x) = w + x.front + x.sync + x.back
       /\ AxisTotal(h, y) = h + y.front + y.sync + y.back
  BY DEF AxisTotal, SyncEnd, SyncStart
<1>11. Shown(image).vTotal = AxisTotal(h, y) /\ Shown(image).hTotal - AxisTotal(w, x) \in {0, 8}
  BY <1>3, <1>4, <1>5, <1>10
<1>12. /\ Shown(image).hDisplay = w /\ Shown(image).hStart = w + x.front
       /\ Shown(image).vStart = h + y.front /\ Shown(image).row = 4 * w
  BY <1>3, <1>4, <1>5
<1> QED
  BY <1>1, <1>7, <1>8, <1>9, <1>11, <1>12 DEF ShowsTheMode

-----------------------------------------------------------------------------
(* What the last Begin planned is what the object holds, and what it was     *)
(* begun with passes every stage it got through.                             *)
PlansHeld ==
  LET in == Alter(machine.in, history.last) IN
  /\ history.reach \in 0..9
  /\ history.reach > 0 => history.last \in machine.slips
  /\ \A i \in 1..history.reach : Passes(in, Preflight[i])
  /\ history.reach >= 4 => tx.range = RangePlan(in.base)
  /\ history.reach >= 6 => tx.image = CRTCImage(in.mapping.mode)
  /\ history.reach >= 7 => tx.pll = PLLPlan(in.pll)
  /\ history.reach >= 8 => tx.bytes = PLLBytes(in.pll, PLLPlan(in.pll))

(* Nothing was begun at first.                                               *)
LEMMA PlansInit == Init => PlansHeld
<1> SUFFICES ASSUME Init PROVE PlansHeld
  OBVIOUS
<1>1. history.reach = 0
  BY DEF Init, TxInit
<1> QED
  BY <1>1 DEF PlansHeld

(* A Begin plans what it passed, and only that.                              *)
LEMMA PlansBegin ==
  ASSUME Earned, PlansHeld, Begin
  PROVE  PlansHeld'
<1>0. PICK slip \in machine.slips :
        BeginWith(slip, Alter(machine.in, slip), Reach(Alter(machine.in, slip)))
  BY DEF Begin
<1>1. PICK in, reach :
        in = Alter(machine.in, slip) /\ reach = Reach(in) /\ BeginWith(slip, in, reach)
  BY <1>0
<1>2. reach \in 0..9 /\ \A i \in 1..reach : Passes(in, Preflight[i])
  BY <1>1, ReachBounds
<1>3. machine' = machine
  BY <1>1 DEF BeginWith
<1>4. history'.last = slip /\ history'.reach = reach
  <2>1. CASE reach = 9
    BY <1>1, <2>1 DEF BeginWith, Earned, TxTypeOK
  <2>2. CASE reach # 9
    BY <1>1, <2>2 DEF BeginWith, Earned, TxTypeOK
  <2> QED
    BY <2>1, <2>2
<1>5. /\ reach >= 4 => tx'.range = RangePlan(in.base)
      /\ reach >= 6 => tx'.image = CRTCImage(in.mapping.mode)
      /\ reach >= 7 => tx'.pll = PLLPlan(in.pll)
      /\ reach >= 8 => tx'.bytes = PLLBytes(in.pll, PLLPlan(in.pll))
  BY <1>1 DEF BeginWith
<1>6. Alter(machine'.in, history'.last) = in
  BY <1>1, <1>3, <1>4
<1> QED
  BY <1>2, <1>3, <1>4, <1>5, <1>6 DEF PlansHeld

(* A step that leaves the plans and the machine alone keeps what is held.    *)
LEMMA PlansKept ==
  ASSUME PlansHeld, machine' = machine, history'.last = history.last,
         history'.reach = history.reach, tx'.range = tx.range, tx'.image = tx.image,
         tx'.pll = tx.pll, tx'.bytes = tx.bytes
  PROVE  PlansHeld'
<1>1. Alter(machine'.in, history'.last) = Alter(machine.in, history.last)
  OBVIOUS
<1> QED
  BY <1>1 DEF PlansHeld

(* Every step does: only a Begin plans.                                      *)
LEMMA PlansNext == Earned /\ PlansHeld /\ [Next]_vars => PlansHeld'
<1> SUFFICES ASSUME Earned, PlansHeld, [Next]_vars PROVE PlansHeld'
  OBVIOUS
<1> DEFINE Kept == /\ machine' = machine /\ history'.last = history.last
                   /\ history'.reach = history.reach /\ tx'.range = tx.range
                   /\ tx'.image = tx.image /\ tx'.pll = tx.pll /\ tx'.bytes = tx.bytes
<1>1. ASSUME machine' = machine, tx' = tx, history' = history PROVE Kept
  BY <1>1
<1>2. ASSUME BeginPLLLock PROVE Kept
  BY <1>2 DEF BeginPLLLock, Earned, TxTypeOK
<1>3. ASSUME NEW t, t = Fail(tx), tx' = t, machine' = machine, history' = Owing(history)
      PROVE  Kept
  BY <1>3 DEF Fail, Owing, Earned, TxTypeOK
<1>4. ASSUME Observe PROVE Kept
  <2>1. PICK policy, elapsed, locked : ObservePLLLock(policy, elapsed, locked)
    BY <1>4 DEF Observe
  <2>2. PICK seen, next, result :
          /\ seen = [history EXCEPT !.samples =
                       Append(@, [ready |-> locked, late |-> elapsed >= policy.timeout])]
          /\ next = [tx EXCEPT !.lock = Polled(policy, tx.lock, elapsed, locked).poll]
          /\ \/ tx' = next /\ history' = seen
             \/ tx' = [next EXCEPT !.state = "PLL_LOCKED"] /\ history' = seen
             \/ tx' = Fail(next) /\ history' = Owing(seen)
          /\ result = machine' /\ machine' = machine
    BY <2>1 DEF ObservePLLLock
  <2> QED
    BY <2>2 DEF Fail, Owing, Earned, TxTypeOK
<1>5. ASSUME ReadBack PROVE Kept
  <2>1. PICK seen : ReportPrimaryCRTCReadback(seen)
    BY <1>5 DEF ReadBack
  <2>2. CASE ReadsBack(tx.image, seen)
    BY <2>1, <2>2 DEF ReportPrimaryCRTCReadback, Earned, TxTypeOK
  <2>3. CASE ~ReadsBack(tx.image, seen)
    BY <2>1, <2>3, <1>3 DEF ReportPrimaryCRTCReadback
  <2> QED
    BY <2>2, <2>3
<1>6. ASSUME Enter PROVE Kept
  <2>1. PICK succeeded \in BOOLEAN : ReportLinearModeEntry(succeeded)
    BY <1>6 DEF Enter
  <2>2. CASE succeeded
    BY <2>1, <2>2 DEF ReportLinearModeEntry, Earned, TxTypeOK
  <2>3. CASE ~succeeded
    BY <2>1, <2>3, <1>3 DEF ReportLinearModeEntry
  <2> QED
    BY <2>2, <2>3
<1>7. ASSUME RequireModeRollback PROVE Kept
  <2>1. CASE tx.state = "ROLLBACK_REQUIRED"
    BY <1>7, <2>1 DEF RequireModeRollback
  <2>2. CASE tx.state # "ROLLBACK_REQUIRED"
    BY <1>7, <2>2, <1>3 DEF RequireModeRollback
  <2> QED
    BY <2>1, <2>2
<1>8. ASSUME Restore PROVE Kept
  <2>1. PICK stage \in RollbackStages, restored \in BOOLEAN : ReportModeRollbackStage(stage, restored)
    BY <1>8 DEF Restore
  <2>2. CASE restored
    BY <2>1, <2>2 DEF ReportModeRollbackStage, Earned, TxTypeOK
  <2>3. CASE ~restored
    BY <2>1, <2>3 DEF ReportModeRollbackStage
  <2> QED
    BY <2>2, <2>3
<1>9. ASSUME CompleteModeRollback PROVE Kept
  BY <1>9 DEF CompleteModeRollback, Earned, TxTypeOK
<1>10. ASSUME Begin PROVE PlansHeld'
  BY <1>10, PlansBegin
<1>11. ASSUME Kept PROVE PlansHeld'
  BY <1>11, PlansKept
<1>12. CASE TxNext
  <2> HIDE DEF Kept
  <2> QED
    BY <1>12, <1>2, <1>4, <1>5, <1>6, <1>7, <1>8, <1>9, <1>10, <1>11 DEF TxNext
<1>13. CASE UNCHANGED txVars
  BY <1>13, <1>1, <1>11 DEF txVars
<1>14. CASE UNCHANGED vars
  BY <1>14, <1>1, <1>11 DEF vars
<1> QED
  BY <1>12, <1>13, <1>14 DEF Next

(* Plans of stages passed show the mode: each by its planner.                *)
LEMMA HeldShows == Earned /\ PlansHeld => PlansShow
<1> SUFFICES ASSUME Earned, PlansHeld PROVE PlansShow
  OBVIOUS
<1>1. PICK in, m, reach, r :
        /\ in = Alter(machine.in, history.last) /\ m = in.mapping.mode
        /\ reach = history.reach /\ r = in.pll
  OBVIOUS
<1>2. reach \in 0..9 /\ \A i \in 1..reach : Passes(in, Preflight[i])
  BY <1>1 DEF PlansHeld
<1>3. ASSUME reach >= 4 PROVE IsReview(m)
  <2>1. history.last \in machine.slips /\ machine \in Machines
    BY <1>1, <1>2, <1>3 DEF PlansHeld, Earned, TxTypeOK
  <2> QED
    BY <2>1, <1>1, MachineAssumption
<1>4. ASSUME reach >= 4 PROVE tx.range[1].pages * Page >= Scanout(m)
  <2>1. tx.range = RangePlan(in.base)
    BY <1>1, <1>4 DEF PlansHeld
  <2>2. tx.range[1].pages = DeploymentBytes \div Page
    BY <2>1 DEF RangePlan
  <2>3. Passes(in, "range")
    BY <1>2, <1>4 DEF Preflight
  <2>4. CanPublish(in.mapping, in.base)
    BY <2>3 DEF Passes
  <2>5. m.mapping = DeploymentBytes /\ m.mapping >= Scanout(m)
    BY <2>4, <1>1 DEF CanPublish, ValidMapping, ValidModeReview
  <2>6. (DeploymentBytes \div Page) * Page = DeploymentBytes
    BY DEF DeploymentBytes, Page
  <2> QED
    BY <2>2, <2>5, <2>6
<1>5. ASSUME reach >= 6 PROVE ShowsTheMode(tx.image, m)
  <2>1. tx.image = CRTCImage(m)
    BY <1>1, <1>5 DEF PlansHeld
  <2>2. Passes(in, "image")
    BY <1>2, <1>5 DEF Preflight
  <2>3. CanImage(m)
    BY <2>2, <1>1 DEF Passes
  <2>4. IsReview(m)
    BY <1>2, <1>3, <1>5
  <2> QED
    BY <2>1, <2>3, <2>4, ImageShowsTheMode
<1>6. ASSUME reach >= 7
      PROVE  tx.pll = PLLPlan(r) /\ m.clock \in Nat /\ Dividers(m.clock) # {} /\ r.mode.clock = m.clock
  <2>1. tx.pll = PLLPlan(r)
    BY <1>1, <1>6 DEF PlansHeld
  <2>2. Passes(in, "same") /\ Passes(in, "pll")
    BY <1>2, <1>6 DEF Preflight
  <2>3. r.mode = m /\ CanPlanPLL(r)
    BY <2>2, <1>1 DEF Passes
  <2>4. Dividers(m.clock) # {}
    BY <2>3 DEF CanPlanPLL
  <2>5. m.clock \in Nat
    BY <1>2, <1>3, <1>6 DEF IsReview
  <2> QED
    BY <2>1, <2>3, <2>4, <2>5
<1>7. ASSUME reach >= 7 PROVE tx.pll.requested = m.clock /\ NearestSetting(tx.pll)
  BY <1>6, <1>7, PlanIsNearest
<1>8. ASSUME reach >= 8
      PROVE  PLLMakes(tx.bytes) = tx.pll.achieved /\ tx.pll.vco \in VcoMin..VcoMax
  <2>1. reach >= 7
    BY <1>2, <1>8
  <2>2. tx.bytes = PLLBytes(r, PLLPlan(r))
    BY <1>1, <1>8 DEF PlansHeld
  <2>3. PICK d \in Dividers(m.clock) : PLLPlan(r) = Candidate(m.clock, d[1], d[2])
    BY <1>6, <2>1, PlanIsPreferred
  <2>4. PLLMakes(PLLBytes(r, PLLPlan(r))) = PLLPlan(r).achieved
    BY <1>6, <2>1, <2>3, BytesSayPlan
  <2>5. Passes(in, "bytes")
    BY <1>2, <1>8 DEF Preflight
  <2>6. CanEncode(r, PLLPlan(r))
    BY <2>5, <1>1 DEF Passes
  <2>7. PLLPlan(r).vco \in VcoMin..VcoMax
    BY <2>6 DEF CanEncode
  <2> QED
    BY <1>6, <2>1, <2>2, <2>4, <2>7
<1> QED
  BY <1>1, <1>4, <1>5, <1>7, <1>8 DEF PlansShow
-----------------------------------------------------------------------------
(* A pitch rounded up holds its row.                                         *)
LEMMA RowsFit ==
  ASSUME NEW width \in Nat, NEW bytes \in Nat, NEW alignment \in Nat \ {0}
  PROVE  ((width * bytes + alignment - 1) \div alignment) * alignment >= width * bytes
<1>1. PICK a \in Nat : a = width * bytes
  OBVIOUS
<1>2. PICK s \in Nat : s = a + alignment - 1
  OBVIOUS
<1>3. PICK k \in Int : k = s \div alignment
  OBVIOUS
<1>4. k \in Nat /\ s < alignment * k + alignment
  BY <1>3, Cut
<1>5. PICK p \in Int : p = alignment * k /\ p = k * alignment
  BY <1>4
<1>6. p >= a
  BY <1>2, <1>4, <1>5
<1> QED
  BY <1>1, <1>2, <1>3, <1>5, <1>6

(* A candidate for hardware was attested, and its surfaces fit.              *)
LEMMA CandidatesFit == Earned => CandidateFits
<1> SUFFICES ASSUME Earned, NEW q \in machine.budgets,
                    NEW attested \in SUBSET {"presentation", "fence", "fallback"},
                    NEW r, r = machine.in.mapping, CanRequestBackend(r, q),
                    SelectBackend(BackendRequest(r, attested)) = "HARDWARE_CANDIDATE"
             PROVE  /\ {"sole_owner", "recovery_path"} \subseteq r.verified
                    /\ {"presentation", "fence"} \subseteq attested
                    /\ r.mode.pitch * r.mode.mode.height + q.reserved + 1024 * 768 * (2 * 4 + 2)
                         <= r.mode.profile.vram
  BY DEF CandidateFits
<1>1. machine \in Machines
  BY DEF Earned, TxTypeOK
<1>2. IsBudget(q) /\ IsReview(r.mode)
  BY <1>1, MachineAssumption
<1> DEFINE b == BackendRequest(r, attested)
<1>3. "presentation" \in b.verified /\ CandidateEvidence \subseteq b.verified
  BY DEF SelectBackend
<1>4. b.verified = (r.verified \cap {"sole_owner", "recovery_path"})
                   \cup {"profile", "mode_record", "mapping_review", "render_budget"}
                   \cup (attested \cap {"presentation", "fence", "fallback"})
  BY DEF BackendRequest
<1>5. {"sole_owner", "recovery_path"} \subseteq r.verified
      /\ {"presentation", "fence"} \subseteq attested
  <2> HIDE DEF b
  <2> QED
    BY <1>3, <1>4 DEF CandidateEvidence
<1>6. /\ q.width = 1024 /\ q.height = 768 /\ q.colorBits = 32 /\ q.depthBits = 16
      /\ q.buffers = 2 /\ q.available = r.mode.profile.vram /\ q.scanout = Scanout(r.mode)
      /\ BudgetUsed(q) <= q.available /\ q.alignment # 0
  BY DEF CanRequestBackend, IsFixedTarget, FixedTarget, ValidBudget
<1>7. q.alignment \in Nat \ {0} /\ q.reserved \in Nat /\ q.scanout \in Nat /\ q.available \in Nat
  BY <1>2, <1>6 DEF IsBudget
<1>8. PICK colour \in Nat, depth \in Nat :
        /\ colour = AlignedPitch(1024, 32, q.alignment) /\ depth = AlignedPitch(1024, 16, q.alignment)
        /\ colour >= 1024 * 4 /\ depth >= 1024 * 2
  <2>1. PICK colour \in Nat :
          colour = AlignedPitch(1024, 32, q.alignment) /\ colour >= 1024 * 4
    <3>1. ((1024 * 4 + q.alignment - 1) \div q.alignment) * q.alignment >= 1024 * 4
      BY <1>7, RowsFit
    <3>2. PICK a \in Nat : a = q.alignment /\ a # 0
      BY <1>7
    <3>3. PICK k \in Nat : k = ((1024 * 4 + a - 1) \div a) * a
      BY <3>2
    <3>4. AlignedPitch(1024, 32, q.alignment) = k
      BY <3>2, <3>3 DEF AlignedPitch
    <3> QED
      BY <3>1, <3>2, <3>3, <3>4
  <2>2. PICK depth \in Nat :
          depth = AlignedPitch(1024, 16, q.alignment) /\ depth >= 1024 * 2
    <3>1. ((1024 * 2 + q.alignment - 1) \div q.alignment) * q.alignment >= 1024 * 2
      BY <1>7, RowsFit
    <3>2. PICK a \in Nat : a = q.alignment /\ a # 0
      BY <1>7
    <3>3. PICK k \in Nat : k = ((1024 * 2 + a - 1) \div a) * a
      BY <3>2
    <3>4. AlignedPitch(1024, 16, q.alignment) = k
      BY <3>2, <3>3 DEF AlignedPitch
    <3> QED
      BY <3>1, <3>2, <3>3, <3>4
  <2> QED
    BY <2>1, <2>2
<1>9. BudgetUsed(q) = q.scanout + q.reserved + (colour * 768) * 2 + depth * 768
  BY <1>6, <1>8 DEF BudgetUsed, SurfaceBytes, DepthBytes
<1>10. q.scanout + q.reserved + 1024 * 768 * (2 * 4 + 2) <= q.available
  BY <1>6, <1>7, <1>8, <1>9
<1> QED
  BY <1>5, <1>6, <1>10 DEF Scanout

(* The plans a Begin leaves show the mode reviewed, for every review, slip   *)
(* and sequence of calls; a hardware candidate fits in the board's memory.   *)
THEOREM PlansShowTheModeAlways == Spec => []PlansShowTheMode
<1>1. Init => PlansHeld
  BY PlansInit
<1>2. Earned /\ PlansHeld /\ [Next]_vars => PlansHeld'
  BY PlansNext
<1>3. Earned /\ PlansHeld => PlansShowTheMode
  BY HeldShows, CandidatesFit DEF PlansShowTheMode
<1> QED
  BY <1>1, <1>2, <1>3, EarnedAlways, PTL DEF Spec
=============================================================================
