---------------------------- MODULE Aperture_proofs ----------------------------
(* Proofs about the aperture of the card.                                      *)
(*                                                                             *)
(* OffscreenWindow, what the driver maps of it, for any sizes, boards, modes   *)
(* and clients and any number of mode sets.  Any mapping may fail but a        *)
(* witness's, and for the window's being clean those that put saved words      *)
(* back: the run lets a witness's fail too, and shows that the witnesses left  *)
(* still see an alias of the sizes boards come in.                             *)
(*                                                                             *)
(* PciSurvey, whether its addresses are the card's alone, for any buses,       *)
(* devices, base registers and ranges.                                         *)
EXTENDS Aperture, FiniteSetTheorems, TLAPS

\* The first witness stands on the first page, where a board that wraps starts over.
WitnessesAreMapped == "witness" \notin MayFail

\* Everything proved so far is memory, and the region in hand lies above it.
RegionIsAbove ==
    /\ reached <= board.size
    /\ at \in ProofSteps => from = reached /\ 0 < from /\ from < to
    /\ at = "stage_two" => reached = StageOneTo
    /\ at \in ProofSteps \ {"witness"} => 0 \in DOMAIN kept

\* Nobody uses the window before it is open, and it is not open during a proof.
Unopened ==
    /\ windowState # "open" =>
         fds = {} /\ \A c \in Clients : mapped[c] = {}
    /\ at \notin {"off", "clear"} => windowState # "open"
    /\ at \in {"boot"} => windowState = "unopened" /\ ~registered
    /\ at \in {"plan", "stage_two", "decide", "clean", "publish_end", "publish_state"} \cup ProofSteps =>
         registered /\ windowState = "unopened"
    /\ registered => windowStart = mode.start
    /\ windowState = "open" => registered /\ windowEnd <= board.size
    /\ at = "publish_state" => windowEnd = reached

\* What clients have mapped and drawn is in the window.
InsideWindow ==
    /\ \A c \in Clients : \A a \in mapped[c] \ {Batch} : InWindow(a)
    /\ \A c \in DOMAIN mem : mem[c][1] = "client" => windowState = "open" /\ windowStart <= c
    /\ \A a \in DOMAIN kept : kept[a][1] # "client"

KeptIsBounded == \E n \in Nat : DOMAIN kept \subseteq 0 .. n

IInv == TypeOK /\ RegionIsAbove /\ Unopened /\ InsideWindow /\ KeptIsBounded

-------------------------------------------------------------------------------
(* Memory. *)

\* A set of naturals below a bound has a greatest member.  The intervals above its
\* members are finite sets, and inclusion of finite sets is well-founded.
LEMMA GreatestIsMember ==
    ASSUME NEW n \in Nat, NEW S, S \subseteq 0 .. n, S # {}
    PROVE  Max(S) \in S
<1> DEFINE Above(x) == {y \in 0 .. n : y > x}
           R == StrictSubsetOrdering(0 .. n)
           T == {Above(x) : x \in S}
<1>1. PICK t \in T : \A u \in T : ~ (<<u, t>> \in R)
  <2>1. T \subseteq FiniteSubsetsOf(0 .. n) /\ T # {}
    <3>1. IsFiniteSet(0 .. n)
      BY FS_Interval
    <3>2. ASSUME NEW x \in S PROVE Above(x) \in SUBSET (0 .. n) /\ IsFiniteSet(Above(x))
      <4>1. Above(x) \subseteq 0 .. n
        OBVIOUS
      <4> HIDE DEF Above
      <4> QED
        BY <3>1, <4>1, FS_Subset
    <3> QED
      BY <3>2 DEF FiniteSubsetsOf
  <2>2. IsWellFoundedOn(R, FiniteSubsetsOf(0 .. n))
    BY FS_StrictSubsetOrderingWellFounded
  <2> HIDE DEF T, R
  <2> QED
    BY <2>1, <2>2, WFMin
<1>2. PICK x \in S : t = Above(x)
  OBVIOUS
<1>3. ASSUME NEW y \in S, y > x PROVE FALSE
  <2>1. Above(y) \subseteq Above(x) /\ y \in Above(x) /\ y \notin Above(y)
    BY <1>3
  <2>2. <<Above(y), Above(x)>> \in R
    BY <2>1, Zenon DEF StrictSubsetOrdering
  <2> QED
    BY <1>1, <1>2, <2>2
<1> QED
  <2>1. \A y \in S : x >= y
    BY <1>3
  <2> QED
    BY <2>1 DEF Max

\* A cell holds what was written at some offset decoded to it, or what it held.
LEMMA StoreWrites ==
    ASSUME NEW m, NEW v, NEW n \in Nat, DOMAIN v \subseteq 0 .. n
    PROVE  /\ DOMAIN Store(m, v) = DOMAIN m
           /\ \A c \in DOMAIN m :
                \/ /\ \A a \in DOMAIN v : Decode(a) # c
                   /\ Store(m, v)[c] = m[c]
                \/ \E a \in DOMAIN v : Decode(a) = c /\ Store(m, v)[c] = v[a]
<1> SUFFICES ASSUME NEW c \in DOMAIN m
             PROVE  \/ (\A a \in DOMAIN v : Decode(a) # c) /\ Store(m, v)[c] = m[c]
                    \/ \E a \in DOMAIN v : Decode(a) = c /\ Store(m, v)[c] = v[a]
  BY DEF Store
<1> DEFINE hits == {a \in DOMAIN v : Decode(a) = c}
<1>1. CASE hits = {}
  BY <1>1 DEF Store
<1>2. CASE hits # {}
  <2>1. Max(hits) \in hits
    BY <1>2, GreatestIsMember
  <2>2. Store(m, v)[c] = v[Max(hits)]
    BY <1>2 DEF Store
  <2> QED
    BY <2>1, <2>2
<1> QED
  BY <1>1, <1>2

\* m2 is m with nothing but values of kinds K written over it.
Over(m2, m, K) ==
    /\ DOMAIN m2 = DOMAIN m
    /\ \A c \in DOMAIN m : m2[c] = m[c] \/ m2[c][1] \in K

\* A store changes a page only to one of the values stored.
LEMMA StoreIsOver ==
    ASSUME NEW m, NEW v, NEW K, NEW n \in Nat, DOMAIN v \subseteq 0 .. n,
           \A a \in DOMAIN v : v[a][1] \in K
    PROVE  Over(Store(m, v), m, K)
BY StoreWrites DEF Over

Unclaimed == Kinds \ {"client"}

\* What a driver's step may do to memory: types stay, and no client's kind appears.
LEMMA OverKeepsTypes ==
    ASSUME TypeOK, board' = board, Over(mem', mem, Kinds)
    PROVE  DOMAIN mem' = 0 .. board'.size - 1 /\ \A c \in DOMAIN mem' : mem'[c][1] \in Kinds
BY DEF TypeOK, Over

\* A page that is a client's afterwards was one before.
LEMMA OverKeepsClients ==
    ASSUME InsideWindow, Over(mem', mem, Unclaimed)
    PROVE  \A c \in DOMAIN mem' : mem'[c][1] = "client" => mem[c][1] = "client" /\ c \in DOMAIN mem
BY DEF InsideWindow, Over, Unclaimed

\* On its own board a page below its size decodes to itself, and one past it to the
\* first page if the board wraps and nowhere if not.
LEMMA DecodeFacts ==
    ASSUME TypeOK
    PROVE  /\ board.size \in Nat /\ board.size > 0
           /\ \A a \in Nat : a < board.size => Decode(a) = a
           /\ Decode(board.size) = IF board.wraps THEN 0 ELSE Nowhere
<1>1. board.size \in Nat /\ board.size > 0 /\ board.wraps \in BOOLEAN
  BY BoardAssumption, SizeAssumption DEF TypeOK
<1>2. board.size % board.size = 0
  BY <1>1
<1> QED
  BY <1>1, <1>2 DEF Decode

-------------------------------------------------------------------------------
\* The inductive invariant holds at boot.
LEMMA InitEstablishes == Init => IInv
<1> SUFFICES ASSUME Init PROVE IInv
  OBVIOUS
<1> USE SizeAssumption, BoardAssumption, ModeAssumption DEF Init
<1>1. TypeOK
  <2>1. limit \in {Small, Conservative, Gated}
    BY DEF AttemptLimit, VramDeclaration
  <2>2. ceiling \in Nat
    BY <2>1 DEF WindowCeiling
  <2>3. \A c \in DOMAIN mem : mem[c][1] \in Kinds
    BY DEF Kinds
  <2>4. at \in Steps
    BY DEF Steps
  <2>5. mapped \in [Clients -> SUBSET (Nat \cup {Batch})]
    OBVIOUS
  <2> QED
    BY <2>1, <2>2, <2>3, <2>4, <2>5 DEF TypeOK, None
<1>2. RegionIsAbove
  BY DEF RegionIsAbove, ProofSteps
<1>3. Unopened
  BY DEF Unopened, ProofSteps
<1>4. InsideWindow
  BY DEF InsideWindow, None
<1>5. KeptIsBounded
  BY DEF KeptIsBounded, None
<1> QED
  BY <1>1, <1>2, <1>3, <1>4, <1>5 DEF IInv

\* Registering publishes an empty window.
LEMMA RegisterKeeps == ASSUME IInv, Register PROVE IInv'
<1> USE DEF IInv, Register, Unused, settled, proof, users
<1>1. TypeOK'
  BY ModeAssumption DEF TypeOK, Steps
<1>2. RegionIsAbove'
  BY DEF RegionIsAbove, ProofSteps
<1>3. Unopened'
  BY DEF Unopened, ProofSteps
<1>4. InsideWindow'
  BY DEF InsideWindow, Unopened
<1>5. KeptIsBounded'
  BY DEF KeptIsBounded
<1> QED
  BY <1>1, <1>2, <1>3, <1>4, <1>5

\* A mode set starts the probe only over a window that is not open.
LEMMA StartModeSetKeeps == ASSUME IInv, StartModeSet PROVE IInv'
<1> USE DEF IInv, StartModeSet, settled, window, proof, users
<1>1. TypeOK'
  <2>1. at' \in Steps
    BY DEF Steps, ProbeSteps
  <2>2. modeSets' \in Nat
    <3>1. modeSets \in Nat
      BY DEF TypeOK
    <3>2. modeSets' = modeSets + 1
      OBVIOUS
    <3> HIDE DEF IInv, StartModeSet
    <3> QED
      BY <3>1, <3>2
  <2> QED
    BY <2>1, <2>2 DEF TypeOK
<1>2. RegionIsAbove'
  BY DEF RegionIsAbove, ProofSteps
<1>3. Unopened'
  BY DEF Unopened, ProofSteps
<1>4. InsideWindow'
  BY DEF InsideWindow, InWindow
<1>5. KeptIsBounded'
  BY DEF KeptIsBounded
<1> QED
  BY <1>1, <1>2, <1>3, <1>4, <1>5

\* The four passes of the probe change memory and the words put aside, and no
\* client's drawing is there to be saved or written over.
LEMMA ProbePassKeeps ==
    ASSUME IInv, NEW here \in ProbeSteps, NEW next \in ProbeSteps \cup {"plan", "clear"},
           NEW saved, NEW m, ProbePass(here, next, saved, m), failures' \in Nat,
           next = "plan" => registered /\ windowState = "unopened",
           Over(m, mem, Unclaimed),
           \A a \in DOMAIN saved : a \in Nat /\ saved[a][1] \in Unclaimed,
           \E n \in Nat : DOMAIN saved \subseteq 0 .. n
    PROVE  IInv'
<1> USE DEF IInv, ProbePass, Unused, settled, window, proof, users
<1>1. TypeOK'
  <2>1. at' \in Steps
    BY DEF Steps, ProbeSteps
  <2>2. DOMAIN mem' = 0 .. board'.size - 1 /\ \A c \in DOMAIN mem' : mem'[c][1] \in Kinds
    BY OverKeepsTypes DEF Over, Unclaimed
  <2>3. \A a \in DOMAIN kept' : a \in Nat /\ kept'[a][1] \in Kinds
    BY DEF Unclaimed
  <2> QED
    BY <2>1, <2>2, <2>3 DEF TypeOK
<1>2. RegionIsAbove'
  BY DEF RegionIsAbove, ProofSteps, ProbeSteps
<1>3. Unopened'
  BY DEF Unopened, ProofSteps, ProbeSteps
<1>4. InsideWindow'
  <2>1. \A c \in DOMAIN mem' : mem'[c][1] = "client" => mem[c][1] = "client" /\ c \in DOMAIN mem
    BY OverKeepsClients
  <2> QED
    BY <2>1 DEF InsideWindow, InWindow, Unclaimed
<1>5. KeptIsBounded'
  BY DEF KeptIsBounded
<1> QED
  BY <1>1, <1>2, <1>3, <1>4, <1>5

\* At most one more mapping has failed.
LEMMA CountIsNat ==
    ASSUME TypeOK, NEW routine, NEW S, NEW F \in Failing(routine, S), Count(F)
    PROVE  failures' \in Nat /\ F \subseteq S
<1>1. F = {} \/ \E x \in S : F = {x}
  BY DEF Failing
<1>2. Cardinality(F) \in Nat
  BY <1>1, FS_EmptySet, FS_Singleton
<1> QED
  BY <1>1, <1>2 DEF Count, TypeOK

\* The failures counted in one pass are finitely many.
LEMMA CountsAreNat ==
    ASSUME IInv, NEW r, NEW S, NEW F \in Failing(r, S),
           NEW q, NEW T, NEW G \in Failing(q, T), Count(F \cup G)
    PROVE  failures' \in Nat
<1>1. (F = {} \/ \E x \in S : F = {x}) /\ (G = {} \/ \E x \in T : G = {x})
  BY DEF Failing
<1>2. IsFiniteSet(F) /\ IsFiniteSet(G)
  <2>1. IsFiniteSet({}) /\ \A x : IsFiniteSet({x})
    BY FS_EmptySet, FS_Singleton
  <2> QED
    BY <1>1, <2>1, Zenon
<1>3. Cardinality(F \cup G) \in Nat
  BY <1>2, FS_Union, FS_CardinalityType
<1> QED
  BY <1>3 DEF Count, IInv, TypeOK

\* Nothing a driver reads while the window is shut was drawn by a client.
LEMMA ReadsAreUnclaimed ==
    ASSUME IInv, windowState # "open", NEW a \in Nat
    PROVE  Read(mem, a)[1] \in Unclaimed
<1>1. Decode(a) = Nowhere \/ Decode(a) \in DOMAIN mem
  BY DecodeFacts DEF IInv, TypeOK, Decode
<1> QED
  BY <1>1 DEF IInv, TypeOK, InsideWindow, Read, Unclaimed, Kinds

\* What is kept is bounded and unclaimed, and so is any part of it.
LEMMA KeptFacts ==
    ASSUME IInv, NEW F
    PROVE  /\ \A a \in DOMAIN Restrict(kept, DOMAIN kept \ F) :
                 a \in Nat /\ Restrict(kept, DOMAIN kept \ F)[a][1] \in Unclaimed
           /\ DOMAIN Restrict(kept, DOMAIN kept \ F) = DOMAIN kept \ F
           /\ \E n \in Nat : DOMAIN kept \ F \subseteq 0 .. n
<1>1. \A a \in DOMAIN kept : a \in Nat /\ kept[a][1] \in Unclaimed
  BY DEF IInv, TypeOK, InsideWindow, Unclaimed
<1>2. \E n \in Nat : DOMAIN kept \subseteq 0 .. n
  BY DEF IInv, KeptIsBounded
<1> QED
  BY <1>1, <1>2 DEF Restrict

\* Putting back the saved words writes no client's value anywhere.
LEMMA RestoredIsOver ==
    ASSUME IInv, NEW F, NEW m
    PROVE  Over(Store(m, Restrict(kept, DOMAIN kept \ F)), m, Unclaimed)
<1>1. PICK n \in Nat : DOMAIN kept \ F \subseteq 0 .. n
  BY KeptFacts
<1> DEFINE v == Restrict(kept, DOMAIN kept \ F)
<1>2. DOMAIN v \subseteq 0 .. n /\ \A a \in DOMAIN v : v[a][1] \in Unclaimed
  BY <1>1, KeptFacts
<1>3. Over(Store(m, v), m, Unclaimed)
  <2> HIDE DEF v
  <2> QED
    BY <1>2, StoreIsOver
<1> QED
  BY <1>3

\* Nor does marking pages with a signature of another kind.
LEMMA MarkedIsOver ==
    ASSUME NEW what \in Kinds, NEW K, what \in K, NEW S, NEW n \in Nat, S \subseteq 0 .. n, NEW m
    PROVE  Over(Store(m, Marked(what, S)), m, K)
<1>1. DOMAIN Marked(what, S) \subseteq 0 .. n /\ \A a \in DOMAIN Marked(what, S) : Marked(what, S)[a][1] \in K
  BY DEF Marked
<1> QED
  BY <1>1, StoreIsOver

\* Nor does zeroing them.
LEMMA ZerosAreOver ==
    ASSUME NEW S, NEW n \in Nat, S \subseteq 0 .. n, NEW m
    PROVE  Over(Store(m, Zeros(S)), m, Unclaimed)
<1>1. DOMAIN Zeros(S) \subseteq 0 .. n /\ \A a \in DOMAIN Zeros(S) : Zeros(S)[a][1] \in Unclaimed
  BY DEF Zeros, Unclaimed, Kinds
<1> QED
  BY <1>1, StoreIsOver

\* The probe stays below what this boot may attempt.
LEMMA ProbeOffsetsFacts == ASSUME IInv PROVE limit \in Nat /\ ProbeOffsets \subseteq 0 .. limit
<1>1. limit \in Nat /\ Conservative \in Nat /\ Meg \in Nat \ {0} /\ mode.visible \in Nat
  BY SizeAssumption, ModeAssumption DEF IInv, TypeOK
<1> DEFINE top == Lesser(limit, Conservative)
<1>2. top \in Nat /\ top <= limit
  BY <1>1 DEF Lesser
<1>3. ASSUME NEW k \in mode.visible \div Meg + 2 .. top \div Meg - 1
      PROVE  k * Meg \in 0 .. limit /\ (k + 1) * Meg - 1 \in 0 .. limit
  <2>1. mode.visible \div Meg \in Nat /\ top \div Meg \in Nat
    BY <1>1, <1>2
  <2>2. k \in Nat /\ k + 1 <= top \div Meg
    BY <2>1
  <2>3. (top \div Meg) * Meg <= top
    BY <1>1, <1>2
  <2>4. (k + 1) * Meg <= (top \div Meg) * Meg
    BY <1>1, <2>1, <2>2
  <2>5. (k + 1) * Meg = k * Meg + Meg /\ k * Meg \in Nat
    BY <1>1, <2>2
  <2> QED
    BY <1>1, <1>2, <2>3, <2>4, <2>5
<1> QED
  BY <1>1, <1>3 DEF ProbeOffsets

\* The four passes of the probe touch the window's memory only while nobody uses it.
LEMMA ProbeKeeps ==
    ASSUME IInv, ProbeSave \/ ProbeWrite \/ ProbeRead \/ ProbeRestore
    PROVE  IInv'
<1>1. Over(mem, mem, Unclaimed)
  BY DEF Over
<1>2. limit \in Nat /\ ProbeOffsets \subseteq 0 .. limit
  BY ProbeOffsetsFacts
<1>3. \A a \in ProbeOffsets : a \in Nat
  BY <1>2
<1>4. CASE ProbeSave
  <2>1. PICK F \in Failing("probe_save", ProbeOffsets) :
           /\ ProbePass("probe_save", "probe_write", [a \in ProbeOffsets \ F |-> Read(mem, a)], mem)
           /\ Count(F)
    BY <1>4 DEF ProbeSave
  <2>2. windowState # "open" /\ at = "probe_save"
    BY <2>1 DEF IInv, Unopened, ProbePass, ProbeSteps
  <2>3. failures' \in Nat
    BY <2>1, CountIsNat DEF IInv
  <2> DEFINE saved == [a \in ProbeOffsets \ F |-> Read(mem, a)]
  <2>4. \A a \in DOMAIN saved : a \in Nat /\ saved[a][1] \in Unclaimed
    <3>1. ASSUME NEW a \in ProbeOffsets \ F PROVE a \in Nat /\ Read(mem, a)[1] \in Unclaimed
      <4>1. a \in Nat
        BY <1>3, Zenon
      <4> QED
        BY <4>1, <2>2, ReadsAreUnclaimed
    <3> QED
      BY <3>1
  <2>5. \E n \in Nat : DOMAIN saved \subseteq 0 .. n
    BY <1>2
  <2> QED
    BY <1>1, <2>1, <2>2, <2>3, <2>4, <2>5, ProbePassKeeps DEF ProbeSteps
<1>5. CASE ProbeWrite
  <2>1. PICK F \in Failing("probe_write", DOMAIN kept) :
           /\ ProbePass("probe_write", "probe_read", Restrict(kept, DOMAIN kept \ F),
                        Store(mem, Marked("probe", DOMAIN kept \ F)))
           /\ Count(F)
    BY <1>5 DEF ProbeWrite
  <2>2. windowState # "open" /\ at = "probe_write"
    BY <2>1 DEF IInv, Unopened, ProbePass, ProbeSteps
  <2>3. failures' \in Nat
    BY <2>1, CountIsNat DEF IInv
  <2> DEFINE saved == Restrict(kept, DOMAIN kept \ F)
             m == Store(mem, Marked("probe", DOMAIN kept \ F))
  <2>4. /\ \A a \in DOMAIN saved : a \in Nat /\ saved[a][1] \in Unclaimed
        /\ \E n \in Nat : DOMAIN saved \subseteq 0 .. n
    BY KeptFacts
  <2>5. Over(Store(mem, Marked("probe", DOMAIN kept \ F)), mem, Unclaimed)
    <3>1. PICK n \in Nat : DOMAIN kept \ F \subseteq 0 .. n
      BY KeptFacts
    <3>2. "probe" \in Kinds /\ "probe" \in Unclaimed
      BY DEF Kinds, Unclaimed
    <3> QED
      BY <3>1, <3>2, MarkedIsOver
  <2>6. /\ ProbePass("probe_write", "probe_read", saved, m)
        /\ Over(m, mem, Unclaimed)
    BY <2>1, <2>5
  <2> HIDE DEF saved, m
  <2> QED
    BY <2>2, <2>3, <2>4, <2>6, ProbePassKeeps DEF ProbeSteps
<1>6. CASE ProbeRead
  <2>1. PICK F \in Failing("probe_read", DOMAIN kept) :
           /\ ProbePass("probe_read", "probe_restore", Restrict(kept, DOMAIN kept \ F), mem)
           /\ Count(F)
    BY <1>6 DEF ProbeRead
  <2>2. windowState # "open" /\ at = "probe_read"
    BY <2>1 DEF IInv, Unopened, ProbePass, ProbeSteps
  <2>3. failures' \in Nat
    BY <2>1, CountIsNat DEF IInv
  <2>4. /\ \A a \in DOMAIN Restrict(kept, DOMAIN kept \ F) :
              a \in Nat /\ Restrict(kept, DOMAIN kept \ F)[a][1] \in Unclaimed
        /\ \E n \in Nat : DOMAIN Restrict(kept, DOMAIN kept \ F) \subseteq 0 .. n
    BY KeptFacts
  <2> QED
    BY <1>1, <2>1, <2>2, <2>3, <2>4, ProbePassKeeps DEF ProbeSteps
<1>7. CASE ProbeRestore
  <2> DEFINE next == IF registered /\ windowState = "unopened" THEN "plan" ELSE "clear"
  <2>1. PICK F \in Failing("probe_restore", DOMAIN kept) :
           /\ ProbePass("probe_restore", next, None, Store(mem, Restrict(kept, DOMAIN kept \ F)))
           /\ Count(F)
    BY <1>7 DEF ProbeRestore
  <2>2. windowState # "open" /\ at = "probe_restore"
    BY <2>1 DEF IInv, Unopened, ProbePass, ProbeSteps
  <2>3. failures' \in Nat
    BY <2>1, CountIsNat DEF IInv
  <2>4. (\A a \in DOMAIN None : a \in Nat /\ None[a][1] \in Unclaimed)
        /\ \E n \in Nat : DOMAIN None \subseteq 0 .. n
    BY DEF None
  <2>5. Over(Store(mem, Restrict(kept, DOMAIN kept \ F)), mem, Unclaimed)
    BY RestoredIsOver
  <2>6. next \in {"plan", "clear"} /\ (next = "plan" => registered /\ windowState = "unopened")
    OBVIOUS
  <2> HIDE DEF next
  <2> QED
    BY <2>1, <2>2, <2>3, <2>4, <2>5, <2>6, ProbePassKeeps DEF ProbeSteps
<1> QED
  BY <1>4, <1>5, <1>6, <1>7

-------------------------------------------------------------------------------
\* What every step of the proof leaves in order while the window is shut.
LEMMA ShutStepKeeps ==
    ASSUME IInv, windowState # "open", windowState' \in {"unopened", "failed"}, windowEnd' \in Nat,
           UNCHANGED <<settled, users, modeSets, registered, windowStart>>,
           at' \in Steps, from' \in Nat, to' \in Nat, reached' \in Nat, cleaned' \in Nat,
           anyFailed' \in BOOLEAN, failures' \in Nat,
           Over(mem', mem, Unclaimed),
           \A a \in DOMAIN kept' : a \in Nat /\ kept'[a][1] \in Unclaimed,
           \E n \in Nat : DOMAIN kept' \subseteq 0 .. n
    PROVE  TypeOK' /\ InsideWindow' /\ KeptIsBounded'
<1> USE DEF settled, users
<1>1. TypeOK'
  <2>1. DOMAIN mem' = 0 .. board'.size - 1 /\ \A c \in DOMAIN mem' : mem'[c][1] \in Kinds
    BY OverKeepsTypes DEF Over, Unclaimed, IInv
  <2>2. \A a \in DOMAIN kept' : a \in Nat /\ kept'[a][1] \in Kinds
    BY DEF Unclaimed
  <2> QED
    BY <2>1, <2>2 DEF IInv, TypeOK
<1>2. InsideWindow'
  <2>1. \A c \in DOMAIN mem' : mem'[c][1] = "client" => mem[c][1] = "client" /\ c \in DOMAIN mem
    BY OverKeepsClients DEF IInv
  <2>2. \A c \in DOMAIN mem' : mem'[c][1] # "client"
    BY <2>1 DEF IInv, InsideWindow
  <2>3. \A c \in Clients : mapped'[c] = {}
    BY DEF IInv, Unopened
  <2> QED
    BY <2>2, <2>3 DEF InsideWindow, Unclaimed
<1>3. KeptIsBounded'
  BY DEF KeptIsBounded
<1> QED
  BY <1>1, <1>2, <1>3

\* Memory and the words put aside as they were will do.
LEMMA NothingWritten ==
    ASSUME IInv
    PROVE  /\ Over(mem, mem, Unclaimed)
           /\ \A a \in DOMAIN kept : a \in Nat /\ kept[a][1] \in Unclaimed
           /\ \E n \in Nat : DOMAIN kept \subseteq 0 .. n
           /\ \A a \in DOMAIN None : a \in Nat /\ None[a][1] \in Unclaimed
           /\ \E n \in Nat : DOMAIN None \subseteq 0 .. n
BY DEF Over, IInv, TypeOK, InsideWindow, KeptIsBounded, Unclaimed, None

\* What is known of a step between the stages is enough for the invariant.
LEMMA BetweenStages ==
    ASSUME IInv, at \in {"plan", "stage_two"},
           UNCHANGED <<window, mem, anyFailed, cleaned, kept, failures>>, Unused,
           at' \in {"witness", "stage_two", "decide"},
           from' \in Nat, to' \in Nat, reached' \in Nat, reached' <= board.size,
           at' = "witness" => from' = reached' /\ 0 < from' /\ from' < to',
           at' = "stage_two" => reached' = StageOneTo
    PROVE  IInv'
<1>1. windowState = "unopened" /\ registered
  BY DEF IInv, Unopened
<1>2. UNCHANGED <<settled, users, modeSets, registered, windowStart, windowEnd, windowState, mem, kept>>
  BY DEF Unused, window
<1>3. TypeOK' /\ InsideWindow' /\ KeptIsBounded'
  <2>1. at' \in Steps
    BY DEF Steps, ProofSteps
  <2>2. /\ cleaned' \in Nat /\ anyFailed' \in BOOLEAN /\ failures' \in Nat /\ windowEnd' \in Nat
    BY <1>2 DEF IInv, TypeOK
  <2> QED
    BY <1>1, <1>2, <2>1, <2>2, NothingWritten, ShutStepKeeps
<1>4. RegionIsAbove'
  BY <1>2 DEF RegionIsAbove, ProofSteps, settled, StageOneTo
<1>5. Unopened'
  BY <1>1, <1>2 DEF IInv, Unopened, ProofSteps, settled, users
<1> QED
  BY <1>3, <1>4, <1>5 DEF IInv

\* The first stage starts from what every board has, or is passed over.
LEMMA PlanKeeps == ASSUME IInv, Plan PROVE IInv'
<1>1. /\ Proven \in Nat /\ StageOne \in Nat /\ 0 < Proven /\ Proven <= StageOne
      /\ ceiling \in Nat /\ board.size \in Nat /\ Proven <= board.size
  BY SizeAssumption, BoardAssumption DEF IInv, TypeOK
<1>2. /\ Floor \in Nat /\ Floor <= board.size /\ StageOneTo \in Nat
      /\ Floor < StageOneTo => 0 < Floor
      /\ Floor >= StageOneTo => StageOneTo <= board.size
  BY <1>1 DEF Floor, StageOneTo, Lesser
<1>3. /\ at = "plan" /\ from \in Nat /\ to \in Nat
      /\ UNCHANGED <<window, mem, anyFailed, cleaned, kept, failures>> /\ Unused
  BY DEF Plan, IInv, TypeOK
<1>4. CASE Floor < StageOneTo /\ reached' = Floor /\ Prove(Floor, StageOneTo)
  BY <1>2, <1>3, <1>4, BetweenStages DEF Prove
<1>5. CASE Floor >= StageOneTo /\ reached' = StageOneTo /\ NothingToProve("stage_two")
  BY <1>2, <1>3, <1>5, BetweenStages DEF NothingToProve
<1> QED
  BY <1>4, <1>5 DEF Plan

\* The second starts where the first ended, or there is none.
LEMMA StageTwoKeeps == ASSUME IInv, StageTwo PROVE IInv'
<1>1. /\ Proven \in Nat /\ StageOne \in Nat /\ 0 < Proven /\ Proven <= StageOne /\ ceiling \in Nat
  BY SizeAssumption DEF IInv, TypeOK
<1>2. StageOneTo \in Nat /\ (StageOneTo < ceiling => 0 < StageOneTo)
  BY <1>1 DEF StageOneTo, Lesser
<1>3. /\ at = "stage_two" /\ reached' = reached
      /\ UNCHANGED <<window, mem, anyFailed, cleaned, kept, failures>> /\ Unused
  BY DEF StageTwo
<1>4. /\ reached = StageOneTo /\ reached <= board.size
      /\ from \in Nat /\ to \in Nat /\ reached \in Nat
  BY <1>3 DEF IInv, RegionIsAbove, TypeOK
<1>5. CASE StageOneTo < ceiling /\ Prove(StageOneTo, ceiling)
  BY <1>1, <1>2, <1>3, <1>4, <1>5, BetweenStages DEF Prove
<1>6. CASE StageOneTo >= ceiling /\ NothingToProve("decide")
  BY <1>3, <1>4, <1>6, BetweenStages DEF NothingToProve
<1> QED
  BY <1>5, <1>6 DEF StageTwo

\* A stage that fails leaves the bound where it was and hands over to Decide.
LEMMA FailedStageKeeps ==
    ASSUME IInv, at \in ProofSteps, StageFails, failures' \in Nat,
           UNCHANGED <<window, cleaned>>, Unused,
           Over(mem', mem, Unclaimed), kept' = None \/ kept' = kept
    PROVE  IInv'
<1>1. windowState = "unopened" /\ registered
  BY DEF IInv, Unopened
<1>2. at' = "decide" /\ anyFailed' = TRUE /\ UNCHANGED <<from, to, reached>>
  BY DEF StageFails
<1>3. TypeOK' /\ InsideWindow' /\ KeptIsBounded'
  <2>1. /\ at' \in Steps /\ from' \in Nat /\ to' \in Nat /\ reached' \in Nat /\ cleaned' \in Nat
        /\ anyFailed' \in BOOLEAN /\ windowEnd' \in Nat
    BY <1>2 DEF Steps, IInv, TypeOK, window
  <2>2. UNCHANGED <<settled, users, modeSets, registered, windowStart, windowState>>
    BY DEF Unused, window
  <2>3. /\ \A a \in DOMAIN kept' : a \in Nat /\ kept'[a][1] \in Unclaimed
        /\ \E n \in Nat : DOMAIN kept' \subseteq 0 .. n
    BY NothingWritten
  <2> QED
    BY <1>1, <2>1, <2>2, <2>3, ShutStepKeeps
<1>4. RegionIsAbove'
  BY <1>2 DEF IInv, RegionIsAbove, ProofSteps, Unused, settled
<1>5. Unopened'
  BY <1>1, <1>2 DEF IInv, Unopened, ProofSteps, Unused, settled, users, window
<1> QED
  BY <1>3, <1>4, <1>5 DEF IInv

\* A step within a stage keeps the region and the first witness.
LEMMA StageGoesOn ==
    ASSUME IInv, at \in ProofSteps, at' \in ProofSteps \ {"witness"}, failures' \in Nat,
           UNCHANGED <<window, cleaned, from, to, reached, anyFailed>>, Unused,
           Over(mem', mem, Unclaimed),
           \A a \in DOMAIN kept' : a \in Nat /\ kept'[a][1] \in Unclaimed,
           \E n \in Nat : DOMAIN kept' \subseteq 0 .. n,
           0 \in DOMAIN kept'
    PROVE  IInv'
<1>1. windowState = "unopened" /\ registered
  BY DEF IInv, Unopened
<1>2. TypeOK' /\ InsideWindow' /\ KeptIsBounded'
  <2>1. /\ at' \in Steps /\ from' \in Nat /\ to' \in Nat /\ reached' \in Nat /\ cleaned' \in Nat
        /\ anyFailed' \in BOOLEAN /\ windowEnd' \in Nat
    BY DEF Steps, IInv, TypeOK, window
  <2>2. UNCHANGED <<settled, users, modeSets, registered, windowStart, windowState>>
    BY DEF Unused, window
  <2> QED
    BY <1>1, <2>1, <2>2, ShutStepKeeps
<1>3. RegionIsAbove'
  BY DEF IInv, RegionIsAbove, ProofSteps, StageOneTo, Unused, settled
<1>4. Unopened'
  BY <1>1 DEF IInv, Unopened, ProofSteps, Unused, settled, users, window
<1> QED
  BY <1>2, <1>3, <1>4 DEF IInv

\* The first page carries a witness from here on.
LEMMA PlaceWitnessesKeeps ==
    ASSUME WitnessesAreMapped, IInv, PlaceWitnesses PROVE IInv'
<1> DEFINE earlier(w) == {v \in Witnesses : v < w /\ Decode(v) = Decode(w)}
           was(w) == IF earlier(w) = {} THEN Read(mem, w) ELSE <<"witness", Max(earlier(w))>>
<1>1. /\ at = "witness" /\ at \in ProofSteps
      /\ UNCHANGED <<window, cleaned>> /\ Unused
  BY DEF PlaceWitnesses, ProofSteps
<1>2. /\ failures' \in Nat
      /\ \/ StageFails /\ UNCHANGED <<mem, kept>>
         \/ /\ kept' = [w \in Witnesses |-> was(w)]
            /\ mem' = Store(mem, Marked("witness", Witnesses))
            /\ at' = "two_pages"
            /\ UNCHANGED <<from, to, reached, anyFailed>>
  <2> DEFINE Goal == /\ failures' \in Nat
                     /\ \/ StageFails /\ UNCHANGED <<mem, kept>>
                        \/ /\ kept' = [w \in Witnesses |-> was(w)]
                           /\ mem' = Store(mem, Marked("witness", Witnesses))
                           /\ at' = "two_pages"
                           /\ UNCHANGED <<from, to, reached, anyFailed>>
  <2>1. CASE StageFails /\ UNCHANGED <<mem, kept, failures>>
    BY <2>1 DEF IInv, TypeOK
  <2>2. ASSUME NEW F \in Failing("witness", Witnesses),
               LET mine == Witnesses \ F
                   earlier1(w) == {v \in mine : v < w /\ Decode(v) = Decode(w)}
                   was1(w) == IF earlier1(w) = {} THEN Read(mem, w)
                              ELSE <<"witness", Max(earlier1(w))>>
               IN  /\ Count(F)
                   /\ IF mine = {}
                      THEN StageFails /\ UNCHANGED <<mem, kept>>
                      ELSE /\ kept' = [w \in mine |-> was1(w)]
                           /\ mem' = Store(mem, Marked("witness", mine))
                           /\ at' = "two_pages"
                           /\ UNCHANGED <<from, to, reached, anyFailed>>
        PROVE  Goal
    <3>1. Count(F)
      BY <2>2
    <3>2. failures' \in Nat
      BY <3>1, CountIsNat DEF IInv
    <3>3. F = {} /\ Witnesses \ F = Witnesses
      BY DEF Failing, WitnessesAreMapped
    <3> QED
      BY <2>2, <3>2, <3>3
  <2> QED
    BY <2>1, <2>2, Zenon DEF PlaceWitnesses
<1>3. windowState # "open"
  BY <1>1 DEF IInv, Unopened
<1>4. CASE StageFails /\ UNCHANGED <<mem, kept>>
  BY <1>1, <1>2, <1>4, NothingWritten, FailedStageKeeps
<1>5. CASE /\ kept' = [w \in Witnesses |-> was(w)]
           /\ mem' = Store(mem, Marked("witness", Witnesses))
           /\ at' = "two_pages"
           /\ UNCHANGED <<from, to, reached, anyFailed>>
  <2>1. from \in Nat /\ 0 < from
    BY <1>1 DEF IInv, TypeOK, RegionIsAbove
  <2>2. Witnesses \subseteq 0 .. from /\ 0 \in Witnesses
    BY <2>1, SizeAssumption DEF Witnesses
  <2>3. Over(mem', mem, Unclaimed)
    <3>1. "witness" \in Kinds /\ "witness" \in Unclaimed
      BY DEF Kinds, Unclaimed
    <3> QED
      BY <1>5, <2>1, <2>2, <3>1, MarkedIsOver
  <2>4. ASSUME NEW w \in Witnesses PROVE w \in Nat /\ was(w)[1] \in Unclaimed
    <3>1. w \in Nat
      BY <2>1, <2>2
    <3>2. Read(mem, w)[1] \in Unclaimed
      BY <1>3, <3>1, ReadsAreUnclaimed
    <3> QED
      BY <3>1, <3>2 DEF Unclaimed, Kinds
  <2> HIDE DEF was
  <2>5. \A a \in DOMAIN kept' : a \in Nat /\ kept'[a][1] \in Unclaimed
    BY <1>5, <2>4
  <2>6. (\E n \in Nat : DOMAIN kept' \subseteq 0 .. n) /\ 0 \in DOMAIN kept'
    BY <1>5, <2>1, <2>2
  <2> QED
    BY <1>1, <1>2, <1>5, <2>3, <2>5, <2>6, StageGoesOn DEF ProofSteps
<1> QED
  BY <1>2, <1>4, <1>5

\* Taking the witnesses away writes no client's value and leaves none kept.
LEMMA RestoreIsTame ==
    ASSUME IInv, NEW F, RestoreWitnesses(mem, F)
    PROVE  Over(mem', mem, Unclaimed) /\ kept' = None
BY RestoredIsOver DEF RestoreWitnesses

\* The first two pages of a region are written, or its stage fails.
LEMMA WriteTwoPagesKeeps == ASSUME IInv, WriteTwoPages PROVE IInv'
<1>1. PICK F \in Failing("region", {from}), G \in Failing("restore", DOMAIN kept) :
        IF F # {}
        THEN RestoreWitnesses(mem, G) /\ StageFails /\ Count(F \cup G)
        ELSE /\ mem' = Store(mem, Marked("page", {from, to - 1}))
             /\ at' = "first_look"
             /\ UNCHANGED <<kept, from, to, reached, anyFailed, failures>>
  BY DEF WriteTwoPages
<1>2. /\ at = "two_pages" /\ at \in ProofSteps \ {"witness"}
      /\ UNCHANGED <<window, cleaned>> /\ Unused
  BY DEF WriteTwoPages, ProofSteps
<1>3. CASE F # {}
  <2>1. failures' \in Nat
    BY <1>1, <1>3, CountsAreNat
  <2> QED
    BY <1>1, <1>2, <1>3, <2>1, RestoreIsTame, FailedStageKeeps
<1>4. CASE F = {}
  <2>1. from \in Nat /\ to \in Nat /\ from < to
    BY <1>2 DEF IInv, TypeOK, RegionIsAbove
  <2>2. Over(mem', mem, Unclaimed)
    <3>1. {from, to - 1} \subseteq 0 .. to
      BY <2>1
    <3>2. "page" \in Kinds /\ "page" \in Unclaimed
      BY DEF Kinds, Unclaimed
    <3> QED
      BY <1>1, <1>4, <2>1, <3>1, <3>2, MarkedIsOver
  <2>3. at' \in ProofSteps \ {"witness"} /\ failures' \in Nat
    BY <1>1, <1>4 DEF ProofSteps, IInv, TypeOK
  <2>4. 0 \in DOMAIN kept
    BY <1>2 DEF IInv, RegionIsAbove
  <2> QED
    BY <1>1, <1>2, <1>4, <2>2, <2>3, <2>4, NothingWritten, StageGoesOn
<1> QED
  BY <1>3, <1>4

\* A damaged witness fails the stage, an intact one lets it go on.
LEMMA FirstLookKeeps == ASSUME IInv, FirstLook PROVE IInv'
<1>1. PICK F \in Failing("look", DOMAIN kept), G \in Failing("restore", DOMAIN kept) :
        IF Intact(mem, F)
        THEN /\ at' = "rest"
             /\ UNCHANGED <<mem, kept, from, to, reached, anyFailed, failures>>
        ELSE RestoreWitnesses(mem, G) /\ StageFails /\ Count(F \cup G)
  BY DEF FirstLook
<1>2. /\ at = "first_look" /\ at \in ProofSteps \ {"witness"}
      /\ UNCHANGED <<window, cleaned>> /\ Unused
  BY DEF FirstLook, ProofSteps
<1>3. CASE ~Intact(mem, F)
  <2>1. failures' \in Nat
    BY <1>1, <1>3, CountsAreNat
  <2> QED
    BY <1>1, <1>2, <1>3, <2>1, RestoreIsTame, FailedStageKeeps
<1>4. CASE Intact(mem, F)
  <2>1. at' \in ProofSteps \ {"witness"} /\ failures' \in Nat
    BY <1>1, <1>4 DEF ProofSteps, IInv, TypeOK
  <2>2. 0 \in DOMAIN kept
    BY <1>2 DEF IInv, RegionIsAbove
  <2> QED
    BY <1>1, <1>2, <1>4, <2>1, <2>2, NothingWritten, StageGoesOn
<1> QED
  BY <1>3, <1>4

\* The whole region is written, still with nobody using the window.
LEMMA WriteTheRestKeeps == ASSUME IInv, WriteTheRest PROVE IInv'
<1>1. /\ at = "rest" /\ at \in ProofSteps \ {"witness"} /\ at' = "second_look"
      /\ mem' = Store(mem, Marked("page", from .. to - 1))
      /\ UNCHANGED <<window, cleaned, from, to, reached, anyFailed, kept, failures>> /\ Unused
  BY DEF WriteTheRest, ProofSteps, proof
<1>2. from \in Nat /\ to \in Nat /\ from < to /\ 0 \in DOMAIN kept
  BY <1>1 DEF IInv, TypeOK, RegionIsAbove
<1>3. Over(mem', mem, Unclaimed)
  <2>1. "page" \in Kinds /\ "page" \in Unclaimed /\ from .. to - 1 \subseteq 0 .. to
    BY <1>2 DEF Kinds, Unclaimed
  <2> QED
    BY <1>1, <1>2, <2>1, MarkedIsOver
<1>4. at' \in ProofSteps \ {"witness"} /\ failures' \in Nat
  BY <1>1 DEF ProofSteps, IInv, TypeOK
<1> QED
  BY <1>1, <1>2, <1>3, <1>4, NothingWritten, StageGoesOn

\* What passed the second look is memory: past the end of the board either nothing
\* answers, or the first page does, and it cannot hold the signature and the
\* witness both.
LEMMA PassedIsMemory ==
    ASSUME IInv, at = "second_look", NEW F, RegionAnswers, Intact(mem, F)
    PROVE  to <= board.size
<1>1. from \in Nat /\ to \in Nat /\ from <= board.size /\ 0 \in DOMAIN kept
  BY DEF IInv, TypeOK, RegionIsAbove, ProofSteps
<1>2. /\ board.size \in Nat /\ Decode(0) = 0
      /\ Decode(board.size) = IF board.wraps THEN 0 ELSE Nowhere
  BY DecodeFacts DEF IInv
<1>3. ASSUME board.size < to PROVE FALSE
  <2>1. board.size \in from .. to - 1
    BY <1>1, <1>2, <1>3
  <2>2. Read(mem, board.size)[1] = "page"
    <3>1. Read(mem, board.size) = <<"page", board.size>>
      BY <2>1, Zenon DEF RegionAnswers
    <3> QED
      BY <3>1
  <2>3. Read(mem, 0)[1] = "witness"
    <3>1. Read(mem, 0) = <<"witness", 0>>
      BY <1>1, Zenon DEF Intact
    <3> QED
      BY <3>1
  <2>4. Read(mem, board.size) = Read(mem, 0) \/ Read(mem, board.size) = <<"ones", 0>>
    BY <1>2 DEF Read
  <2>5. <<"ones", 0>>[1] # "page"
    OBVIOUS
  <2> QED
    BY <2>2, <2>3, <2>4, <2>5, Zenon
<1> QED
  BY <1>1, <1>2, <1>3

\* A region that passes is memory: reached rises only over pages the board has.
LEMMA SecondLookKeeps == ASSUME IInv, SecondLook PROVE IInv'
<1>1. PICK F \in Failing("look", DOMAIN kept), G \in Failing("restore", DOMAIN kept) :
        /\ Count(F \cup G)
        /\ IF RegionAnswers /\ Intact(mem, F)
           THEN /\ RestoreWitnesses(Store(mem, Zeros(from .. to - 1)), G)
                /\ reached' = to
                /\ at' = IF to = StageOneTo THEN "stage_two" ELSE "decide"
                /\ UNCHANGED <<from, to, anyFailed>>
           ELSE RestoreWitnesses(mem, G) /\ StageFails
  BY DEF SecondLook
<1>2. /\ at = "second_look" /\ at \in ProofSteps
      /\ UNCHANGED <<window, cleaned>> /\ Unused
  BY DEF SecondLook, ProofSteps
<1>3. failures' \in Nat
  BY <1>1, CountsAreNat
<1>4. CASE ~(RegionAnswers /\ Intact(mem, F))
  <2>1. RestoreWitnesses(mem, G) /\ StageFails
    BY <1>1, <1>4
  <2> QED
    BY <1>2, <1>3, <2>1, RestoreIsTame, FailedStageKeeps
<1>5. CASE RegionAnswers /\ Intact(mem, F)
  <2> DEFINE m == Store(mem, Zeros(from .. to - 1))
  <2>1. /\ RestoreWitnesses(m, G)
        /\ reached' = to
        /\ at' = IF to = StageOneTo THEN "stage_two" ELSE "decide"
        /\ UNCHANGED <<from, to, anyFailed>>
    BY <1>1, <1>5
  <2>2. from \in Nat /\ to \in Nat /\ 0 < to /\ to <= board.size
    <3>1. to <= board.size
      BY <1>2, <1>5, PassedIsMemory
    <3>2. from \in Nat /\ to \in Nat /\ 0 < from /\ from < to
      BY <1>2 DEF IInv, TypeOK, RegionIsAbove
    <3> QED
      BY <3>1, <3>2
  <2>3. Over(m, mem, Unclaimed)
    <3>1. from .. to - 1 \subseteq 0 .. to
      BY <2>2
    <3> QED
      BY <2>2, <3>1, ZerosAreOver
  <2> HIDE DEF m
  <2>4. Over(mem', m, Unclaimed) /\ kept' = None
    BY <2>1, RestoredIsOver DEF RestoreWitnesses
  <2>5. Over(mem', mem, Unclaimed)
    BY <2>3, <2>4 DEF Over
  <2>6. /\ reached' = to /\ from' = from /\ to' = to /\ at' \in {"stage_two", "decide"}
        /\ reached' <= board.size
        /\ at' = "stage_two" => reached' = StageOneTo
    BY <2>1, <2>2
  <2>7. windowState = "unopened" /\ registered
    BY <1>2 DEF IInv, Unopened
  <2>8. TypeOK' /\ InsideWindow' /\ KeptIsBounded'
    <3>1. /\ at' \in Steps /\ from' \in Nat /\ reached' \in Nat /\ cleaned' \in Nat
          /\ anyFailed' \in BOOLEAN /\ windowEnd' \in Nat
      BY <1>2, <2>1, <2>2, <2>6 DEF Steps, ProofSteps, IInv, TypeOK, window
    <3>2. UNCHANGED <<settled, users, modeSets, registered, windowStart, windowState>>
      BY <1>2 DEF Unused, window
    <3> QED
      BY <1>3, <2>4, <2>5, <2>6, <2>7, <3>1, <3>2, NothingWritten, ShutStepKeeps
  <2>9. RegionIsAbove'
    BY <1>2, <2>6 DEF RegionIsAbove, ProofSteps, Unused, settled, StageOneTo
  <2>10. Unopened'
    BY <1>2, <2>6, <2>7 DEF IInv, Unopened, ProofSteps, Unused, settled, users, window
  <2> QED
    BY <2>8, <2>9, <2>10 DEF IInv
<1> QED
  BY <1>4, <1>5

\* The window is refused, or goes on to be cleaned or published.
LEMMA DecideKeeps == ASSUME IInv, Decide PROVE IInv'
<1>1. /\ at = "decide" /\ cleaned' = windowStart
      /\ at' \in {"clean", "publish_end", "clear"}
      /\ windowState' \in {windowState, "failed"}
      /\ at' # "clear" => windowState' = windowState
      /\ UNCHANGED <<registered, windowStart, windowEnd, mem, kept, from, to, reached, anyFailed,
                     failures>>
      /\ Unused
  BY DEF Decide, window
<1>2. windowState = "unopened" /\ registered
  BY <1>1 DEF IInv, Unopened
<1>3. TypeOK' /\ InsideWindow' /\ KeptIsBounded'
  <2>1. /\ at' \in Steps /\ from' \in Nat /\ to' \in Nat /\ reached' \in Nat /\ cleaned' \in Nat
        /\ anyFailed' \in BOOLEAN /\ failures' \in Nat /\ windowEnd' \in Nat
    BY <1>1 DEF Steps, IInv, TypeOK
  <2>2. UNCHANGED <<settled, users, modeSets, registered, windowStart>>
    BY <1>1 DEF Unused
  <2>3. windowState' \in {"unopened", "failed"}
    BY <1>1, <1>2
  <2> QED
    BY <1>1, <1>2, <2>1, <2>2, <2>3, NothingWritten, ShutStepKeeps
<1>4. RegionIsAbove'
  BY <1>1 DEF IInv, RegionIsAbove, ProofSteps, Unused, settled
<1>5. Unopened'
  BY <1>1, <1>2 DEF IInv, Unopened, ProofSteps, Unused, settled, users
<1> QED
  BY <1>3, <1>4, <1>5 DEF IInv

\* Cleaning writes zeros, and only while the window is not open.
LEMMA CleanPieceKeeps == ASSUME IInv, CleanPiece PROVE IInv'
<1> DEFINE end == Lesser(cleaned + Chunk, reached)
<1>1. PICK F \in Failing("clean", {cleaned}) :
        /\ Count(F)
        /\ IF F # {}
           THEN /\ windowState' = "failed" /\ at' = "clear"
                /\ UNCHANGED <<mem, cleaned>>
           ELSE /\ mem' = Store(mem, Zeros(cleaned .. end - 1))
                /\ cleaned' = end
                /\ at' = IF end < reached THEN "clean" ELSE "publish_end"
                /\ UNCHANGED windowState
  BY DEF CleanPiece
<1>2. /\ at = "clean"
      /\ UNCHANGED <<registered, windowStart, windowEnd, kept, from, to, reached, anyFailed>>
      /\ Unused
  BY DEF CleanPiece
<1>3. windowState = "unopened" /\ registered
  BY <1>2 DEF IInv, Unopened
<1>4. end \in Nat /\ cleaned \in Nat
  BY SizeAssumption DEF Lesser, IInv, TypeOK
<1>5. Over(mem', mem, Unclaimed) /\ cleaned' \in Nat
  <2>1. cleaned .. end - 1 \subseteq 0 .. end
    BY <1>4
  <2> HIDE DEF end
  <2>2. Over(Store(mem, Zeros(cleaned .. end - 1)), mem, Unclaimed)
    BY <1>4, <2>1, ZerosAreOver
  <2> QED
    BY <1>1, <1>4, <2>2, NothingWritten
<1> HIDE DEF end
<1>6. failures' \in Nat
  BY <1>1, CountIsNat DEF IInv
<1>7. /\ at' \in {"clean", "publish_end", "clear"}
      /\ windowState' \in {windowState, "failed"}
      /\ at' # "clear" => windowState' = windowState
  BY <1>1
<1>8. TypeOK' /\ InsideWindow' /\ KeptIsBounded'
  <2>1. /\ at' \in Steps /\ from' \in Nat /\ to' \in Nat /\ reached' \in Nat
        /\ anyFailed' \in BOOLEAN /\ windowEnd' \in Nat
    BY <1>2, <1>7 DEF Steps, IInv, TypeOK
  <2>2. UNCHANGED <<settled, users, modeSets, registered, windowStart>>
    BY <1>2 DEF Unused
  <2>3. windowState' \in {"unopened", "failed"}
    BY <1>3, <1>7
  <2> QED
    BY <1>2, <1>3, <1>5, <1>6, <2>1, <2>2, <2>3, NothingWritten, ShutStepKeeps
<1>9. RegionIsAbove'
  BY <1>2, <1>7 DEF IInv, RegionIsAbove, ProofSteps, Unused, settled
<1>10. Unopened'
  BY <1>2, <1>3, <1>7 DEF IInv, Unopened, ProofSteps, Unused, settled, users
<1> QED
  BY <1>8, <1>9, <1>10 DEF IInv

\* The end published is what was reached.
LEMMA PublishEndKeeps == ASSUME IInv, PublishEnd PROVE IInv'
<1>1. /\ at = "publish_end" /\ at' = "publish_state" /\ windowEnd' = reached
      /\ UNCHANGED <<registered, windowStart, windowState, mem, from, to, reached, anyFailed,
                     cleaned, kept, failures>>
      /\ Unused
  BY DEF PublishEnd, proof
<1>2. windowState = "unopened" /\ registered
  BY <1>1 DEF IInv, Unopened
<1>3. TypeOK' /\ InsideWindow' /\ KeptIsBounded'
  <2>1. /\ at' \in Steps /\ from' \in Nat /\ to' \in Nat /\ reached' \in Nat /\ cleaned' \in Nat
        /\ anyFailed' \in BOOLEAN /\ failures' \in Nat /\ windowEnd' \in Nat
    BY <1>1 DEF Steps, IInv, TypeOK
  <2>2. UNCHANGED <<settled, users, modeSets, registered, windowStart>>
    BY <1>1 DEF Unused
  <2> QED
    BY <1>1, <1>2, <2>1, <2>2, NothingWritten, ShutStepKeeps
<1>4. RegionIsAbove'
  BY <1>1 DEF IInv, RegionIsAbove, ProofSteps, Unused, settled
<1>5. Unopened'
  BY <1>1, <1>2 DEF IInv, Unopened, ProofSteps, Unused, settled, users
<1> QED
  BY <1>3, <1>4, <1>5 DEF IInv

\* The state is published after the end, and only then may anyone open.
LEMMA PublishStateKeeps == ASSUME IInv, PublishState PROVE IInv'
<1>1. /\ at = "publish_state" /\ at' = "clear" /\ windowState' = "open"
      /\ UNCHANGED <<registered, windowStart, windowEnd, mem, from, to, reached, anyFailed,
                     cleaned, kept, failures>>
      /\ Unused
  BY DEF PublishState, proof
<1>2. windowState = "unopened" /\ registered /\ windowEnd = reached
  BY <1>1 DEF IInv, Unopened
<1>3. TypeOK'
  <2>1. at' \in Steps /\ windowState' \in {"unopened", "open", "failed"}
    BY <1>1 DEF Steps
  <2> QED
    BY <1>1, <2>1 DEF IInv, TypeOK, Unused, settled, users
<1>4. RegionIsAbove'
  BY <1>1 DEF IInv, RegionIsAbove, ProofSteps, Unused, settled
<1>5. Unopened'
  BY <1>1, <1>2 DEF IInv, Unopened, RegionIsAbove, ProofSteps, Unused, settled, users
<1>6. InsideWindow'
  <2>1. \A c \in Clients : mapped'[c] = {}
    BY <1>1, <1>2 DEF IInv, Unopened, Unused, users
  <2>2. \A c \in DOMAIN mem' : mem'[c][1] # "client"
    BY <1>1, <1>2 DEF IInv, InsideWindow
  <2> QED
    BY <1>1, <2>1, <2>2 DEF IInv, InsideWindow
<1>7. KeptIsBounded'
  BY <1>1 DEF IInv, KeptIsBounded
<1> QED
  BY <1>3, <1>4, <1>5, <1>6, <1>7 DEF IInv

\* The picture's own cells lie below the window.
LEMMA ClearVisibleWrites ==
    ASSUME IInv, ClearVisible
    PROVE  /\ Over(mem', mem, Unclaimed)
           /\ \A c \in DOMAIN mem : mem[c][1] = "client" => mem'[c] = mem[c]
<1>1. mem' = Store(mem, Zeros(0 .. mode.visible - 1))
  BY DEF ClearVisible
<1>2. mode.visible \in Nat /\ mode.start \in Nat /\ mode.visible < mode.start
  BY ModeAssumption DEF IInv, TypeOK
<1>3. 0 .. mode.visible - 1 \subseteq 0 .. mode.visible
  BY <1>2
<1>4. Over(mem', mem, Unclaimed)
  BY <1>1, <1>2, <1>3, ZerosAreOver
<1>5. ASSUME NEW c \in DOMAIN mem, mem[c][1] = "client" PROVE mem'[c] = mem[c]
  <2>1. windowStart <= c /\ windowStart = mode.start
    BY <1>5 DEF IInv, InsideWindow, Unopened
  <2>2. board.size \in Nat /\ c \in 0 .. board.size - 1
    BY DecodeFacts DEF IInv, TypeOK
  <2>3. \A a \in 0 .. mode.visible - 1 : Decode(a) # c
    BY <1>2, <2>1, <2>2 DEF Decode
  <2> DEFINE v == Zeros(0 .. mode.visible - 1)
  <2>4. DOMAIN v = 0 .. mode.visible - 1
    BY DEF Zeros
  <2> HIDE DEF v
  <2>5. Store(mem, v)[c] = mem[c]
    <3>1. DOMAIN v \subseteq 0 .. mode.visible /\ mode.visible \in Nat
      BY <1>2, <1>3, <2>4
    <3>2. \/ Store(mem, v)[c] = mem[c]
          \/ \E a \in DOMAIN v : Decode(a) = c /\ Store(mem, v)[c] = v[a]
      BY <3>1, StoreWrites
    <3> QED
      BY <2>3, <2>4, <3>2
  <2> QED
    BY <1>1, <2>5 DEF v
<1> QED
  BY <1>4, <1>5

\* Clearing the picture stays below the window.
LEMMA ClearVisibleKeeps == ASSUME IInv, ClearVisible PROVE IInv'
<1>1. /\ at = "clear" /\ at' = "off"
      /\ UNCHANGED <<window, from, to, reached, anyFailed, cleaned, kept, failures>> /\ Unused
  BY DEF ClearVisible, proof
<1>2. Over(mem', mem, Unclaimed)
  BY ClearVisibleWrites
<1>3. TypeOK'
  <2>1. DOMAIN mem' = 0 .. board'.size - 1 /\ \A c \in DOMAIN mem' : mem'[c][1] \in Kinds
    BY <1>1, <1>2, OverKeepsTypes DEF Over, Unclaimed, IInv, Unused, settled
  <2>2. at' \in Steps
    BY <1>1 DEF Steps
  <2> QED
    BY <1>1, <2>1, <2>2 DEF IInv, TypeOK, Unused, settled, users, window
<1>4. RegionIsAbove'
  BY <1>1 DEF IInv, RegionIsAbove, ProofSteps, Unused, settled
<1>5. Unopened'
  BY <1>1 DEF IInv, Unopened, ProofSteps, Unused, settled, users, window
<1>6. InsideWindow'
  <2>1. \A c \in DOMAIN mem' : mem'[c][1] = "client" => mem[c][1] = "client" /\ c \in DOMAIN mem
    BY <1>2, OverKeepsClients DEF IInv
  <2> QED
    BY <1>1, <2>1 DEF IInv, InsideWindow, InWindow, Unused, users, window
<1>7. KeptIsBounded'
  BY <1>1 DEF IInv, KeptIsBounded
<1> QED
  BY <1>3, <1>4, <1>5, <1>6, <1>7 DEF IInv

-------------------------------------------------------------------------------
(* The clients. *)

\* A step that opens, closes, maps or unmaps, and draws nothing.
LEMMA UserStepKeeps ==
    ASSUME IInv, Aside, UNCHANGED mem, fds' \subseteq Clients,
           mapped' \in [Clients -> SUBSET (Nat \cup {Batch})],
           windowState = "open" \/ (fds' = {} /\ \A c \in Clients : mapped'[c] = {}),
           \A c \in Clients : \A a \in mapped'[c] \ {Batch} : InWindow(a)
    PROVE  IInv'
<1> USE DEF Aside, settled, window, proof
<1>1. TypeOK'
  BY DEF IInv, TypeOK
<1>2. RegionIsAbove'
  BY DEF IInv, RegionIsAbove, StageOneTo
<1>3. Unopened'
  BY DEF IInv, Unopened
<1>4. InsideWindow'
  BY DEF IInv, InsideWindow, InWindow
<1>5. KeptIsBounded'
  BY DEF IInv, KeptIsBounded
<1> QED
  BY <1>1, <1>2, <1>3, <1>4, <1>5 DEF IInv

\* What a client draws lands in the open window, on a page of its own.
LEMMA DrawKeeps == ASSUME IInv, NEW c \in Clients, NEW a, Draw(c, a) PROVE IInv'
<1>1. /\ a \in mapped[c] \ {Batch} /\ mem' = Store(mem, Marked("client", {a}))
      /\ UNCHANGED users /\ Aside
  BY DEF Draw
<1>2. a \in Nat /\ InWindow(a)
  BY <1>1 DEF IInv, TypeOK, InsideWindow
<1>3. windowState = "open"
  BY <1>1 DEF IInv, Unopened
<1>4. Decode(a) = a /\ windowStart <= a
  <2>1. windowEnd <= board.size /\ windowStart <= a /\ a < windowEnd /\ windowEnd \in Nat
    BY <1>2, <1>3 DEF IInv, Unopened, InWindow, TypeOK
  <2> QED
    BY <1>2, <2>1, DecodeFacts DEF IInv
<1> DEFINE v == Marked("client", {a})
<1>5. DOMAIN v \subseteq 0 .. a /\ DOMAIN v = {a} /\ v[a][1] = "client"
  BY <1>2 DEF Marked
<1>6. /\ DOMAIN mem' = DOMAIN mem
      /\ \A d \in DOMAIN mem : mem'[d] = mem[d] \/ (d = a /\ mem'[d][1] = "client")
  <2> HIDE DEF v
  <2>1. /\ DOMAIN Store(mem, v) = DOMAIN mem
        /\ \A d \in DOMAIN mem :
              \/ Store(mem, v)[d] = mem[d]
              \/ \E b \in DOMAIN v : Decode(b) = d /\ Store(mem, v)[d] = v[b]
    BY <1>2, <1>5, StoreWrites
  <2>2. mem' = Store(mem, v)
    BY <1>1 DEF v
  <2> QED
    BY <1>4, <1>5, <2>1, <2>2
<1> HIDE DEF v
<1> USE DEF Aside, settled, window, proof, users
<1>7. TypeOK'
  <2>1. DOMAIN mem' = 0 .. board'.size - 1 /\ \A d \in DOMAIN mem' : mem'[d][1] \in Kinds
    BY <1>1, <1>6 DEF IInv, TypeOK, Kinds
  <2> QED
    BY <1>1, <2>1 DEF IInv, TypeOK
<1>8. RegionIsAbove'
  BY <1>1 DEF IInv, RegionIsAbove, StageOneTo
<1>9. Unopened'
  BY <1>1 DEF IInv, Unopened
<1>10. InsideWindow'
  BY <1>1, <1>3, <1>4, <1>6 DEF IInv, InsideWindow, InWindow
<1>11. KeptIsBounded'
  BY <1>1 DEF IInv, KeptIsBounded
<1> QED
  BY <1>7, <1>8, <1>9, <1>10, <1>11 DEF IInv

\* Every step of a client preserves the inductive invariant.
LEMMA ClientKeeps == ASSUME IInv, NEW c \in Clients, Client(c) PROVE IInv'
<1>1. /\ fds \subseteq Clients /\ mapped \in [Clients -> SUBSET (Nat \cup {Batch})]
      /\ windowState # "open" => fds = {} /\ \A d \in Clients : mapped[d] = {}
      /\ \A d \in Clients : \A a \in mapped[d] \ {Batch} : InWindow(a)
  BY DEF IInv, TypeOK, Unopened, InsideWindow
<1>2. CASE DevOpen(c)
  BY <1>1, <1>2, UserStepKeeps DEF DevOpen, MayOpen
<1>3. CASE DevClose(c)
  BY <1>1, <1>3, UserStepKeeps DEF DevClose
<1>4. CASE MapBatch(c)
  <2>1. mapped' \in [Clients -> SUBSET (Nat \cup {Batch})]
    BY <1>1, <1>4 DEF MapBatch
  <2>2. \A d \in Clients : mapped'[d] \subseteq mapped[d] \cup {Batch}
    BY <1>1, <1>4 DEF MapBatch
  <2> QED
    BY <1>1, <1>4, <2>1, <2>2, UserStepKeeps DEF MapBatch
<1>5. CASE \E off \in Offsets : DevMmap(c, off)
  <2>1. PICK off \in Offsets : DevMmap(c, off)
    BY <1>5
  <2>2. off \in Nat
    BY OffsetAssumption
  <2>3. mapped' \in [Clients -> SUBSET (Nat \cup {Batch})]
    BY <1>1, <2>1, <2>2 DEF DevMmap
  <2>4. \A d \in Clients : mapped'[d] \subseteq mapped[d] \cup {off}
    BY <1>1, <2>1 DEF DevMmap
  <2> QED
    BY <1>1, <2>1, <2>3, <2>4, UserStepKeeps DEF DevMmap
<1>6. CASE \E off \in Offsets : Draw(c, off)
  BY <1>6, DrawKeeps
<1>7. CASE ClientExits(c)
  <2>1. mapped' \in [Clients -> SUBSET (Nat \cup {Batch})]
    BY <1>1, <1>7 DEF ClientExits
  <2>2. \A d \in Clients : mapped'[d] \subseteq mapped[d]
    BY <1>1, <1>7 DEF ClientExits
  <2> QED
    BY <1>1, <1>7, <2>1, <2>2, UserStepKeeps DEF ClientExits
<1> QED
  BY <1>2, <1>3, <1>4, <1>5, <1>6, <1>7 DEF Client

-------------------------------------------------------------------------------
\* Every step keeps the inductive invariant.
LEMMA StepKeeps == ASSUME WitnessesAreMapped, IInv, [Next]_vars PROVE IInv'
<1>1. CASE UNCHANGED vars
  <2>1. TypeOK'
    BY <1>1 DEF vars, settled, window, proof, users, IInv, TypeOK
  <2>2. RegionIsAbove'
    BY <1>1 DEF vars, settled, window, proof, users, IInv, RegionIsAbove, StageOneTo
  <2>3. Unopened'
    BY <1>1 DEF vars, settled, window, proof, users, IInv, Unopened
  <2>4. InsideWindow' /\ KeptIsBounded'
    BY <1>1 DEF vars, settled, window, proof, users, IInv, InsideWindow, InWindow, KeptIsBounded
  <2> QED
    BY <2>1, <2>2, <2>3, <2>4 DEF IInv
<1>2. CASE Register
  BY <1>2, RegisterKeeps
<1>3. CASE ModeThread
  BY <1>3, StartModeSetKeeps, ProbeKeeps, PlanKeeps, StageTwoKeeps, PlaceWitnessesKeeps, WriteTwoPagesKeeps,
     FirstLookKeeps, WriteTheRestKeeps, SecondLookKeeps, DecideKeeps, CleanPieceKeeps,
     PublishEndKeeps, PublishStateKeeps, ClearVisibleKeeps
  DEF ModeThread
<1>4. CASE \E c \in Clients : Client(c)
  BY <1>4, ClientKeeps
<1> QED
  BY <1>1, <1>2, <1>3, <1>4 DEF Next

\* The inductive invariant holds throughout: of the probe, the proof and the clients.
THEOREM Inductive == ASSUME WitnessesAreMapped PROVE Spec => []IInv
<1>1. Init => IInv
  BY InitEstablishes
<1>2. IInv /\ [Next]_vars => IInv'
  BY StepKeeps
<1> QED
  BY <1>1, <1>2, PTL DEF Spec

\* No client has a descriptor or a mapping while the driver probes, proves, cleans
\* or publishes.
THEOREM ProofIsUndisturbed == ASSUME WitnessesAreMapped PROVE Spec => []ProvedWhileUnused
<1>1. IInv => ProvedWhileUnused
  BY DEF IInv, Unopened, ProvedWhileUnused, ProbeSteps, ProofSteps
<1> QED
  BY <1>1, Inductive, PTL

\* Whatever was declared and whatever the gate said, an open window is memory.
THEOREM OpenWindowIsBacked == ASSUME WitnessesAreMapped PROVE Spec => []WindowIsBacked
<1>1. IInv => WindowIsBacked
  <2> SUFFICES ASSUME IInv, windowState = "open" PROVE WindowIsBacked
    BY DEF WindowIsBacked
  <2>1. mode.visible <= windowStart
    BY ModeAssumption DEF IInv, TypeOK, Unopened
  <2>2. windowEnd \in Nat /\ windowEnd <= board.size /\ board.size \in Nat
    BY DecodeFacts DEF IInv, TypeOK, Unopened
  <2>3. \A a \in 0 .. windowEnd - 1 : Decode(a) = a /\ a # Nowhere
    BY <2>2 DEF Decode, Nowhere
  <2> QED
    BY <2>1, <2>3 DEF WindowIsBacked
<1> QED
  BY <1>1, Inductive, PTL

\* A page a client drew is never written by the driver again.
THEOREM DrawingsStay == ASSUME WitnessesAreMapped PROVE Spec => ClientPixelsStay
<1>1. IInv /\ [Next]_vars => [\A c \in DOMAIN mem : mem[c][1] = "client" => mem'[c][1] = "client"]_vars
  <2> SUFFICES ASSUME IInv, Next, NEW c \in DOMAIN mem, mem[c][1] = "client"
               PROVE  mem'[c][1] = "client"
    OBVIOUS
  <2>1. windowState = "open" /\ at \in {"off", "clear"}
    BY DEF IInv, InsideWindow, Unopened
  <2>2. CASE Register \/ StartModeSet
    BY <2>2 DEF Register, StartModeSet
  <2>3. CASE ClearVisible
    BY <2>3, ClearVisibleWrites
  <2>4. CASE ModeThread
    <3>1. StartModeSet \/ ClearVisible
      BY <2>1, <2>4 DEF ModeThread, ProbeSave, ProbeWrite, ProbeRead, ProbeRestore, ProbePass, Plan,
         StageTwo, PlaceWitnesses, WriteTwoPages, FirstLook, WriteTheRest, SecondLook, Decide, CleanPiece,
         PublishEnd, PublishState
    <3> QED
      BY <2>2, <2>3, <3>1
  <2>5. ASSUME NEW d \in Clients, Client(d) PROVE mem'[c][1] = "client"
    <3>1. CASE UNCHANGED mem
      BY <3>1
    <3>2. ASSUME NEW a, Draw(d, a) PROVE mem'[c][1] = "client"
      <4>1. a \in Nat /\ mem' = Store(mem, Marked("client", {a}))
        BY <3>2 DEF Draw, IInv, TypeOK
      <4>2. {a} \subseteq 0 .. a /\ "client" \in Kinds /\ "client" \in {"client"}
        BY <4>1 DEF Kinds
      <4>3. Over(mem', mem, {"client"})
        BY <4>1, <4>2, MarkedIsOver
      <4> QED
        BY <4>3 DEF Over
    <3> QED
      BY <2>5, <3>1, <3>2 DEF Client, DevOpen, DevClose, MapBatch, DevMmap, ClientExits
  <2> QED
    BY <2>2, <2>4, <2>5 DEF Next
<1> QED
  BY <1>1, Inductive, PTL DEF Spec, ClientPixelsStay
-------------------------------------------------------------------------------
(* No signature in the window when it opens. *)

\* A word that was put aside is always put back: the probe reads and restores the
\* pages it wrote, and the witnesses are restored.
RestoresAreMapped == {"probe_read", "probe_restore", "restore"} \cap MayFail = {}

\* The steps of a stage in which its witnesses stand.
Standing == ProofSteps \ {"witness"}

\* Every signature in memory m answers at one of the offsets of S.
SignedAt(m, S) == \A c \in DOMAIN m : m[c][1] \in Leavings => \E a \in S : Decode(a) = c

CleanBelow(end) == \A a \in windowStart .. end - 1 : Read(mem, a)[1] \notin Leavings

\* Until the window is decided a signature is where the probe or the stage in hand
\* put it, the words they put aside carry none, and what a failed stage left is
\* cleaned from the bottom up.
Spotless ==
    windowState = "unopened" =>
        /\ at \in {"boot", "off", "probe_save", "probe_write", "plan", "stage_two", "witness", "clear"} =>
             SignedAt(mem, {})
        /\ at \in {"probe_read", "probe_restore"} => SignedAt(mem, DOMAIN kept)
        /\ at \in Standing => SignedAt(mem, DOMAIN kept \cup (from .. to - 1))
        /\ at \in (ProbeSteps \ {"probe_save"}) \cup Standing =>
             \A a \in DOMAIN kept : kept[a][1] \notin Leavings
        /\ at = "decide" => anyFailed \/ SignedAt(mem, {})
        /\ at = "clean" => CleanBelow(cleaned)
        /\ at = "publish_end" => CleanBelow(reached)
        /\ at = "publish_state" => CleanBelow(windowEnd)

\* A page is memory or nothing.
LEMMA DecodesToMemory ==
    ASSUME IInv, NEW a \in Nat PROVE Decode(a) = Nowhere \/ Decode(a) \in DOMAIN mem
BY DecodeFacts DEF IInv, TypeOK, Decode

\* Without a signature in memory none is read.
LEMMA NoneIsRead ==
    ASSUME IInv, SignedAt(mem, {}), NEW a \in Nat PROVE Read(mem, a)[1] \notin Leavings
BY DecodesToMemory DEF SignedAt, Read, Leavings

\* Writing to pages signs no others.
LEMMA WritingSigns ==
    ASSUME NEW m, NEW v, NEW T, NEW n \in Nat, DOMAIN v \subseteq 0 .. n, SignedAt(m, T)
    PROVE  SignedAt(Store(m, v), T \cup DOMAIN v)
<1>1. /\ DOMAIN Store(m, v) = DOMAIN m
      /\ \A c \in DOMAIN m : Store(m, v)[c] = m[c] \/ \E a \in DOMAIN v : Decode(a) = c
  BY StoreWrites
<1> QED
  BY <1>1 DEF SignedAt

\* Marking pages signs those.
LEMMA MarkingSigns ==
    ASSUME NEW m, NEW what, NEW S, NEW T, NEW n \in Nat, S \subseteq 0 .. n, SignedAt(m, T)
    PROVE  SignedAt(Store(m, Marked(what, S)), T \cup S)
<1>1. DOMAIN Marked(what, S) = S
  BY DEF Marked
<1>2. SignedAt(Store(m, Marked(what, S)), T \cup DOMAIN Marked(what, S))
  BY <1>1, WritingSigns
<1> QED
  BY <1>1, <1>2

\* Where every signature answers at a word put aside, putting all of them back
\* leaves none.
LEMMA RestoringCleans ==
    ASSUME IInv, NEW m, NEW F, F = {}, SignedAt(m, DOMAIN kept),
           \A a \in DOMAIN kept : kept[a][1] \notin Leavings
    PROVE  SignedAt(Store(m, Restrict(kept, DOMAIN kept \ F)), {})
<1> DEFINE v == Restrict(kept, DOMAIN kept \ F)
<1>1. PICK n \in Nat : DOMAIN kept \ F \subseteq 0 .. n
  BY KeptFacts
<1>2. DOMAIN v = DOMAIN kept /\ \A a \in DOMAIN v : v[a][1] \notin Leavings
  BY DEF Restrict
<1> HIDE DEF v
<1>3. SignedAt(Store(m, v), {})
  BY <1>1, <1>2, StoreWrites DEF SignedAt
<1> QED
  BY <1>3 DEF v

\* The driver's steps before the first look at memory and after the last.
LEMMA QuietStepIsSpotless ==
    ASSUME IInv, Spotless, Register \/ StartModeSet \/ Plan \/ StageTwo \/ Decide \/ PublishEnd \/ PublishState
    PROVE  Spotless'
<1> USE DEF Spotless, SignedAt, Decode, Standing, ProbeSteps, ProofSteps, settled, window, proof,
        Unused
<1>1. CASE Register
  BY <1>1 DEF Register
<1>2. CASE StartModeSet
  BY <1>2 DEF StartModeSet
<1>3. CASE Plan \/ StageTwo
  BY <1>3 DEF Plan, StageTwo, Prove, NothingToProve
<1>4. CASE Decide
  <2>1. windowStart \in Nat /\ at = "decide" /\ windowState = "unopened"
    BY <1>4 DEF Decide, IInv, TypeOK, Unopened
  <2>2. windowStart .. windowStart - 1 = {}
    BY <2>1
  <2>3. ~anyFailed => CleanBelow(reached)
    BY <1>4, <2>1, NoneIsRead DEF Decide, CleanBelow
  <2> QED
    BY <1>4, <2>1, <2>2, <2>3 DEF Decide, CleanBelow, Read
<1>5. CASE PublishEnd
  BY <1>5 DEF PublishEnd, CleanBelow, Read
<1>6. CASE PublishState
  BY <1>6 DEF PublishState
<1> QED
  BY <1>1, <1>2, <1>3, <1>4, <1>5, <1>6

\* The passes of the probe sign only pages whose words they keep, and give all back.
LEMMA ProbeIsSpotless ==
    ASSUME RestoresAreMapped, IInv, Spotless, windowState = "unopened",
           ProbeSave \/ ProbeWrite \/ ProbeRead \/ ProbeRestore
    PROVE  Spotless'
<1>1. CASE ProbeSave
  <2>1. PICK F \in Failing("probe_save", ProbeOffsets) :
           ProbePass("probe_save", "probe_write", [a \in ProbeOffsets \ F |-> Read(mem, a)], mem)
    BY <1>1 DEF ProbeSave
  <2>2. SignedAt(mem, {})
    BY <2>1 DEF ProbePass, Spotless
  <2>3. \A a \in ProbeOffsets \ F : Read(mem, a)[1] \notin Leavings
    <3>1. limit \in Nat /\ ProbeOffsets \subseteq 0 .. limit
      BY ProbeOffsetsFacts
    <3>2. \A a \in ProbeOffsets \ F : a \in Nat
      BY <3>1
    <3>3. \A a \in Nat : Read(mem, a)[1] \notin Leavings
      BY <2>2, NoneIsRead
    <3> HIDE DEF ProbeOffsets
    <3> QED
      BY <3>2, <3>3, Zenon
  <2>4. /\ at' = "probe_write" /\ UNCHANGED <<board, mem>>
        /\ \A a \in DOMAIN kept' : kept'[a][1] \notin Leavings
    BY <2>1, <2>3 DEF ProbePass, Unused, settled
  <2> QED
    BY <2>2, <2>4 DEF Spotless, SignedAt, Standing, ProofSteps
<1>2. CASE ProbeWrite
  <2>1. PICK F \in Failing("probe_write", DOMAIN kept) :
           ProbePass("probe_write", "probe_read", Restrict(kept, DOMAIN kept \ F),
                     Store(mem, Marked("probe", DOMAIN kept \ F)))
    BY <1>2 DEF ProbeWrite
  <2>2. SignedAt(mem, {}) /\ \A a \in DOMAIN kept : kept[a][1] \notin Leavings
    BY <2>1 DEF ProbePass, Spotless, ProbeSteps
  <2>3. SignedAt(mem', DOMAIN kept \ F)
    <3>1. PICK n \in Nat : DOMAIN kept \ F \subseteq 0 .. n
      BY KeptFacts
    <3>2. SignedAt(Store(mem, Marked("probe", DOMAIN kept \ F)), {} \cup (DOMAIN kept \ F))
      BY <2>2, <3>1, MarkingSigns
    <3> QED
      BY <2>1, <3>2 DEF ProbePass
  <2>4. /\ at' = "probe_read" /\ UNCHANGED board
        /\ DOMAIN kept' = DOMAIN kept \ F
        /\ \A a \in DOMAIN kept' : kept'[a][1] \notin Leavings
    BY <2>1, <2>2 DEF ProbePass, Unused, settled, Restrict
  <2> QED
    BY <2>3, <2>4 DEF Spotless, SignedAt, Decode, Standing, ProofSteps
<1>3. CASE ProbeRead
  <2>1. PICK F \in Failing("probe_read", DOMAIN kept) :
           ProbePass("probe_read", "probe_restore", Restrict(kept, DOMAIN kept \ F), mem)
    BY <1>3 DEF ProbeRead
  <2>2. F = {}
    BY <2>1 DEF Failing, RestoresAreMapped
  <2>3. /\ SignedAt(mem, DOMAIN kept)
        /\ \A a \in DOMAIN kept : kept[a][1] \notin Leavings
    BY <2>1 DEF ProbePass, Spotless, ProbeSteps
  <2>4. /\ at' = "probe_restore" /\ UNCHANGED <<board, mem>>
        /\ DOMAIN kept' = DOMAIN kept
        /\ \A a \in DOMAIN kept' : kept'[a][1] \notin Leavings
    BY <2>1, <2>2, <2>3 DEF ProbePass, Unused, settled, Restrict
  <2> QED
    BY <2>3, <2>4 DEF Spotless, SignedAt, Decode, Standing, ProofSteps
<1>4. CASE ProbeRestore
  <2> DEFINE next == IF registered /\ windowState = "unopened" THEN "plan" ELSE "clear"
  <2>1. PICK F \in Failing("probe_restore", DOMAIN kept) :
           ProbePass("probe_restore", next, None, Store(mem, Restrict(kept, DOMAIN kept \ F)))
    BY <1>4 DEF ProbeRestore
  <2>2. F = {}
    BY <2>1 DEF Failing, RestoresAreMapped
  <2>3. /\ SignedAt(mem, DOMAIN kept)
        /\ \A a \in DOMAIN kept : kept[a][1] \notin Leavings
    BY <2>1 DEF ProbePass, Spotless, ProbeSteps
  <2>4. SignedAt(mem', {})
    BY <2>1, <2>2, <2>3, RestoringCleans DEF ProbePass
  <2>5. at' \in {"plan", "clear"} /\ UNCHANGED board
    BY <2>1 DEF ProbePass, Unused, settled
  <2> QED
    BY <2>4, <2>5 DEF Spotless, SignedAt, Standing, ProbeSteps, ProofSteps
<1> QED
  BY <1>1, <1>2, <1>3, <1>4

\* Whatever a failed stage leaves is for the cleaning.
LEMMA FailedStageIsSpotless == ASSUME StageFails PROVE Spotless'
BY DEF StageFails, Spotless, Standing, ProbeSteps, ProofSteps

\* The witnesses put aside clean words, each page's own: below the region the board
\* has every page.
LEMMA PlaceWitnessesIsSpotless ==
    ASSUME IInv, Spotless, windowState = "unopened", PlaceWitnesses PROVE Spotless'
<1> DEFINE earlier(mine, w) == {v \in mine : v < w /\ Decode(v) = Decode(w)}
           was(mine, w) == IF earlier(mine, w) = {} THEN Read(mem, w)
                           ELSE <<"witness", Max(earlier(mine, w))>>
<1>1. at = "witness" /\ UNCHANGED board
  BY DEF PlaceWitnesses, Unused, settled
<1>2. PICK F : \/ StageFails
               \/ /\ kept' = [w \in Witnesses \ F |-> was(Witnesses \ F, w)]
                  /\ mem' = Store(mem, Marked("witness", Witnesses \ F))
                  /\ at' = "two_pages"
                  /\ UNCHANGED <<from, to, reached, anyFailed>>
  BY Zenon DEF PlaceWitnesses
<1>3. CASE StageFails
  BY <1>3, FailedStageIsSpotless
<1>4. CASE /\ kept' = [w \in Witnesses \ F |-> was(Witnesses \ F, w)]
           /\ mem' = Store(mem, Marked("witness", Witnesses \ F))
           /\ at' = "two_pages"
           /\ UNCHANGED <<from, to, reached, anyFailed>>
  <2>1. from \in Nat /\ from <= board.size /\ SignedAt(mem, {})
    BY <1>1 DEF IInv, TypeOK, RegionIsAbove, Spotless, ProofSteps
  <2>2. \A w \in Witnesses : w \in Nat /\ w < from /\ Decode(w) = w
    <3>1. \A w \in Witnesses : w \in Nat /\ w < from
      BY <2>1 DEF Witnesses
    <3>2. board.size \in Nat
      BY DecodeFacts DEF IInv
    <3> QED
      BY <2>1, <3>1, <3>2, DecodeFacts DEF IInv
  <2>3. ASSUME NEW w \in Witnesses \ F PROVE was(Witnesses \ F, w)[1] \notin Leavings
    <3>1. earlier(Witnesses \ F, w) = {}
      BY <2>2
    <3>2. Read(mem, w)[1] \notin Leavings
      BY <2>1, <2>2, NoneIsRead
    <3> QED
      BY <3>1, <3>2
  <2>4. SignedAt(mem', Witnesses \ F)
    <3>1. Witnesses \ F \subseteq 0 .. from
      BY <2>1, <2>2
    <3>2. SignedAt(Store(mem, Marked("witness", Witnesses \ F)), {} \cup (Witnesses \ F))
      BY <2>1, <3>1, MarkingSigns
    <3> QED
      BY <1>4, <3>2
  <2> HIDE DEF was
  <2>5. /\ at' = "two_pages" /\ DOMAIN kept' = Witnesses \ F
        /\ \A a \in DOMAIN kept' : kept'[a][1] \notin Leavings
    BY <1>4, <2>2, <2>3
  <2> QED
    BY <1>1, <2>4, <2>5 DEF Spotless, SignedAt, Decode, Standing, ProbeSteps, ProofSteps
<1> QED
  BY <1>2, <1>3, <1>4

\* Two pages of the region are signed, or the stage fails.
LEMMA WriteTwoPagesIsSpotless ==
    ASSUME IInv, Spotless, windowState = "unopened", WriteTwoPages PROVE Spotless'
<1>1. /\ at = "two_pages" /\ UNCHANGED board
      /\ \/ StageFails
         \/ /\ mem' = Store(mem, Marked("page", {from, to - 1}))
            /\ at' = "first_look"
            /\ UNCHANGED <<kept, from, to>>
  BY DEF WriteTwoPages, Unused, settled
<1>2. CASE StageFails
  BY <1>2, FailedStageIsSpotless
<1>3. CASE /\ mem' = Store(mem, Marked("page", {from, to - 1}))
           /\ at' = "first_look"
           /\ UNCHANGED <<kept, from, to>>
  <2>1. from \in Nat /\ to \in Nat /\ from < to
    BY <1>1 DEF IInv, TypeOK, RegionIsAbove, ProofSteps
  <2>2. SignedAt(mem, DOMAIN kept \cup (from .. to - 1))
    BY <1>1 DEF Spotless, Standing, ProofSteps
  <2>3. SignedAt(mem', DOMAIN kept \cup (from .. to - 1))
    <3>1. {from, to - 1} \subseteq 0 .. to /\ {from, to - 1} \subseteq from .. to - 1
      BY <2>1
    <3>2. SignedAt(Store(mem, Marked("page", {from, to - 1})),
                   (DOMAIN kept \cup (from .. to - 1)) \cup {from, to - 1})
      BY <2>1, <2>2, <3>1, MarkingSigns
    <3>3. (DOMAIN kept \cup (from .. to - 1)) \cup {from, to - 1} = DOMAIN kept \cup (from .. to - 1)
      BY <3>1
    <3> QED
      BY <1>3, <3>2, <3>3
  <2> QED
    BY <1>1, <1>3, <2>3 DEF Spotless, SignedAt, Decode, Standing, ProbeSteps, ProofSteps
<1> QED
  BY <1>1, <1>2, <1>3

\* Looking writes nothing but the words of a stage that fails.
LEMMA FirstLookIsSpotless ==
    ASSUME IInv, Spotless, windowState = "unopened", FirstLook PROVE Spotless'
<1>1. /\ at = "first_look" /\ UNCHANGED board
      /\ StageFails \/ (at' = "rest" /\ UNCHANGED <<mem, kept, from, to>>)
  BY DEF FirstLook, Unused, settled
<1>2. CASE StageFails
  BY <1>2, FailedStageIsSpotless
<1>3. CASE at' = "rest" /\ UNCHANGED <<mem, kept, from, to>>
  BY <1>1, <1>3 DEF Spotless, SignedAt, Decode, Standing, ProbeSteps, ProofSteps
<1> QED
  BY <1>1, <1>2, <1>3

\* The rest of the region is signed.
LEMMA WriteTheRestIsSpotless ==
    ASSUME IInv, Spotless, windowState = "unopened", WriteTheRest PROVE Spotless'
<1>1. /\ at = "rest" /\ at' = "second_look" /\ UNCHANGED <<board, kept, from, to>>
      /\ mem' = Store(mem, Marked("page", from .. to - 1))
  BY DEF WriteTheRest, Unused, settled, proof
<1>2. from \in Nat /\ to \in Nat
  BY DEF IInv, TypeOK
<1>3. SignedAt(mem, DOMAIN kept \cup (from .. to - 1))
  BY <1>1 DEF Spotless, Standing, ProofSteps
<1>4. SignedAt(mem', DOMAIN kept \cup (from .. to - 1))
  <2>1. from .. to - 1 \subseteq 0 .. to
    BY <1>2
  <2>2. SignedAt(Store(mem, Marked("page", from .. to - 1)),
                 (DOMAIN kept \cup (from .. to - 1)) \cup (from .. to - 1))
    BY <1>2, <1>3, <2>1, MarkingSigns
  <2>3. (DOMAIN kept \cup (from .. to - 1)) \cup (from .. to - 1) = DOMAIN kept \cup (from .. to - 1)
    OBVIOUS
  <2> QED
    BY <1>1, <2>2, <2>3
<1> QED
  BY <1>1, <1>4 DEF Spotless, SignedAt, Decode, Standing, ProbeSteps, ProofSteps

\* Zeroing part of a board takes the signatures out of it.
LEMMA ZeroingCleans ==
    ASSUME IInv, NEW n \in Nat, n <= board.size, NEW k \in Nat, NEW S, SignedAt(mem, S \cup (k .. n - 1))
    PROVE  SignedAt(Store(mem, Zeros(k .. n - 1)), S)
<1> DEFINE v == Zeros(k .. n - 1)
<1>1. DOMAIN v = k .. n - 1 /\ \A a \in DOMAIN v : v[a][1] = "zero"
  BY DEF Zeros
<1>2. \A a \in k .. n - 1 : Decode(a) = a
  BY DecodeFacts DEF IInv
<1> HIDE DEF v
<1>3. /\ DOMAIN Store(mem, v) = DOMAIN mem
      /\ \A c \in DOMAIN mem :
            \/ /\ \A a \in DOMAIN v : Decode(a) # c
               /\ Store(mem, v)[c] = mem[c]
            \/ \E a \in DOMAIN v : Decode(a) = c /\ Store(mem, v)[c] = v[a]
  <2>1. DOMAIN v \subseteq 0 .. n
    BY <1>1
  <2> QED
    BY <2>1, StoreWrites
<1>4. SignedAt(Store(mem, v), S)
  BY <1>1, <1>2, <1>3 DEF SignedAt, Leavings
<1> QED
  BY <1>4 DEF v

\* A region that passes is zeroed, and then every witness gives its page back.
LEMMA SecondLookIsSpotless ==
    ASSUME RestoresAreMapped, IInv, Spotless, windowState = "unopened", SecondLook PROVE Spotless'
<1>1. PICK F \in Failing("look", DOMAIN kept), G \in Failing("restore", DOMAIN kept) :
        IF RegionAnswers /\ Intact(mem, F)
        THEN /\ RestoreWitnesses(Store(mem, Zeros(from .. to - 1)), G)
             /\ reached' = to
             /\ at' = IF to = StageOneTo THEN "stage_two" ELSE "decide"
             /\ UNCHANGED <<from, to, anyFailed>>
        ELSE RestoreWitnesses(mem, G) /\ StageFails
  BY DEF SecondLook
<1>2. at = "second_look" /\ UNCHANGED board
  BY DEF SecondLook, Unused, settled
<1>3. G = {}
  BY DEF Failing, RestoresAreMapped
<1>4. CASE ~(RegionAnswers /\ Intact(mem, F))
  BY <1>1, <1>4, FailedStageIsSpotless
<1>5. CASE RegionAnswers /\ Intact(mem, F)
  <2>1. from \in Nat /\ to \in Nat /\ to <= board.size
    BY <1>2, <1>5, PassedIsMemory DEF IInv, TypeOK
  <2>2. /\ SignedAt(mem, DOMAIN kept \cup (from .. to - 1))
        /\ \A a \in DOMAIN kept : kept[a][1] \notin Leavings
    BY <1>2 DEF Spotless, Standing, ProofSteps
  <2>3. SignedAt(Store(mem, Zeros(from .. to - 1)), DOMAIN kept)
    BY <2>1, <2>2, ZeroingCleans
  <2>4. SignedAt(mem', {})
    BY <1>1, <1>3, <1>5, <2>2, <2>3, RestoringCleans DEF RestoreWitnesses
  <2>5. at' \in {"stage_two", "decide"}
    BY <1>1, <1>5
  <2> QED
    BY <1>2, <2>4, <2>5 DEF Spotless, SignedAt, Standing, ProbeSteps, ProofSteps
<1> QED
  BY <1>4, <1>5

\* A piece is zeroed where it decodes to, and what is below it stays clean.
LEMMA CleanPieceIsSpotless ==
    ASSUME IInv, Spotless, windowState = "unopened", CleanPiece PROVE Spotless'
<1> DEFINE end == Lesser(cleaned + Chunk, reached)
<1>1. /\ at = "clean" /\ UNCHANGED <<board, windowStart, reached>>
      /\ \/ windowState' = "failed"
         \/ /\ mem' = Store(mem, Zeros(cleaned .. end - 1))
            /\ cleaned' = end
            /\ at' = IF end < reached THEN "clean" ELSE "publish_end"
  BY DEF CleanPiece, Unused, settled
<1>2. CASE windowState' = "failed"
  BY <1>2 DEF Spotless
<1>3. CASE /\ mem' = Store(mem, Zeros(cleaned .. end - 1))
           /\ cleaned' = end
           /\ at' = IF end < reached THEN "clean" ELSE "publish_end"
  <2>1. /\ cleaned \in Nat /\ reached \in Nat /\ windowStart \in Nat /\ board.size \in Nat
        /\ end \in Nat /\ end <= reached /\ end <= board.size
    <3>1. cleaned \in Nat /\ reached \in Nat /\ windowStart \in Nat /\ reached <= board.size
      BY DEF IInv, TypeOK, RegionIsAbove
    <3>2. board.size \in Nat
      BY DecodeFacts DEF IInv
    <3>3. Chunk \in Nat
      BY SizeAssumption
    <3>4. end \in Nat /\ end <= reached
      BY <3>1, <3>3 DEF Lesser
    <3> QED
      BY <3>1, <3>2, <3>4
  <2>2. CleanBelow(cleaned)
    BY <1>1 DEF Spotless
  <2>3. at' = "publish_end" => end = reached
    BY <1>3, <2>1
  <2> HIDE DEF end
  <2>4. ASSUME NEW a \in windowStart .. end - 1 PROVE Read(mem', a)[1] \notin Leavings
    <3> DEFINE v == Zeros(cleaned .. end - 1)
    <3>1. a \in Nat /\ a < end /\ Decode(a) = a
      BY <2>1, DecodeFacts DEF IInv
    <3>2. a \in DOMAIN mem
      BY <2>1, <3>1 DEF IInv, TypeOK
    <3>3. a # Nowhere
      BY <3>1 DEF Nowhere
    <3>4. DOMAIN v = cleaned .. end - 1 /\ \A b \in DOMAIN v : v[b][1] = "zero"
      BY DEF Zeros
    <3> HIDE DEF v
    <3>5. \/ /\ \A b \in DOMAIN v : Decode(b) # a
             /\ Store(mem, v)[a] = mem[a]
          \/ \E b \in DOMAIN v : Store(mem, v)[a] = v[b]
      <4>1. DOMAIN v \subseteq 0 .. end
        BY <2>1, <3>4
      <4> QED
        BY <2>1, <3>2, <4>1, StoreWrites
    <3>6. Read(mem', a) = Store(mem, v)[a] /\ Read(mem, a) = mem[a]
      BY <1>3, <3>1, <3>3 DEF Read, v
    <3>7. CASE a < cleaned
      <4>1. Read(mem, a)[1] \notin Leavings
        BY <2>1, <2>2, <3>7 DEF CleanBelow
      <4> QED
        BY <3>4, <3>5, <3>6, <4>1 DEF Leavings
    <3>8. CASE cleaned <= a
      <4>1. a \in DOMAIN v
        BY <2>1, <3>1, <3>4, <3>8
      <4> QED
        BY <3>1, <3>4, <3>5, <3>6, <4>1 DEF Leavings
    <3> QED
      BY <2>1, <3>1, <3>7, <3>8
  <2>5. /\ at' \in {"clean", "publish_end"} /\ cleaned' = end
        /\ at' = "publish_end" => reached' = end
    BY <1>1, <1>3, <2>3
  <2> QED
    BY <1>1, <2>4, <2>5 DEF Spotless, CleanBelow, Read, Decode, Standing, ProbeSteps, ProofSteps
<1> QED
  BY <1>1, <1>2, <1>3

\* Clearing the picture signs nothing.
LEMMA ClearVisibleIsSpotless ==
    ASSUME IInv, Spotless, windowState = "unopened", ClearVisible PROVE Spotless'
<1>1. /\ at = "clear" /\ at' = "off" /\ UNCHANGED board
      /\ mem' = Store(mem, Zeros(0 .. mode.visible - 1))
  BY DEF ClearVisible, Unused, settled
<1>2. SignedAt(mem, {})
  BY <1>1 DEF Spotless
<1>3. mode.visible \in Nat
  BY ModeAssumption DEF IInv, TypeOK
<1> DEFINE v == Zeros(0 .. mode.visible - 1)
<1>4. DOMAIN v \subseteq 0 .. mode.visible /\ \A a \in DOMAIN v : v[a][1] \notin Leavings
  BY <1>3 DEF Zeros, Leavings
<1> HIDE DEF v
<1>5. SignedAt(Store(mem, v), {})
  BY <1>2, <1>3, <1>4, StoreWrites DEF SignedAt
<1>6. SignedAt(mem', {})
  BY <1>1, <1>5 DEF v
<1> QED
  BY <1>1, <1>6 DEF Spotless, SignedAt, Standing, ProbeSteps, ProofSteps

\* Nobody draws before the window is open.
LEMMA ClientIsSpotless ==
    ASSUME IInv, Spotless, windowState = "unopened", NEW c \in Clients, Client(c) PROVE Spotless'
<1>1. mapped[c] = {}
  BY DEF IInv, Unopened
<1>2. UNCHANGED <<mem, board, window, at, proof, kept>>
  BY <1>1 DEF Client, DevOpen, DevClose, MapBatch, DevMmap, Draw, ClientExits, Aside, settled
<1> QED
  BY <1>2 DEF Spotless, SignedAt, CleanBelow, Read, Decode, window, proof

\* Every step of a boot whose restoring mappings are made keeps the memory spotless.
LEMMA StepIsSpotless ==
    ASSUME RestoresAreMapped, IInv, Spotless, [Next]_vars PROVE Spotless'
<1>1. CASE UNCHANGED vars
  BY <1>1 DEF vars, settled, window, proof, Spotless, SignedAt, CleanBelow, Read, Decode
<1>2. CASE windowState' # "unopened"
  BY <1>2 DEF Spotless
<1>3. CASE Next /\ windowState' = "unopened"
  <2>1. windowState = "unopened"
    BY <1>3 DEF Next, Register, ModeThread, StartModeSet, ProbeSave, ProbeWrite, ProbeRead,
       ProbeRestore, ProbePass, Plan, StageTwo, PlaceWitnesses, WriteTwoPages, FirstLook, WriteTheRest,
       SecondLook, Decide, CleanPiece, PublishEnd, PublishState, ClearVisible, Client, DevOpen,
       DevClose, MapBatch, DevMmap, Draw, ClientExits, Aside, window, IInv, Unopened
  <2>2. CASE Register
    BY <2>2, QuietStepIsSpotless
  <2>3. CASE ModeThread
    BY <2>1, <2>3, QuietStepIsSpotless, ProbeIsSpotless, PlaceWitnessesIsSpotless,
       WriteTwoPagesIsSpotless, FirstLookIsSpotless, WriteTheRestIsSpotless,
       SecondLookIsSpotless, CleanPieceIsSpotless, ClearVisibleIsSpotless
    DEF ModeThread
  <2>4. CASE \E c \in Clients : Client(c)
    BY <2>1, <2>4, ClientIsSpotless
  <2> QED
    BY <1>3, <2>2, <2>3, <2>4 DEF Next
<1> QED
  BY <1>1, <1>2, <1>3

\* What clients are given holds no signature of the probe or of the proof: a stage
\* that passed was zeroed and gave its witnesses' pages back, and after one that
\* failed the whole window was zeroed before it was published.
THEOREM ClientsGetCleanMemory ==
    ASSUME WitnessesAreMapped, RestoresAreMapped PROVE Spec => WindowOpensClean
<1>1. Init => Spotless
  BY SizeAssumption DEF Init, Spotless, SignedAt, Leavings, Standing, ProbeSteps, ProofSteps
<1>2. IInv /\ Spotless /\ [Next]_vars => Spotless'
  BY StepIsSpotless
<1>3. IInv /\ Spotless /\ [Next]_vars =>
        [windowState # "open" /\ windowState' = "open" =>
            \A a \in windowStart' .. windowEnd' - 1 : Read(mem', a)[1] \notin Leavings]_vars
  <2> SUFFICES ASSUME IInv, Spotless, Next, windowState # "open", windowState' = "open"
               PROVE  \A a \in windowStart' .. windowEnd' - 1 : Read(mem', a)[1] \notin Leavings
    OBVIOUS
  <2>1. PublishState
    BY DEF Next, Register, ModeThread, StartModeSet, ProbeSave, ProbeWrite, ProbeRead,
       ProbeRestore, ProbePass, Plan, StageTwo, PlaceWitnesses, WriteTwoPages, FirstLook, WriteTheRest,
       SecondLook, Decide, CleanPiece, PublishEnd, ClearVisible, Client, DevOpen,
       DevClose, MapBatch, DevMmap, Draw, ClientExits, Aside, window
  <2>2. CleanBelow(windowEnd)
    BY <2>1 DEF PublishState, Spotless, IInv, Unopened
  <2>3. UNCHANGED <<windowStart, windowEnd, mem, board>>
    BY <2>1 DEF PublishState, Unused, settled
  <2> QED
    BY <2>2, <2>3 DEF CleanBelow, Read, Decode
<1>4. Spec => []IInv
  BY Inductive
<1> QED
  BY <1>1, <1>2, <1>3, <1>4, PTL DEF Spec, WindowOpensClean

-------------------------------------------------------------------------------
(* The survey. *)

USE DEF Buses, Places, Addr

\* Everything about p has been judged when the walk is past it.
Examined(p) ==
    /\ p[1] \in done
    /\ p[1] = place[1] => p[2] < place[2] \/ (p[2] = place[2] /\ p[3] < place[3])

\* What a clear verdict says of a base, of the registers before n and of a window.
OutOfRange(p, d) == p = Ours \/ d.base = 0 \/ ~InRange(d.base)

BarsAside(p, n) ==
    \A i \in 1 .. Len(space[p].bars) :
        i < n /\ Below4G(space[p], i) => OutOfRange(p, space[p].bars[i])

RomAside(p) == space[p].rom.enabled => OutOfRange(p, space[p].rom)

WindowFits(w, isAncestor) ==
    \A a \in Addr : InRange(a) =>
        IF isAncestor THEN Forwards(w, Fb) => Forwards(w, a) ELSE ~Forwards(w, a)

WindowsFit(p) ==
    space[p].header = "bridge" =>
        \A w \in WindowsOf(space[p]) : WindowFits(w, IsAncestor(space[p]))

Followed(p) ==
    space[p].header = "bridge" /\ space[p].secondary # 0 => space[p].secondary \in todo

Harmless(p) ==
    /\ space[p].header # "other"
    /\ BarsAside(p, Len(space[p].bars) + 1) /\ RomAside(p) /\ WindowsFit(p)

-------------------------------------------------------------------------------
\* The parts of the inductive invariant: where the walk stands, what it has
\* queued, and what a verdict that is still clear says of what is behind it.
WalkStands ==
    /\ stage = "bus" => done = {} \/ place[2] = MaxDevice + 1
    /\ stage = "function" => place[1] \in done /\ place[2] <= MaxDevice
    /\ stage \in {"bars", "rom"} =>
         /\ place \in DOMAIN space /\ place[1] \in done
         /\ space[place].header \in {"device", "bridge"}
    /\ stage = "bars" /\ reg <= Len(space[place].bars) => space[place].bars[reg].form # "upper"
    /\ stage = "end" => todo \subseteq done /\ (done = {} \/ place[2] = MaxDevice + 1)

Queued ==
    /\ 0 \in todo /\ done \subseteq todo
    /\ \A p \in DOMAIN space : Examined(p) => Followed(p)
    /\ stage \in {"bars", "rom"} => Followed(place)

RequestFits == verdict = "clear" => Want # 0 /\ Fb + Want <= Top - 1

Behind ==
    verdict = "clear" =>
      /\ \A p \in DOMAIN space : Examined(p) => Harmless(p)
      /\ stage = "bars" => WindowsFit(place) /\ BarsAside(place, reg)
      /\ stage = "rom" => WindowsFit(place) /\ BarsAside(place, Len(space[place].bars) + 1)

SurveyInv == SurveyTypeOK /\ WalkStands /\ Queued /\ RequestFits /\ Behind

\* What the sanity of configuration space says of one function.
LEMMA SpaceIsSane ==
  ASSUME SurveyTypeOK, NEW p \in DOMAIN space
  PROVE  /\ p \in Places /\ space[p] \in PciFunctions
         /\ space[p].bars \in Seq(BaseRegisters) /\ Len(space[p].bars) \in Nat
         /\ \A i \in 1 .. Len(space[p].bars) : space[p].bars[i] \in BaseRegisters
         /\ p[3] # 0 => /\ <<p[1], p[2], 0>> \in DOMAIN space
                        /\ space[<<p[1], p[2], 0>>].multi
         /\ \A i \in 1 .. Len(space[p].bars) :
              /\ space[p].bars[i].form = "upper" <=>
                   i > 1 /\ space[p].bars[i - 1].form = "m64"
              /\ space[p].bars[i].size > 0
         /\ space[p].rom.size > 0
         /\ p # Ours => ~Decodes(space[p], Fb)
         /\ space[p].header = "bridge" /\ space[p].secondary = 0
              => \A w \in WindowsOf(space[p]) : w.base = 0
<1>1. Sane(space)
  BY TopologiesAssumption DEF SurveyTypeOK
<1>2. p \in Places /\ space[p] \in PciFunctions
  BY <1>1 DEF Sane
<1>3. space[p].bars \in Seq(BaseRegisters)
  BY <1>2 DEF PciFunctions
<1>4. Len(space[p].bars) \in Nat
      /\ \A i \in 1 .. Len(space[p].bars) : space[p].bars[i] \in BaseRegisters
  BY <1>3
<1> HIDE DEF Buses, Places, Addr
<1> QED
  BY <1>1, <1>2, <1>3, <1>4 DEF Sane

\* The second half of a pair stands right after its first, and only there.
LEMMA HalvesFollow ==
  ASSUME SurveyTypeOK, NEW p \in DOMAIN space
  PROVE  /\ 1 <= Len(space[p].bars) => space[p].bars[1].form # "upper"
         /\ \A i \in Nat \ {0} : i + 1 <= Len(space[p].bars) =>
              (space[p].bars[i + 1].form = "upper" <=> space[p].bars[i].form = "m64")
<1>1. /\ Len(space[p].bars) \in Nat
      /\ \A i \in 1 .. Len(space[p].bars) :
           space[p].bars[i].form = "upper" <=> i > 1 /\ space[p].bars[i - 1].form = "m64"
  BY SpaceIsSane
<1>2. ASSUME NEW i \in Nat \ {0}, i + 1 <= Len(space[p].bars)
      PROVE  space[p].bars[i + 1].form = "upper" <=> space[p].bars[i].form = "m64"
  <2>1. i + 1 \in 1 .. Len(space[p].bars) /\ i + 1 > 1 /\ (i + 1) - 1 = i
    BY <1>1, <1>2
  <2>2. space[p].bars[i + 1].form = "upper" <=>
          i + 1 > 1 /\ space[p].bars[(i + 1) - 1].form = "m64"
    BY <1>1, <2>1
  <2> QED
    BY <2>1, <2>2
<1>3. 1 <= Len(space[p].bars) => space[p].bars[1].form # "upper"
  <2>1. 1 <= Len(space[p].bars) =>
          (space[p].bars[1].form = "upper" <=> 1 > 1 /\ space[p].bars[1 - 1].form = "m64")
    BY <1>1
  <2> QED
    BY <2>1
<1> QED
  BY <1>2, <1>3

\* Refusing, and judging a base: a verdict that is clear afterwards was clear
\* before, and the base is beside the range.
LEMMA RefusedIsNotClear ==
  ASSUME NEW v \in Verdicts, NEW why \in Verdicts \ {"clear"}
  PROVE  Refused(v, why) \in Verdicts /\ Refused(v, why) # "clear"
  BY DEF Refused, Verdicts

\* A base that leaves the verdict clear is unset or outside the range.
LEMMA BaseJudged ==
  ASSUME NEW v \in Verdicts, NEW base
  PROVE  /\ ClaimBase(v, base) \in Verdicts
         /\ ClaimBase(v, base) = "clear" => v = "clear" /\ (base = 0 \/ ~InRange(base))
  BY DEF ClaimBase, Refused, Verdicts

\* The same for a forwarding window.  A foreign one may not end at the top.
LEMMA WindowJudged ==
  ASSUME NEW v \in Verdicts, NEW w \in Windows, NEW isAncestor \in BOOLEAN,
         isAncestor \/ w.limit < Top - 1
  PROVE  /\ OneWindow(v, w, isAncestor) \in Verdicts
         /\ OneWindow(v, w, isAncestor) = "clear" => v = "clear"
         /\ OneWindow(v, w, isAncestor) = "clear" /\ Fb + Want <= Top - 1
              => WindowFits(w, isAncestor)
<1> USE SpaceAssumption
<1>0. w.base \in Addr /\ w.limit \in Addr
  BY DEF Windows
<1>1. ClaimWindow(v, w.base, EndOf(w), isAncestor) \in Verdicts
  BY DEF ClaimWindow, Refused, Verdicts
<1>2. OneWindow(v, w, isAncestor) \in Verdicts
  BY <1>1 DEF OneWindow
<1>3. OneWindow(v, w, isAncestor) = "clear" => v = "clear"
  BY DEF OneWindow, ClaimWindow, Refused
<1>4. ASSUME OneWindow(v, w, isAncestor) = "clear", Fb + Want <= Top - 1,
             NEW a \in Addr, InRange(a)
      PROVE  IF isAncestor THEN Forwards(w, Fb) => Forwards(w, a) ELSE ~Forwards(w, a)
  <2>1. CASE w.base = 0 \/ w.base > w.limit
    BY <1>0, <2>1, <1>4 DEF Forwards
  <2>2. CASE w.base # 0 /\ w.base <= w.limit /\ w.limit = Top - 1
    BY <1>0, <2>2, <1>4 DEF Forwards, InRange
  <2>3. CASE w.base # 0 /\ w.base <= w.limit /\ w.limit # Top - 1
    <3>1. EndOf(w) = w.limit + 1 /\ w.base < EndOf(w)
      BY <1>0, <2>3 DEF EndOf
    <3>2. ClaimWindow(v, w.base, EndOf(w), isAncestor) = "clear"
      BY <1>4, <2>3 DEF OneWindow
    <3>3. CASE isAncestor
      <4>1. ~(CarriesUs(w.base, EndOf(w)) /\ EndOf(w) < Fb + Want)
        BY <1>0, <3>1, <3>2, <3>3 DEF ClaimWindow, Refused
      <4> QED
        BY <1>0, <1>4, <2>3, <3>1, <3>3, <4>1 DEF CarriesUs, Forwards, InRange
    <3>4. CASE ~isAncestor
      <4>1. ~(EndOf(w) > Fb /\ w.base < Fb + Want)
        BY <1>0, <3>1, <3>2, <3>4 DEF ClaimWindow, Refused
      <4> QED
        BY <1>0, <1>4, <2>3, <3>1, <3>4, <4>1 DEF Forwards, InRange
    <3> QED
      BY <3>3, <3>4
  <2> QED
    BY <1>0, <2>1, <2>2, <2>3
<1> QED
  BY <1>2, <1>3, <1>4 DEF WindowFits

\* Both windows of a bridge, whichever of them the walk judges.
LEMMA BridgeJudged ==
  ASSUME SurveyTypeOK, NoForeignWindowAtTheTop, NEW v \in Verdicts,
         NEW p \in DOMAIN space, space[p].header = "bridge"
  PROVE  /\ BridgeWindows(v, space[p], IsAncestor(space[p])) \in Verdicts
         /\ BridgeWindows(v, space[p], IsAncestor(space[p])) = "clear"
              => v = "clear" /\ (Fb + Want <= Top - 1 => WindowsFit(p))
<1> DEFINE f == space[p]
           anc == IsAncestor(f)
           first == OneWindow(v, f.memory, anc)
           last == OneWindow(first, f.prefetch, anc)
           after == BridgeWindows(v, f, anc)
           Good(x, ws) ==
             /\ x \in Verdicts
             /\ x = "clear" => v = "clear"
             /\ x = "clear" /\ Fb + Want <= Top - 1 => \A w \in ws : WindowFits(w, anc)
<1>1. /\ f.memory \in Windows /\ f.prefetch \in Windows
      /\ f.prefetch.form \in {"plain", "wide", "unknown"}
  BY SpaceIsSane DEF PciFunctions, Windows
<1>2. anc \in BOOLEAN
  BY DEF IsAncestor
<1>3. \A w \in WindowsOf(f) : anc \/ w.limit < Top - 1
  BY DEF NoForeignWindowAtTheTop, SurveyTypeOK
<1>4. Good(first, {f.memory})
  <2>1. f.memory \in WindowsOf(f)
    BY DEF WindowsOf
  <2> HIDE DEF f, anc
  <2> QED
    BY <1>1, <1>2, <1>3, <2>1, WindowJudged
<1>5. CASE f.prefetch.form = "wide" /\ f.prefetch.upper
  <2>1. after = first /\ WindowsOf(f) = {f.memory}
    BY <1>5 DEF BridgeWindows, WindowsOf
  <2> HIDE DEF f, anc, first, after
  <2>2. Good(after, WindowsOf(f))
    BY <1>4, <2>1
  <2> QED
    BY <2>2 DEF f, anc, after, WindowsFit
<1>6. CASE f.prefetch.form = "unknown"
  <2>1. after = Refused(first, "malformed")
    BY <1>6 DEF BridgeWindows
  <2>2. after \in Verdicts /\ after # "clear"
    <3> HIDE DEF first, after
    <3> QED
      BY <1>4, <2>1, RefusedIsNotClear DEF Verdicts
  <2> QED
    BY <2>2
<1>7. CASE ~(f.prefetch.form = "wide" /\ f.prefetch.upper) /\ f.prefetch.form # "unknown"
  <2>1. after = last /\ WindowsOf(f) = {f.memory, f.prefetch}
    BY <1>7 DEF BridgeWindows, WindowsOf
  <2>2. /\ last \in Verdicts
        /\ last = "clear" => first = "clear"
        /\ last = "clear" /\ Fb + Want <= Top - 1 => WindowFits(f.prefetch, anc)
    <3>1. anc \/ f.prefetch.limit < Top - 1
      BY <1>3, <2>1
    <3> HIDE DEF f, anc, first
    <3> QED
      BY <1>1, <1>2, <1>4, <3>1, WindowJudged
  <2> HIDE DEF f, anc, first, last, after
  <2>3. Good(after, WindowsOf(f))
    BY <1>4, <2>1, <2>2
  <2> QED
    BY <2>3 DEF f, anc, after, WindowsFit
<1> QED
  BY <1>5, <1>6, <1>7

\* Moving on leaves exactly the function under examination behind: one the walk
\* skips because function 0 does not announce it is not there.
LEMMA AdvancePasses ==
  ASSUME SurveyTypeOK, place[2] <= MaxDevice, Advance, UNCHANGED <<space, done>>,
         NEW p \in DOMAIN space, Examined(p)'
  PROVE  Examined(p) \/ p = place
<1> USE SpaceAssumption
<1>1. p = <<p[1], p[2], p[3]>> /\ p[1] \in Buses /\ p[2] \in 0 .. MaxDevice
      /\ p[3] \in 0 .. MaxFunction
  <2>1. p \in Places
    BY SpaceIsSane
  <2> QED
    BY <2>1
<1>2. place = <<place[1], place[2], place[3]>> /\ place[1] \in Buses /\ place[2] \in 0 .. MaxDevice + 1
      /\ place[3] \in 0 .. MaxFunction
  BY DEF SurveyTypeOK
<1>3. CASE place' = <<place[1], place[2], place[3] + 1>>
  BY <1>1, <1>2, <1>3 DEF Examined
<1>4. CASE place' = <<place[1], place[2] + 1, 0>> /\ ~(place[3] < MaxFunction /\ Multi)
  <2> SUFFICES ASSUME p[1] = place[1], p[2] = place[2], p[3] > place[3] PROVE FALSE
    BY <1>1, <1>2, <1>4 DEF Examined
  <2>1. ~Multi /\ p[3] # 0
    BY <1>1, <1>2, <1>4
  <2>2. <<place[1], place[2], 0>> \in DOMAIN space /\ space[<<place[1], place[2], 0>>].multi
    BY <2>1, SpaceIsSane
  <2> QED
    BY <2>1, <2>2 DEF Multi
<1> QED
  BY <1>3, <1>4 DEF Advance

\* Moving on leads to another function of a bus being walked, or past its last device.
LEMMA AdvanceStands ==
  ASSUME SurveyTypeOK, Advance, place[1] \in done, place[2] <= MaxDevice,
         UNCHANGED <<space, done, todo, reg>>
  PROVE  /\ place' \in Buses \X (0 .. MaxDevice + 1) \X (0 .. MaxFunction)
         /\ stage' \in {"bus", "function"} /\ WalkStands'
<1> USE SpaceAssumption
<1>1. place = <<place[1], place[2], place[3]>> /\ place[1] \in Buses /\ place[2] \in 0 .. MaxDevice
      /\ place[3] \in 0 .. MaxFunction
  BY DEF SurveyTypeOK
<1>2. CASE place' = <<place[1], place[2], place[3] + 1>> /\ stage' = "function" /\ place[3] < MaxFunction
  BY <1>1, <1>2 DEF WalkStands
<1>3. CASE /\ place' = <<place[1], place[2] + 1, 0>>
           /\ stage' = IF place[2] < MaxDevice THEN "function" ELSE "bus"
  BY <1>1, <1>3 DEF WalkStands
<1> QED
  BY <1>2, <1>3 DEF Advance

-------------------------------------------------------------------------------
\* Types.
LEMMA BridgeTyped ==
  ASSUME NEW v \in Verdicts, NEW f, NEW isAncestor
  PROVE  BridgeWindows(v, f, isAncestor) \in Verdicts
<1>1. \A u \in Verdicts : \A w : OneWindow(u, w, isAncestor) \in Verdicts
  BY DEF OneWindow, ClaimWindow, Refused, Verdicts
<1>2. \A u \in Verdicts : Refused(u, "malformed") \in Verdicts
  BY DEF Refused, Verdicts
<1> QED
  BY <1>1, <1>2 DEF BridgeWindows

\* Judging a register leaves the verdict clear only if its base is no conflict.
LEMMA JudgeTyped ==
  ASSUME NEW base, verdict \in Verdicts, Judge(base)
  PROVE  /\ verdict' \in Verdicts
         /\ verdict' = "clear" =>
              verdict = "clear" /\ (place = Ours \/ base = 0 \/ ~InRange(base))
  BY BaseJudged DEF Judge

\* The verdict after a step, whatever the step.
LEMMA VerdictStep ==
  ASSUME SurveyTypeOK, [SurveyNext]_surveyVars
  PROVE  verdict' \in Verdicts
<1>0. verdict \in Verdicts
  BY DEF SurveyTypeOK
<1>1. \A why \in Verdicts \ {"clear"} : Refused(verdict, why) \in Verdicts
  BY <1>0, RefusedIsNotClear
<1>2. {"malformed", "unknown_header"} \subseteq Verdicts \ {"clear"}
  BY DEF Verdicts
<1>3. CASE UNCHANGED verdict
  BY <1>0, <1>3
<1>4. ASSUME NEW base, Judge(base) PROVE verdict' \in Verdicts
  BY <1>0, <1>4, JudgeTyped
<1>5. CASE Bridge
  BY <1>0, <1>5, BridgeTyped DEF Bridge
<1>6. CASE UnknownHeader \/ BarReserved \/ BarHalfPair
  BY <1>1, <1>2, <1>6 DEF UnknownHeader, BarReserved, BarHalfPair
<1>7. CASE BarSingle \/ BarPair \/ Rom
  BY <1>3, <1>4, <1>7 DEF BarSingle, BarPair, Rom
<1>8. CASE NextBus \/ Finish \/ Absent \/ Device \/ BarPorts \/ BarsEnd \/ UNCHANGED surveyVars
  BY <1>3, <1>8 DEF NextBus, Finish, Absent, Device, BarPorts, BarsEnd, surveyVars
<1> QED
  BY <1>5, <1>6, <1>7, <1>8 DEF SurveyNext, Bar

\* A step that moves on to the next function.
MovesOn == stage' \in {"bus", "function"} /\ Advance /\ place[1] \in done /\ place[2] <= MaxDevice
             /\ UNCHANGED <<space, todo, done, reg>>

\* Three steps leave a function behind: it was absent, unknown or examined.
LEMMA WhoMovesOn ==
  ASSUME SurveyTypeOK, WalkStands, Absent \/ UnknownHeader \/ Rom
  PROVE  MovesOn
<1> USE SpaceAssumption
<1>1. CASE Absent \/ UnknownHeader
  BY <1>1 DEF Absent, UnknownHeader, MovesOn, Advance, WalkStands
<1>2. CASE Rom
  <2>1. place \in Places /\ place[1] \in done
    BY <1>2, SpaceIsSane DEF Rom, WalkStands
  <2> QED
    BY <1>2, <2>1 DEF Rom, MovesOn, Advance
<1> QED
  BY <1>1, <1>2

\* No step of the walk takes a variable out of its range.
LEMMA TypeStep ==
  ASSUME SurveyTypeOK, WalkStands, [SurveyNext]_surveyVars
  PROVE  SurveyTypeOK'
<1> USE SpaceAssumption
<1>0. verdict' \in Verdicts
  BY VerdictStep
<1>1. CASE NextBus
  BY <1>0, <1>1 DEF NextBus, SurveyTypeOK
<1>2. CASE Finish \/ Device \/ UNCHANGED surveyVars
  <2>1. UNCHANGED <<space, todo, done, place>>
    BY <1>2 DEF Finish, Device, surveyVars, walk
  <2>2. reg' = reg \/ reg' = 1
    BY <1>2 DEF Finish, Device, surveyVars, walk
  <2>3. stage' = stage \/ stage' = "end" \/ stage' = "bars"
    BY <1>2 DEF Finish, Device, surveyVars, walk
  <2> QED
    BY <1>0, <2>1, <2>2, <2>3 DEF SurveyTypeOK
<1>3. CASE Absent \/ UnknownHeader \/ Rom
  <2>1. MovesOn
    BY <1>3, WhoMovesOn
  <2>2. /\ place' \in Buses \X (0 .. MaxDevice + 1) \X (0 .. MaxFunction)
        /\ stage' \in {"bus", "function"}
    BY <2>1, AdvanceStands DEF MovesOn
  <2> QED
    BY <1>0, <2>1, <2>2 DEF SurveyTypeOK, MovesOn
<1>4. CASE Bridge
  <2>1. space[place].secondary \in Buses
    BY <1>4, SpaceIsSane DEF Bridge, PciFunctions
  <2>2. todo' = todo \cup ({space[place].secondary} \ {0}) /\ UNCHANGED <<space, done, place>>
    BY <1>4 DEF Bridge
  <2>3. todo' \subseteq Buses
    BY <2>1, <2>2 DEF SurveyTypeOK
  <2>4. reg' = 1 /\ stage' = "bars"
    BY <1>4 DEF Bridge
  <2> QED
    BY <1>0, <2>2, <2>3, <2>4 DEF SurveyTypeOK
<1>5. CASE BarPorts \/ BarReserved \/ BarSingle \/ BarPair
  <2>1. \E n \in {1, 2} : Consume(n)
    BY <1>5 DEF BarPorts, BarReserved, BarSingle, BarPair
  <2> QED
    BY <1>0, <2>1 DEF Consume, SurveyTypeOK
<1>6. CASE BarHalfPair \/ BarsEnd
  BY <1>0, <1>6 DEF BarHalfPair, BarsEnd, SurveyTypeOK
<1> QED
  BY <1>1, <1>2, <1>3, <1>4, <1>5, <1>6 DEF SurveyNext, Bar

\* Where the walk stands: the second half of a register pair is never read as a
\* register of its own.
LEMMA StandStep ==
  ASSUME SurveyTypeOK, WalkStands, [SurveyNext]_surveyVars
  PROVE  WalkStands'
<1> USE SpaceAssumption
<1>1. CASE NextBus
  BY <1>1 DEF NextBus, WalkStands
<1>2. CASE Finish \/ UNCHANGED surveyVars
  BY <1>2 DEF Finish, WalkStands, surveyVars, walk
<1>3. CASE Absent \/ UnknownHeader \/ Rom
  BY <1>3, WhoMovesOn, AdvanceStands DEF MovesOn
<1>4. CASE Device \/ Bridge
  <2>1. place \in DOMAIN space /\ place[1] \in done /\ space[place].header \in {"device", "bridge"}
    BY <1>4 DEF Device, Bridge, WalkStands
  <2>2. 1 <= Len(space[place].bars) => space[place].bars[1].form # "upper"
    BY <2>1, HalvesFollow
  <2> QED
    BY <1>4, <2>1, <2>2 DEF Device, Bridge, WalkStands
<1>5. CASE BarPorts \/ BarReserved \/ BarSingle \/ BarPair
  <2>1. /\ place \in DOMAIN space /\ place[1] \in done
        /\ space[place].header \in {"device", "bridge"}
        /\ reg \in Nat \ {0} /\ reg <= Len(space[place].bars) /\ stage = "bars"
        /\ space[place].bars[reg].form # "upper"
        /\ UNCHANGED <<space, todo, done, place, stage>>
    BY <1>5 DEF BarPorts, BarReserved, BarSingle, BarPair, Consume, AtBar, Bars,
                WalkStands, SurveyTypeOK
  <2>2. /\ Len(space[place].bars) \in Nat
        /\ \A i \in Nat \ {0} : i + 1 <= Len(space[place].bars) =>
             (space[place].bars[i + 1].form = "upper" <=> space[place].bars[i].form = "m64")
    BY <2>1, SpaceIsSane, HalvesFollow
  <2>3. reg' <= Len(space[place].bars) => space[place].bars[reg'].form # "upper"
    <3>1. CASE BarPorts \/ BarReserved \/ BarSingle
      <4>1. reg' = reg + 1 /\ space[place].bars[reg].form # "m64"
        BY <3>1 DEF BarPorts, BarReserved, BarSingle, Consume, AtBar, Bars
      <4> QED
        BY <2>1, <2>2, <4>1
    <3>2. CASE BarPair
      <4>1. reg' = reg + 2 /\ space[place].bars[reg].form = "m64" /\ reg < Len(space[place].bars)
        BY <3>2 DEF BarPair, Consume, AtBar, Bars
      <4>2. space[place].bars[reg + 1].form = "upper"
        BY <2>1, <2>2, <4>1
      <4>3. reg + 1 \in Nat \ {0} /\ reg + 2 = (reg + 1) + 1
        BY <2>1
      <4> QED
        BY <2>1, <2>2, <4>1, <4>2, <4>3
    <3> QED
      BY <1>5, <3>1, <3>2
  <2> QED
    BY <2>1, <2>3 DEF WalkStands
<1>6. CASE BarHalfPair \/ BarsEnd
  BY <1>6 DEF BarHalfPair, BarsEnd, AtBar, WalkStands
<1> QED
  BY <1>1, <1>2, <1>3, <1>4, <1>5, <1>6 DEF SurveyNext, Bar

-------------------------------------------------------------------------------
\* What a step leaves behind that was not behind before is the function it has
\* just finished.
LEMMA NewlyExamined ==
  ASSUME SurveyTypeOK, WalkStands, [SurveyNext]_surveyVars, NEW p \in DOMAIN space, Examined(p)'
  PROVE  Examined(p) \/ (p = place /\ (UnknownHeader \/ Rom))
<1> USE SpaceAssumption
<1>1. CASE NextBus
  <2>1. p \in Places
    BY SpaceIsSane
  <2>2. PICK bus \in todo \ done : place' = <<bus, 0, 0>> /\ done' = done \cup {bus}
    BY <1>1 DEF NextBus
  <2>3. p[1] # bus
    BY <2>1, <2>2 DEF Examined
  <2> QED
    BY <1>1, <2>1, <2>2, <2>3 DEF Examined, NextBus, WalkStands
<1>2. CASE Absent \/ UnknownHeader \/ Rom
  <2>1. MovesOn
    BY <1>2, WhoMovesOn
  <2>2. Examined(p) \/ p = place
    BY <2>1, AdvancePasses DEF MovesOn
  <2> QED
    BY <1>2, <2>2 DEF Absent
<1>3. CASE UNCHANGED <<done, place>>
  BY <1>3 DEF Examined
<1>4. CASE Finish \/ Device \/ Bridge \/ Bar \/ UNCHANGED surveyVars
  <2>1. UNCHANGED <<done, place>>
    BY <1>4 DEF Finish, Device, Bridge, Bar, BarPorts, BarReserved, BarSingle, BarPair,
                BarHalfPair, BarsEnd, Consume, surveyVars, walk
  <2> QED
    BY <1>3, <2>1
<1> QED
  BY <1>1, <1>2, <1>4 DEF SurveyNext

\* The walk only reads.
LEMMA SpaceStays ==
  ASSUME [SurveyNext]_surveyVars
  PROVE  space' = space
  BY DEF SurveyNext, NextBus, Finish, Absent, UnknownHeader, Device, Bridge, Bar, BarPorts,
         BarReserved, BarSingle, BarPair, BarHalfPair, BarsEnd, Rom, Consume, surveyVars, walk

\* No bus is dropped from the list of buses to walk, and a bridge the walk has
\* passed has its own on it.
LEMMA QueueStep ==
  ASSUME SurveyTypeOK, WalkStands, Queued, [SurveyNext]_surveyVars
  PROVE  Queued'
<1>0. space' = space
  BY SpaceStays
<1>1. /\ todo \subseteq todo' /\ done' \subseteq todo'
  BY DEF SurveyNext, NextBus, Finish, Absent, UnknownHeader, Device, Bridge, Bar, BarPorts,
         BarReserved, BarSingle, BarPair, BarHalfPair, BarsEnd, Rom, Consume, surveyVars, walk, Queued
<1>2. ASSUME NEW p, Followed(p) PROVE Followed(p)'
  BY <1>0, <1>1, <1>2 DEF Followed
<1>3. ASSUME NEW p \in DOMAIN space', Examined(p)' PROVE Followed(p)'
  <2>1. CASE Examined(p)
    BY <1>0, <1>2, <2>1 DEF Queued
  <2>2. CASE p = place /\ UnknownHeader
    BY <1>0, <2>2 DEF UnknownHeader, Followed
  <2>3. CASE p = place /\ Rom
    BY <1>2, <2>3 DEF Rom, Queued
  <2> QED
    BY <1>0, <1>3, <2>1, <2>2, <2>3, NewlyExamined
<1>4. ASSUME stage' \in {"bars", "rom"} PROVE Followed(place)'
  <2>1. CASE Device \/ Bridge
    BY <1>0, <2>1 DEF Device, Bridge, Followed
  <2>2. CASE Bar \/ UNCHANGED surveyVars
    <3>1. stage \in {"bars", "rom"} /\ place' = place /\ todo' = todo
      BY <1>4, <2>2 DEF Bar, BarPorts, BarReserved, BarSingle, BarPair, BarHalfPair,
                        BarsEnd, AtBar, Consume, surveyVars, walk
    <3> QED
      BY <1>0, <3>1 DEF Queued, Followed
  <2>3. CASE Absent \/ UnknownHeader \/ Rom
    BY <1>4, <2>3, WhoMovesOn DEF MovesOn
  <2>4. CASE NextBus \/ Finish
    BY <1>4, <2>4 DEF NextBus, Finish
  <2> QED
    BY <2>1, <2>2, <2>3, <2>4 DEF SurveyNext
<1> QED
  BY <1>1, <1>3, <1>4 DEF Queued

\* A verdict that is clear after a step was clear before it, and the step judged
\* nothing it would have had to refuse.
LEMMA ClearStays ==
  ASSUME SurveyTypeOK, [SurveyNext]_surveyVars, verdict' = "clear"
  PROVE  verdict = "clear" /\ ~UnknownHeader /\ ~BarReserved /\ ~BarHalfPair
<1>0. verdict \in Verdicts
  BY DEF SurveyTypeOK
<1>1. ~UnknownHeader /\ ~BarReserved /\ ~BarHalfPair
  BY DEF UnknownHeader, BarReserved, BarHalfPair, Refused
<1>2. CASE Bridge
  <2>1. \A u, w, b : OneWindow(u, w, b) = "clear" => u = "clear"
    BY DEF OneWindow, ClaimWindow, Refused
  <2>2. \A u : Refused(u, "malformed") # "clear"
    BY DEF Refused
  <2> QED
    BY <1>1, <1>2, <2>1, <2>2 DEF Bridge, BridgeWindows
<1>3. ASSUME NEW base, Judge(base) PROVE verdict = "clear"
  BY <1>0, <1>3, JudgeTyped
<1>4. CASE UNCHANGED verdict
  BY <1>1, <1>4
<1>5. CASE BarSingle \/ BarPair \/ Rom
  BY <1>1, <1>3, <1>4, <1>5 DEF BarSingle, BarPair, Rom
<1>6. CASE NextBus \/ Finish \/ Absent \/ Device \/ BarPorts \/ BarsEnd \/ UNCHANGED surveyVars
  BY <1>4, <1>6 DEF NextBus, Finish, Absent, Device, BarPorts, BarsEnd, surveyVars
<1> QED
  BY <1>1, <1>2, <1>5, <1>6 DEF SurveyNext, Bar

\* Judging one register extends what is known of the registers before it.
LEMMA BarStep ==
  ASSUME SurveyTypeOK, WalkStands, BarPorts \/ BarSingle \/ BarPair, verdict' = "clear",
         BarsAside(place, reg)
  PROVE  BarsAside(place, reg')
<1>1. /\ place \in DOMAIN space /\ reg \in Nat \ {0} /\ reg <= Len(space[place].bars)
      /\ verdict \in Verdicts
  BY DEF WalkStands, SurveyTypeOK, BarPorts, BarSingle, BarPair, AtBar, Bars
<1>2. /\ Len(space[place].bars) \in Nat
      /\ \A i \in Nat \ {0} : i + 1 <= Len(space[place].bars) =>
           (space[place].bars[i + 1].form = "upper" <=> space[place].bars[i].form = "m64")
  BY <1>1, SpaceIsSane, HalvesFollow
<1>3. Below4G(space[place], reg) => OutOfRange(place, space[place].bars[reg])
  <2>1. CASE BarPorts
    BY <2>1 DEF BarPorts, AtBar, Bars, Below4G
  <2>2. ASSUME Judge(space[place].bars[reg].base) PROVE OutOfRange(place, space[place].bars[reg])
    BY <1>1, <2>2, JudgeTyped DEF OutOfRange
  <2>3. CASE BarSingle
    BY <2>2, <2>3 DEF BarSingle, Bars
  <2>4. CASE BarPair
    BY <2>2, <2>4 DEF BarPair, AtBar, Bars, Below4G
  <2> QED
    BY <2>1, <2>3, <2>4
<1>4. CASE reg' = reg + 1
  BY <1>1, <1>2, <1>3, <1>4 DEF BarsAside
<1>5. CASE reg' = reg + 2 /\ space[place].bars[reg].form = "m64" /\ reg < Len(space[place].bars)
  <2>1. ~Below4G(space[place], reg + 1)
    BY <1>1, <1>2, <1>5 DEF Below4G
  <2> QED
    BY <1>1, <1>2, <1>3, <1>5, <2>1 DEF BarsAside
<1> QED
  BY <1>4, <1>5 DEF BarPorts, BarSingle, BarPair, Consume, AtBar, Bars

\* A verdict still clear vouches for everything behind the walk.
LEMMA BehindStep ==
  ASSUME NoForeignWindowAtTheTop, SurveyInv, [SurveyNext]_surveyVars
  PROVE  Behind'
<1> SUFFICES ASSUME verdict' = "clear" PROVE Behind'
  BY DEF Behind
<1>0. /\ SurveyTypeOK /\ WalkStands /\ verdict = "clear" /\ verdict \in Verdicts
      /\ Fb + Want <= Top - 1 /\ space' = space
      /\ ~UnknownHeader /\ ~BarReserved /\ ~BarHalfPair
  BY ClearStays, SpaceStays DEF SurveyInv, RequestFits, Verdicts
<1>1. ASSUME NEW p \in DOMAIN space', Examined(p)' PROVE Harmless(p)'
  <2>0. p \in DOMAIN space
    BY <1>0
  <2>1. Harmless(p)
    <3>1. CASE Examined(p)
      BY <1>0, <2>0, <3>1 DEF SurveyInv, Behind
    <3>2. CASE p = place /\ Rom
      <4>1. WindowsFit(place) /\ BarsAside(place, Len(space[place].bars) + 1)
        BY <1>0, <3>2 DEF SurveyInv, Behind, Rom
      <4>2. space[place].header # "other"
        BY <1>0, <3>2 DEF WalkStands, Rom
      <4>3. RomAside(place)
        BY <1>0, <3>2, JudgeTyped DEF Rom, RomAside, OutOfRange
      <4> QED
        BY <3>2, <4>1, <4>2, <4>3 DEF Harmless
    <3> QED
      BY <1>0, <1>1, <2>0, <3>1, <3>2, NewlyExamined
  <2> QED
    BY <1>0, <2>1 DEF Harmless, BarsAside, RomAside, WindowsFit
<1>2. ASSUME stage' = "bars" PROVE (WindowsFit(place) /\ BarsAside(place, reg))'
  <2>1. CASE Device
    BY <1>0, <2>1 DEF Device, WindowsFit, BarsAside
  <2>2. CASE Bridge
    <3>1. WindowsFit(place)
      <4>1. place \in DOMAIN space /\ space[place].header = "bridge"
            /\ BridgeWindows(verdict, space[place], IsAncestor(space[place])) = "clear"
        BY <2>2 DEF Bridge
      <4> QED
        BY <1>0, <4>1, BridgeJudged
    <3>2. place' = place /\ reg' = 1
      BY <2>2 DEF Bridge
    <3> QED
      BY <1>0, <3>1, <3>2 DEF WindowsFit, BarsAside
  <2>3. CASE BarPorts \/ BarSingle \/ BarPair
    <3>1. stage = "bars" /\ place' = place
      BY <2>3 DEF BarPorts, BarSingle, BarPair, Consume, AtBar
    <3>2. WindowsFit(place) /\ BarsAside(place, reg)
      BY <1>0, <3>1 DEF SurveyInv, Behind
    <3>3. BarsAside(place, reg')
      BY <1>0, <2>3, <3>2, BarStep
    <3> QED
      BY <1>0, <3>1, <3>2, <3>3 DEF WindowsFit, BarsAside
  <2>4. CASE UNCHANGED surveyVars
    <3>1. stage = "bars" /\ place' = place /\ reg' = reg
      BY <1>2, <2>4 DEF surveyVars, walk
    <3> QED
      BY <1>0, <3>1 DEF SurveyInv, Behind, WindowsFit, BarsAside
  <2>5. CASE Absent \/ Rom
    BY <1>0, <1>2, <2>5, WhoMovesOn DEF MovesOn
  <2>6. CASE NextBus \/ Finish \/ BarsEnd
    BY <1>2, <2>6 DEF NextBus, Finish, BarsEnd
  <2> QED
    BY <1>0, <2>1, <2>2, <2>3, <2>4, <2>5, <2>6 DEF SurveyNext, Bar
<1>3. ASSUME stage' = "rom"
      PROVE  (WindowsFit(place) /\ BarsAside(place, Len(space[place].bars) + 1))'
  <2>1. CASE BarsEnd
    <3>1. stage = "bars" /\ place' = place /\ reg > Len(space[place].bars) /\ place \in DOMAIN space
      BY <1>0, <2>1 DEF BarsEnd, Bars, WalkStands
    <3>2. WindowsFit(place) /\ BarsAside(place, reg)
      BY <1>0, <3>1 DEF SurveyInv, Behind
    <3>3. Len(space[place].bars) \in Nat /\ reg \in Nat
      BY <1>0, <3>1, SpaceIsSane DEF SurveyTypeOK
    <3>4. BarsAside(place, Len(space[place].bars) + 1)
      BY <3>1, <3>2, <3>3 DEF BarsAside
    <3> QED
      BY <1>0, <3>1, <3>2, <3>4 DEF WindowsFit, BarsAside
  <2>2. CASE UNCHANGED surveyVars
    <3>1. stage = "rom" /\ place' = place
      BY <1>3, <2>2 DEF surveyVars, walk
    <3> QED
      BY <1>0, <3>1 DEF SurveyInv, Behind, WindowsFit, BarsAside
  <2>3. CASE Absent \/ Rom
    BY <1>0, <1>3, <2>3, WhoMovesOn DEF MovesOn
  <2>4. CASE NextBus \/ Finish \/ Device \/ Bridge
    BY <1>3, <2>4 DEF NextBus, Finish, Device, Bridge
  <2>5. CASE BarPorts \/ BarSingle \/ BarPair
    BY <1>3, <2>5 DEF BarPorts, BarSingle, BarPair, Consume, AtBar
  <2> QED
    BY <1>0, <2>1, <2>2, <2>3, <2>4, <2>5 DEF SurveyNext, Bar
<1> QED
  BY <1>1, <1>2, <1>3 DEF Behind

-------------------------------------------------------------------------------
\* The invariant holds before the first bus: nothing has been judged yet.
LEMMA InitStands ==
  ASSUME SurveyInit
  PROVE  SurveyInv
<1> USE SpaceAssumption
<1>1. verdict \in Verdicts /\ (verdict = "clear" => Want # 0 /\ Fb + Want <= Top - 1)
  BY DEF SurveyInit, Verdicts
<1>2. SurveyTypeOK
  BY <1>1 DEF SurveyInit, SurveyTypeOK
<1>3. WalkStands /\ RequestFits
  BY <1>1 DEF SurveyInit, WalkStands, RequestFits
<1>4. Queued /\ Behind
  BY DEF SurveyInit, Queued, Behind, Examined
<1> QED
  BY <1>2, <1>3, <1>4 DEF SurveyInv

\* Every step of the walk preserves the inductive invariant.
LEMMA SurveyInductive ==
  ASSUME NoForeignWindowAtTheTop, SurveyInv, [SurveyNext]_surveyVars
  PROVE  SurveyInv'
<1>1. SurveyTypeOK' /\ WalkStands'
  BY TypeStep, StandStep DEF SurveyInv
<1>2. Queued' /\ Behind'
  BY QueueStep, BehindStep DEF SurveyInv
<1>3. RequestFits'
  BY ClearStays DEF SurveyInv, RequestFits
<1> QED
  BY <1>1, <1>2, <1>3 DEF SurveyInv

\* At the end everything the buses lead to is behind the walk.
LEMMA EndSeesAll ==
  ASSUME SurveyTypeOK, WalkStands, Queued, stage = "end", NEW p \in DOMAIN space, Reachable(p[1])
  PROVE  Examined(p)
<1>1. done = todo /\ place[2] = MaxDevice + 1
  BY DEF WalkStands, Queued
<1>2. \A q \in DOMAIN space : q[1] \in done => Examined(q)
  <2> SUFFICES ASSUME NEW q \in DOMAIN space, q[1] \in done PROVE q[2] < place[2]
    BY DEF Examined
  <2>1. q \in Places
    BY SpaceIsSane
  <2> QED
    BY <1>1, <2>1, SpaceAssumption
<1>3. Follows(done)
  BY <1>1, <1>2 DEF Follows, Queued, Followed
<1>4. p[1] \in done
  BY <1>1, <1>3 DEF Reachable, Queued, SurveyTypeOK
<1> QED
  BY <1>2, <1>4

\* A function judged by its bases alone decodes nothing of the range: a base
\* below the range would have to reach across Fb, which nobody else decodes.
LEMMA AsideIsEnough ==
  ASSUME SurveyTypeOK, NEW p \in DOMAIN space, p # Ours, Harmless(p), NEW a \in Wanted
  PROVE  ~Decodes(space[p], a)
<1> USE SpaceAssumption
<1>1. a \in Nat /\ a >= Fb /\ a < Fb + Want
  BY DEF Wanted, InRange
<1>2. ~Decodes(space[p], Fb)
  BY SpaceIsSane
<1>3. ASSUME NEW d, d.base \in Addr, d.size \in Nat, OutOfRange(p, d), Covers(d, a)
      PROVE  Covers(d, Fb)
  BY <1>1, <1>3 DEF OutOfRange, Covers, InRange
<1>4. \A i \in 1 .. Len(space[p].bars) :
        Below4G(space[p], i) => ~Covers(space[p].bars[i], a)
  <2> SUFFICES ASSUME NEW i \in 1 .. Len(space[p].bars), Below4G(space[p], i),
                      Covers(space[p].bars[i], a)
               PROVE  FALSE
    OBVIOUS
  <2>1. space[p].bars[i].base \in Addr /\ space[p].bars[i].size \in Nat
    BY SpaceIsSane DEF BaseRegisters
  <2>2. OutOfRange(p, space[p].bars[i])
    <3>1. BarsAside(p, Len(space[p].bars) + 1)
      BY DEF Harmless
    <3>2. Len(space[p].bars) \in Nat
      BY SpaceIsSane DEF BaseRegisters
    <3>3. PICK n \in Nat : n = Len(space[p].bars)
      BY <3>2
    <3>4. i < n + 1
      BY <3>3
    <3> QED BY <3>1, <3>3, <3>4 DEF BarsAside
  <2>3. Covers(space[p].bars[i], Fb)
    BY <1>3, <2>1, <2>2
  <2> QED
    BY <1>2, <2>3 DEF Decodes
<1>5. ~(space[p].rom.enabled /\ Covers(space[p].rom, a))
  <2> SUFFICES ASSUME space[p].rom.enabled, Covers(space[p].rom, a) PROVE FALSE
    OBVIOUS
  <2>1. space[p].rom.base \in Addr /\ space[p].rom.size \in Nat
    BY SpaceIsSane DEF PciFunctions, Roms
  <2>2. OutOfRange(p, space[p].rom)
    BY DEF Harmless, RomAside
  <2> QED
    BY <1>2, <1>3, <2>1, <2>2 DEF Decodes
<1> QED
  BY <1>4, <1>5 DEF Decodes

\* At the end every function the buses lead to is behind the walk.
LEMMA InvariantSuffices ==
  ASSUME SurveyInv
  PROVE  ClearMeansOurs
<1> SUFFICES ASSUME stage = "end", verdict = "clear", NEW a \in Wanted
             PROVE  /\ \A p \in Others : space[p].header # "other" /\ ~Decodes(space[p], a)
                    /\ \A p \in Bridges : \A w \in WindowsOf(space[p]) :
                         IF IsAncestor(space[p]) THEN Forwards(w, Fb) => Forwards(w, a)
                                                 ELSE ~Forwards(w, a)
  BY DEF ClearMeansOurs, RangeIsOurs
<1>1. \A p \in DOMAIN space : Reachable(p[1]) => Harmless(p)
  BY EndSeesAll DEF SurveyInv, Behind
<1>2. \A p \in Others : space[p].header # "other" /\ ~Decodes(space[p], a)
  BY <1>1, AsideIsEnough DEF Others, Harmless, SurveyInv
<1>3. \A p \in Bridges : WindowsFit(p) /\ space[p].header = "bridge"
  BY <1>1 DEF Bridges, Harmless
<1> QED
  BY <1>2, <1>3 DEF WindowsFit, WindowFits, Wanted

\* Type correctness of the walk (the types of OSMGASurveyState), for any machine.
THEOREM TypeCorrect == SurveySpec => []SurveyTypeOK
<1>1. SurveyInit => SurveyTypeOK /\ WalkStands
  BY InitStands DEF SurveyInv
<1>2. SurveyTypeOK /\ WalkStands /\ [SurveyNext]_surveyVars => SurveyTypeOK' /\ WalkStands'
  BY TypeStep, StandStep
<1> QED
  BY <1>1, <1>2, PTL DEF SurveySpec

\* OSMGASurveyIsClear is right: on any machine whose configuration space is sane
\* and where no foreign bridge forwards up to four gigabytes, a clear verdict
\* means that nobody but the card decodes or forwards any part of the range.
THEOREM ClearIsOurs == ASSUME NoForeignWindowAtTheTop PROVE SurveySpec => []ClearMeansOurs
<1>1. SurveyInit => SurveyInv
  BY InitStands
<1>2. SurveyInv /\ [SurveyNext]_surveyVars => SurveyInv'
  BY NoForeignWindowAtTheTop, SurveyInductive
<1>3. SurveyInv => ClearMeansOurs
  BY InvariantSuffices
<1> QED
  BY <1>1, <1>2, <1>3, PTL DEF SurveySpec
-------------------------------------------------------------------------------
(* The other direction: a refusal names something that is there.  The walk never *)
(* leaves the buses that bridges lead to, and a reason is given only on sight.   *)

Led == \A bus \in todo : Reachable(bus)

\* RefusalIsJustified, said of a verdict at any time.
Justified(v) ==
    /\ v = "bar_inside" => \E p \in Others, a \in Wanted : Decodes(space[p], a)
    /\ v = "window_overlaps" =>
         \E p \in Bridges, a \in Wanted :
           ~IsAncestor(space[p]) /\ \E w \in WindowsOf(space[p]) : Forwards(w, a)
    /\ v = "parent_too_small" =>
         \E p \in Bridges, a \in Wanted : \E w \in WindowsOf(space[p]) :
           Forwards(w, Fb) /\ ~Forwards(w, a)
    /\ v = "unknown_header" =>
         \E p \in DOMAIN space : Reachable(p[1]) /\ space[p].header = "other"
    /\ v = "malformed" =>
         \/ Want = 0 \/ Fb + Want > Top - 1
         \/ \E p \in DOMAIN space : Reachable(p[1])
               /\ \/ space[p].header = "bridge" /\ space[p].prefetch.form = "unknown"
                  \/ \E i \in 1 .. Len(space[p].bars) :
                       \/ space[p].bars[i].form = "reserved"
                       \/ space[p].bars[i].form = "m64" /\ i = Len(space[p].bars)

RInv == SurveyTypeOK /\ WalkStands /\ Queued /\ RequestFits /\ Led /\ Justified(verdict)

\* A bus that a bridge on a reachable bus leads to is reachable.
LEMMA SecondaryReachable ==
  ASSUME NEW p \in DOMAIN space, Reachable(p[1]), space[p].header = "bridge",
         space[p].secondary # 0
  PROVE  Reachable(space[p].secondary)
BY DEF Reachable, Follows

\* A bridge queues its secondary bus and nothing else is ever queued.
LEMMA LedStep ==
  ASSUME SurveyTypeOK, WalkStands, Queued, Led, [SurveyNext]_surveyVars
  PROVE  Led'
<1>0. space' = space
  BY SpaceStays
<1>1. ASSUME todo' = todo PROVE Led'
  BY <1>0, <1>1 DEF Led, Reachable, Follows
<1>2. CASE Bridge
  <2>1. place \in DOMAIN space /\ space[place].header = "bridge" /\ Reachable(place[1])
    BY <1>2 DEF Bridge, WalkStands, Queued, Led
  <2>2. \A bus \in todo' : Reachable(bus)
    BY <1>2, <2>1, SecondaryReachable DEF Bridge, Led
  <2> QED
    BY <1>0, <2>2 DEF Led, Reachable, Follows
<1>3. CASE NextBus \/ Finish \/ Absent \/ UnknownHeader \/ Device \/ Bar \/ Rom \/ UNCHANGED surveyVars
  BY <1>1, <1>3 DEF NextBus, Finish, Absent, UnknownHeader, Device, Bar, BarPorts, BarReserved,
                    BarSingle, BarPair, BarHalfPair, BarsEnd, Rom, Consume, surveyVars, walk
<1> QED
  BY <1>2, <1>3 DEF SurveyNext

\* A base in the range is the base of something that decodes it.
LEMMA BaseInside ==
  ASSUME SurveyTypeOK, NEW p \in DOMAIN space, NEW d, d.base \in Addr, d.size \in Nat \ {0},
         d.base # 0, InRange(d.base)
  PROVE  d.base \in Wanted /\ Covers(d, d.base)
BY DEF Wanted, Covers

\* A base register or a ROM that is refused decodes an address of the range.
LEMMA BarReason ==
  ASSUME SurveyTypeOK, WalkStands, verdict = "clear", verdict' # "clear",
         BarSingle \/ BarPair \/ Rom
  PROVE  verdict' = "bar_inside" /\ place \in DOMAIN space /\ place # Ours
         /\ \E a \in Wanted : Decodes(space[place], a)
<1>1. place \in DOMAIN space /\ reg \in Nat \ {0}
  BY DEF WalkStands, SurveyTypeOK, BarSingle, BarPair, AtBar, Rom
<1>2. /\ space[place].bars \in Seq(BaseRegisters) /\ Len(space[place].bars) \in Nat
      /\ \A i \in 1 .. Len(space[place].bars) :
           space[place].bars[i] \in BaseRegisters /\ space[place].bars[i].size > 0
  BY <1>1, SpaceIsSane
<1>3. ASSUME NEW base, Judge(base)
      PROVE  verdict' = "bar_inside" /\ place # Ours /\ base # 0 /\ InRange(base)
  BY <1>3 DEF Judge, ClaimBase, Refused
<1>4. ASSUME reg <= Len(space[place].bars), Judge(space[place].bars[reg].base), Below4G(space[place], reg)
      PROVE  \E a \in Wanted : Decodes(space[place], a)
  <2> DEFINE d == space[place].bars[reg]
  <2>1. d \in BaseRegisters /\ d.size > 0
    BY <1>1, <1>2, <1>4
  <2>2. d.base \in Addr /\ d.size \in Nat \ {0} /\ d.base # 0 /\ InRange(d.base)
    BY <2>1, <1>3, <1>4 DEF BaseRegisters
  <2>3. d.base \in Wanted /\ Covers(d, d.base)
    BY <1>1, <2>2, BaseInside
  <2> QED
    BY <1>1, <1>2, <1>4, <2>3 DEF Decodes
<1>5. CASE BarSingle
  <2>1. /\ stage = "bars" /\ reg <= Len(space[place].bars) /\ Judge(space[place].bars[reg].base)
        /\ space[place].bars[reg].form \in {"m32", "upper"}
    BY <1>5 DEF BarSingle, AtBar, Bars
  <2>2. space[place].bars[reg].form = "m32"
    BY <2>1 DEF WalkStands
  <2> QED
    BY <1>1, <1>3, <1>4, <2>1, <2>2 DEF Below4G
<1>6. CASE BarPair
  <2>1. /\ reg < Len(space[place].bars) /\ space[place].bars[reg].form = "m64"
        /\ space[place].bars[reg + 1].base = 0 /\ Judge(space[place].bars[reg].base)
    BY <1>6 DEF BarPair, AtBar, Bars
  <2>2. reg <= Len(space[place].bars)
    BY <1>1, <1>2, <2>1
  <2> QED
    BY <1>1, <1>3, <1>4, <2>1, <2>2 DEF Below4G
<1>7. CASE Rom
  <2> DEFINE d == space[place].rom
  <2>1. d.enabled /\ Judge(d.base)
    BY <1>7 DEF Rom
  <2>2. d.base \in Addr /\ d.size \in Nat \ {0}
    <3>1. d \in Roms /\ d.size > 0
      BY <1>1, SpaceIsSane DEF PciFunctions
    <3> QED
      BY <3>1 DEF Roms
  <2>3. d.base # 0 /\ InRange(d.base) /\ verdict' = "bar_inside" /\ place # Ours
    BY <1>3, <2>1
  <2>4. d.base \in Wanted /\ Covers(d, d.base)
    BY <1>1, <2>2, <2>3, BaseInside
  <2> QED
    BY <1>1, <2>1, <2>3, <2>4 DEF Decodes
<1> QED
  BY <1>5, <1>6, <1>7

\* A window that is refused forwards an address it should not, or stops inside the
\* range; the limit that would end at four gigabytes is never refused.
LEMMA WindowReason ==
  ASSUME NEW w \in Windows, NEW isAncestor \in BOOLEAN, Want # 0, Fb + Want <= Top - 1,
         OneWindow("clear", w, isAncestor) # "clear"
  PROVE  \/ /\ ~isAncestor /\ OneWindow("clear", w, isAncestor) = "window_overlaps"
            /\ \E a \in Wanted : Forwards(w, a)
         \/ /\ isAncestor /\ OneWindow("clear", w, isAncestor) = "parent_too_small"
            /\ \E a \in Wanted : Forwards(w, Fb) /\ ~Forwards(w, a)
<1> USE SpaceAssumption
<1>0. w.base \in Addr /\ w.limit \in Addr /\ Fb \in Nat /\ Want \in Nat \ {0} /\ Top \in Nat
  BY DEF Windows
<1>1. w.base # 0 /\ w.base <= w.limit /\ ClaimWindow("clear", w.base, EndOf(w), isAncestor) # "clear"
  BY DEF OneWindow
<1>2. w.base < EndOf(w)
  BY <1>0, <1>1 DEF ClaimWindow, EndOf
<1>3. EndOf(w) = w.limit + 1 /\ w.limit < Top - 1
  BY <1>0, <1>2 DEF EndOf
<1>4. CASE isAncestor
  <2>1. w.base <= Fb /\ w.limit + 1 > Fb /\ w.limit + 1 < Fb + Want
        /\ OneWindow("clear", w, isAncestor) = "parent_too_small"
    BY <1>0, <1>1, <1>2, <1>3, <1>4 DEF OneWindow, ClaimWindow, CarriesUs, Refused
  <2>2. w.limit + 1 \in Wanted
    BY <1>0, <1>3, <2>1 DEF Wanted, InRange
  <2>3. Forwards(w, Fb) /\ ~Forwards(w, w.limit + 1)
    BY <1>0, <1>1, <2>1 DEF Forwards
  <2> QED
    BY <1>4, <2>1, <2>2, <2>3
<1>5. CASE ~isAncestor
  <2>1. w.limit + 1 > Fb /\ w.base < Fb + Want
        /\ OneWindow("clear", w, isAncestor) = "window_overlaps"
    BY <1>0, <1>1, <1>2, <1>3, <1>5 DEF OneWindow, ClaimWindow, Refused
  <2>2. CASE w.base >= Fb
    <3>1. w.base \in Wanted /\ Forwards(w, w.base)
      BY <1>0, <1>1, <2>1, <2>2 DEF Wanted, InRange, Forwards
    <3> QED
      BY <1>5, <2>1, <3>1
  <2>3. CASE w.base < Fb
    <3>1. Fb \in Wanted /\ Forwards(w, Fb)
      BY <1>0, <1>1, <2>1, <2>3 DEF Wanted, InRange, Forwards
    <3> QED
      BY <1>5, <2>1, <3>1
  <2> QED
    BY <1>0, <2>2, <2>3
<1> QED
  BY <1>4, <1>5
\* Once refused, a verdict stays.
LEMMA RefusalStays ==
  ASSUME NEW v, v # "clear", NEW w, NEW isAncestor, NEW base, NEW why
  PROVE  Refused(v, why) = v /\ OneWindow(v, w, isAncestor) = v /\ ClaimBase(v, base) = v
BY DEF Refused, OneWindow, ClaimWindow, ClaimBase

\* A bridge is refused for one of its windows, the prefetchable one only below four
\* gigabytes, or for a window it does not know.
LEMMA BridgeReason ==
  ASSUME SurveyTypeOK, NEW p \in DOMAIN space, Reachable(p[1]), space[p].header = "bridge",
         Want # 0, Fb + Want <= Top - 1,
         NEW v, v = BridgeWindows("clear", space[p], IsAncestor(space[p])), v # "clear"
  PROVE  Justified(v)
<1> DEFINE f == space[p]
           anc == IsAncestor(f)
           first == OneWindow("clear", f.memory, anc)
<1>1. f.memory \in Windows /\ f.prefetch \in Windows /\ p \in Bridges /\ anc \in BOOLEAN
  BY SpaceIsSane DEF PciFunctions, Bridges, IsAncestor
<1>2. ASSUME NEW w \in WindowsOf(f), w \in Windows, v = OneWindow("clear", w, anc)
      PROVE  Justified(v)
  <2>1. \/ /\ ~anc /\ v = "window_overlaps"
           /\ \E a \in Wanted : Forwards(w, a)
        \/ /\ anc /\ v = "parent_too_small"
           /\ \E a \in Wanted : Forwards(w, Fb) /\ ~Forwards(w, a)
    <3> HIDE DEF anc
    <3> QED
      BY <1>1, <1>2, WindowReason
  <2>2. CASE ~anc /\ v = "window_overlaps" /\ \E a \in Wanted : Forwards(w, a)
    BY <1>1, <1>2, <2>2 DEF Justified
  <2>3. CASE v = "parent_too_small" /\ \E a \in Wanted : Forwards(w, Fb) /\ ~Forwards(w, a)
    BY <1>1, <1>2, <2>3 DEF Justified
  <2> QED
    BY <2>1, <2>2, <2>3
<1>3. f.memory \in WindowsOf(f)
  BY DEF WindowsOf
<1>4. CASE first # "clear"
  <2>1. v = first
    BY <1>4, RefusalStays DEF BridgeWindows
  <2> QED
    BY <1>1, <1>2, <1>3, <2>1
<1>5. CASE first = "clear"
  <2>1. CASE f.prefetch.form = "wide" /\ f.prefetch.upper
    <3>1. v = first
      BY <2>1 DEF BridgeWindows
    <3> QED
      BY <1>5, <3>1
  <2>2. CASE f.prefetch.form = "unknown"
    <3>1. v = "malformed"
      BY <1>5, <2>2 DEF BridgeWindows, Refused
    <3> QED
      BY <2>2, <3>1 DEF Justified
  <2>3. CASE ~(f.prefetch.form = "wide" /\ f.prefetch.upper) /\ f.prefetch.form # "unknown"
    <3>1. v = OneWindow("clear", f.prefetch, anc) /\ f.prefetch \in WindowsOf(f)
      BY <1>5, <2>3 DEF BridgeWindows, WindowsOf
    <3> QED
      BY <1>1, <1>2, <3>1
  <2> QED
    BY <2>1, <2>2, <2>3
<1> QED
  BY <1>4, <1>5

\* The reason given by a step is there to be seen.
LEMMA ReasonStep ==
  ASSUME RInv, [SurveyNext]_surveyVars
  PROVE  Justified(verdict)'
<1>0. space' = space /\ SurveyTypeOK /\ WalkStands /\ Justified(verdict) /\ verdict \in Verdicts
  BY SpaceStays DEF RInv, SurveyTypeOK
<1>1. ASSUME Justified(verdict') PROVE Justified(verdict)'
  BY <1>0, <1>1 DEF Justified, Others, Bridges, Reachable, Follows
<1>2. CASE verdict # "clear"
  <2>1. \A why, w, anc, base :
          /\ Refused(verdict, why) = verdict /\ OneWindow(verdict, w, anc) = verdict
          /\ ClaimBase(verdict, base) = verdict
    BY <1>2, RefusalStays
  <2>2. \A f, anc : BridgeWindows(verdict, f, anc) = verdict
    BY <2>1 DEF BridgeWindows
  <2>3. verdict' = verdict
    BY <2>1, <2>2 DEF SurveyNext, NextBus, Finish, Absent, UnknownHeader, Device, Bridge, Bar, BarPorts,
         BarReserved, BarSingle, BarPair, BarHalfPair, BarsEnd, Rom, Judge, surveyVars
  <2> QED
    BY <1>0, <1>1, <2>3
<1>3. CASE verdict' = "clear"
  <2>1. Justified(verdict')
    BY <1>3 DEF Justified
  <2> QED
    BY <1>1, <2>1
<1>4. CASE verdict = "clear" /\ verdict' # "clear"
  <2>1. place \in DOMAIN space => Reachable(place[1]) \/ stage \in {"bus", "end"}
    BY DEF RInv, WalkStands, Queued, Led, SurveyTypeOK
  <2>2. Want # 0 /\ Fb + Want <= Top - 1
    BY <1>4 DEF RInv, RequestFits
  <2>3. CASE Bridge
    <3>1. /\ place \in DOMAIN space /\ Reachable(place[1]) /\ space[place].header = "bridge"
          /\ verdict' = BridgeWindows("clear", space[place], IsAncestor(space[place]))
      BY <1>4, <2>1, <2>3 DEF Bridge
    <3>2. Justified(verdict')
      BY <1>0, <1>4, <2>2, <3>1, BridgeReason
    <3> QED
      BY <1>1, <3>2
  <2>4. CASE BarSingle \/ BarPair \/ Rom
    <3>1. /\ verdict' = "bar_inside" /\ place \in DOMAIN space /\ place # Ours
          /\ \E a \in Wanted : Decodes(space[place], a)
      BY <1>0, <1>4, <2>4, BarReason
    <3>2. place \in Others
      BY <2>1, <2>4, <3>1 DEF Others, BarSingle, BarPair, Rom, AtBar
    <3>3. Justified(verdict')
      BY <3>1, <3>2 DEF Justified
    <3> QED
      BY <1>1, <3>3
  <2>5. CASE UnknownHeader
    <3>1. place \in DOMAIN space /\ Reachable(place[1]) /\ space[place].header = "other"
          /\ verdict' = "unknown_header"
      BY <1>4, <2>1, <2>5 DEF UnknownHeader, Refused
    <3> QED
      BY <1>1, <3>1 DEF Justified
  <2>6. CASE BarReserved \/ BarHalfPair
    <3>1. place \in DOMAIN space /\ Reachable(place[1]) /\ verdict' = "malformed" /\ reg \in Nat \ {0}
      BY <1>0, <1>4, <2>1, <2>6 DEF BarReserved, BarHalfPair, AtBar, Refused, WalkStands, SurveyTypeOK
    <3>2. reg \in 1 .. Len(space[place].bars)
          /\ \/ space[place].bars[reg].form = "reserved"
             \/ space[place].bars[reg].form = "m64" /\ reg = Len(space[place].bars)
      <4>1. reg <= Len(space[place].bars)
            /\ \/ space[place].bars[reg].form = "reserved"
               \/ space[place].bars[reg].form = "m64" /\ reg = Len(space[place].bars)
        BY <2>6 DEF BarReserved, BarHalfPair, AtBar, Bars
      <4>2. Len(space[place].bars) \in Nat
        BY <1>0, <3>1, SpaceIsSane
      <4> QED
        BY <3>1, <4>1, <4>2
    <3>3. Justified(verdict')
      BY <3>1, <3>2 DEF Justified
    <3> QED
      BY <1>1, <3>3
  <2>7. CASE NextBus \/ Finish \/ Absent \/ Device \/ BarPorts \/ BarsEnd \/ UNCHANGED surveyVars
    BY <1>4, <2>7 DEF NextBus, Finish, Absent, Device, BarPorts, BarsEnd, surveyVars
  <2> QED
    BY <2>3, <2>4, <2>5, <2>6, <2>7 DEF SurveyNext, Bar
<1> QED
  BY <1>2, <1>3, <1>4

\* The walk begins on bus 0, which is reached, with the request judged.
LEMMA RInvInit ==
  ASSUME SurveyInit
  PROVE  RInv
<1>1. SurveyInv
  BY InitStands
<1>2. Led
  BY DEF SurveyInit, Led, Reachable
<1>3. Justified(verdict)
  <2>1. verdict = "clear" \/ (verdict = "malformed" /\ (Want = 0 \/ Fb + Want > Top - 1))
    BY DEF SurveyInit
  <2> QED
    BY <2>1 DEF Justified
<1> QED
  BY <1>1, <1>2, <1>3 DEF SurveyInv, RInv

\* A refusal names something that is there: a base inside the range that decodes one of
\* its addresses, a window over it, a bridge above the card that forwards only part of
\* it, a header or a register the survey does not know.  This needs no assumption on
\* windows that end at four gigabytes: those are never the reason.
THEOREM RefusalsAreJustified == SurveySpec => []RefusalIsJustified
<1>1. SurveyInit => RInv
  BY RInvInit
<1>2. RInv /\ [SurveyNext]_surveyVars => RInv'
  <2> SUFFICES ASSUME RInv, [SurveyNext]_surveyVars PROVE RInv'
    OBVIOUS
  <2>1. SurveyTypeOK' /\ WalkStands' /\ Queued' /\ Led'
    BY TypeStep, StandStep, QueueStep, LedStep DEF RInv
  <2>2. RequestFits'
    BY ClearStays DEF RInv, RequestFits
  <2> QED
    BY <2>1, <2>2, ReasonStep DEF RInv
<1>3. RInv => RefusalIsJustified
  <2> SUFFICES ASSUME RInv, stage = "end" PROVE RefusalIsJustified
    BY DEF RefusalIsJustified
  <2>1. verdict \in Verdicts /\ Justified(verdict)
    BY DEF RInv, SurveyTypeOK
  <2>2. CASE verdict = "clear"             BY <2>2 DEF RefusalIsJustified
  <2>3. CASE verdict = "bar_inside"        BY <2>1, <2>3 DEF RefusalIsJustified, Justified
  <2>4. CASE verdict = "window_overlaps"   BY <2>1, <2>4 DEF RefusalIsJustified, Justified
  <2>5. CASE verdict = "parent_too_small"  BY <2>1, <2>5 DEF RefusalIsJustified, Justified
  <2>6. CASE verdict = "unknown_header"    BY <2>1, <2>6 DEF RefusalIsJustified, Justified
  <2>7. CASE verdict = "malformed"         BY <2>1, <2>7 DEF RefusalIsJustified, Justified
  <2> QED
    BY <2>1, <2>2, <2>3, <2>4, <2>5, <2>6, <2>7 DEF Verdicts
<1> QED
  BY <1>1, <1>2, <1>3, PTL DEF SurveySpec
-------------------------------------------------------------------------------
(* Both together: what lies beyond sixteen megabytes is reached only by a boot    *)
(* whose survey was clear.                                                        *)

\* How far the driver goes: never beyond the ceiling, which is within the limit.
Reach ==
    /\ limit \in {Small, Conservative, Gated} /\ ceiling \in Nat /\ ceiling <= limit
    /\ mode \in Modes
    /\ {to, reached, windowEnd} \subseteq Nat
    /\ at = "boot" => reached = 0 /\ windowEnd = 0
    /\ at \in ProofSteps => to <= ceiling
    /\ reached <= ceiling /\ windowEnd <= limit

LEMMA ReachInit == ASSUME Init PROVE Reach
<1> USE SizeAssumption
<1>1. limit \in {Small, Conservative, Gated}
  BY DEF Init, AttemptLimit, VramDeclaration
<1>2. ceiling \in Nat /\ ceiling <= limit
  <2>1. limit \in Nat
    BY <1>1
  <2>2. ceiling = IF limit <= Margin THEN 0 ELSE limit - Margin
    BY DEF Init, WindowCeiling
  <2> QED
    BY <2>1, <2>2
<1> QED
  BY <1>1, <1>2 DEF Init, Reach, ProofSteps

LEMMA ReachStep == ASSUME Reach, [Next]_vars PROVE Reach'
<1> USE SizeAssumption
<1>1. limit \in Nat /\ ceiling \in Nat /\ mode.start \in Nat
  BY ModeAssumption DEF Reach
<1>2. CASE UNCHANGED vars
  BY <1>2 DEF vars, settled, window, proof, Reach
<1>3. CASE Register
  BY <1>1, <1>3 DEF Register, MayRegister, Unused, settled, proof, Reach, ProofSteps
<1>4. ASSUME NEW c \in Clients, Client(c) PROVE Reach'
  <2>1. UNCHANGED <<settled, window, at, proof>>
    BY <1>4 DEF Client, DevOpen, DevClose, MapBatch, DevMmap, Draw, ClientExits, Aside
  <2> QED
    BY <2>1 DEF settled, window, proof, Reach
<1>5. CASE ModeThread
  <2>1. UNCHANGED settled
    BY <1>5 DEF ModeThread, StartModeSet, ProbeSave, ProbeWrite, ProbeRead, ProbeRestore,
                ProbePass, Plan, StageTwo, PlaceWitnesses, WriteTwoPages, FirstLook,
                WriteTheRest, SecondLook, Decide, CleanPiece, PublishEnd, PublishState,
                ClearVisible, Unused
  <2>2. CASE Plan
    BY <1>1, <2>1, <2>2 DEF Plan, Prove, NothingToProve, StageOneTo, Floor, Lesser, window,
                            settled, Reach, ProofSteps
  <2>3. CASE StageTwo
    BY <1>1, <2>1, <2>3 DEF StageTwo, Prove, NothingToProve, window, settled, Reach, ProofSteps
  <2>4. CASE SecondLook
    BY <1>1, <2>1, <2>4 DEF SecondLook, StageFails, window, settled, Reach, ProofSteps
  <2>5. CASE PublishEnd
    BY <1>1, <2>1, <2>5 DEF PublishEnd, proof, settled, Reach, ProofSteps
  <2>6. CASE PlaceWitnesses \/ WriteTwoPages \/ FirstLook \/ WriteTheRest
    <3>1. UNCHANGED <<window, to, reached>> /\ at \in ProofSteps /\ at' # "boot"
      BY <2>6 DEF PlaceWitnesses, WriteTwoPages, FirstLook, WriteTheRest, StageFails, proof,
                  ProofSteps
    <3> QED
      BY <2>1, <3>1 DEF window, settled, Reach
  <2>7. CASE \/ StartModeSet \/ ProbeSave \/ ProbeWrite \/ ProbeRead \/ ProbeRestore
             \/ Decide \/ CleanPiece \/ PublishState \/ ClearVisible
    <3>1. UNCHANGED <<to, reached, windowEnd>> /\ at' \notin ProofSteps /\ at' # "boot"
      BY <2>7 DEF StartModeSet, ProbeSave, ProbeWrite, ProbeRead, ProbeRestore, ProbePass, Decide,
                  CleanPiece, PublishState, ClearVisible, window, proof, ProofSteps
    <3> QED
      BY <2>1, <3>1 DEF settled, Reach
  <2> QED
    BY <1>5, <2>2, <2>3, <2>4, <2>5, <2>6, <2>7 DEF ModeThread
<1> QED
  BY <1>2, <1>3, <1>4, <1>5 DEF Next

\* A boot that has come past its registration was allowed its limit by its survey,
\* which is over.
Allowed == at # "boot" => GateDecides

LEMMA AllowedStep == ASSUME Allowed, [Survey \/ Drive]_apertureVars PROVE Allowed'
<1>1. CASE UNCHANGED apertureVars
  BY <1>1 DEF apertureVars, vars, settled, surveyVars, walk, Allowed, GateDecides, SurveyGate, Aligned
<1>2. CASE Survey
  <2>1. stage # "end"
    BY <1>2 DEF Survey, SurveyNext, NextBus, Finish, Absent, UnknownHeader, Device, Bridge, Bar,
                BarPorts, BarReserved, BarSingle, BarPair, BarHalfPair, BarsEnd, AtBar, Rom
  <2>2. at' = at
    BY <1>2 DEF Survey, vars
  <2> QED
    BY <2>1, <2>2 DEF Allowed, GateDecides
<1>3. CASE Drive
  <2>1. UNCHANGED settled
    BY <1>3 DEF Drive, Next, Register, ModeThread, StartModeSet, ProbeSave, ProbeWrite, ProbeRead,
                ProbeRestore, ProbePass, Plan, StageTwo, PlaceWitnesses, WriteTwoPages, FirstLook,
                WriteTheRest, SecondLook, Decide, CleanPiece, PublishEnd, PublishState, ClearVisible,
                Unused, Client, DevOpen, DevClose, MapBatch, DevMmap, Draw, ClientExits, Aside
  <2> QED
    BY <1>3, <2>1 DEF Drive, settled, surveyVars, walk, Allowed, GateDecides, SurveyGate, Aligned
<1> QED
  BY <1>1, <1>2, <1>3

LEMMA BeyondWasAllowed ==
  ASSUME Reach, Allowed, ClearMeansOurs
  PROVE  NeighboursAreSpared
<1> SUFFICES ASSUME Beyond PROVE RangeIsOurs
  BY DEF NeighboursAreSpared
<1> USE SizeAssumption
<1>1. limit \in Nat /\ limit > Conservative
  BY DEF Beyond, Reach
<1>2. at # "boot"
  BY DEF Beyond, Reach, ProofSteps
<1>3. stage = "end" /\ SurveyGate
  <2>1. stage = "end"
    BY <1>2 DEF Allowed, GateDecides
  <2>2. PICK asked \in Declarations : limit = AttemptLimit(VramDeclaration(asked), SurveyGate)
    BY <1>2 DEF Allowed, GateDecides
  <2>3. VramDeclaration(asked) \in Nat
    BY DEF VramDeclaration
  <2> QED
    BY <1>1, <2>1, <2>2, <2>3 DEF AttemptLimit
<1> QED
  BY <1>3 DEF ClearMeansOurs, SurveyGate

\* No region is proved, no page cleaned and no window offered beyond the sixteen
\* megabytes of every card, unless nobody else on any bus decodes or forwards any
\* address of the range: the survey's verdict is asked for before and holds on.
THEOREM BeyondIsOursAlways ==
  ASSUME NoForeignWindowAtTheTop
  PROVE  ApertureSpec => []NeighboursAreSpared
<1>1. ApertureInit => Reach /\ Allowed
  BY ReachInit DEF ApertureInit, Init, Allowed
<1>2. Reach /\ Allowed /\ [Survey \/ Drive]_apertureVars => Reach' /\ Allowed'
  <2> SUFFICES ASSUME Reach, Allowed, [Survey \/ Drive]_apertureVars PROVE Reach' /\ Allowed'
    OBVIOUS
  <2>1. [Next]_vars
    BY DEF Survey, Drive, apertureVars
  <2> QED
    BY <2>1, ReachStep, AllowedStep
<1>3. ApertureSpec => SurveySpec
  <2>1. ApertureInit => SurveyInit
    BY DEF ApertureInit
  <2>2. [Survey \/ Drive]_apertureVars => [SurveyNext]_surveyVars
    BY DEF Survey, Drive, apertureVars
  <2> QED
    BY <2>1, <2>2, PTL DEF ApertureSpec, SurveySpec
<1>4. SurveySpec => []ClearMeansOurs
  BY NoForeignWindowAtTheTop, ClearIsOurs
<1>5. Reach /\ Allowed /\ ClearMeansOurs => NeighboursAreSpared
  BY BeyondWasAllowed
<1> QED
  BY <1>1, <1>2, <1>3, <1>4, <1>5, PTL DEF ApertureSpec
================================================================================
