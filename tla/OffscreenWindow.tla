---------------------------- MODULE OffscreenWindow ----------------------------
(* The offscreen window: which part of the card's memory a client may map,   *)
(* how the driver finds out how much of it is there, and when it lets go.    *)
(*                                                                           *)
(* The window is registered empty.  The first mode set samples the aperture  *)
(* (osmgaProbeVramExtent), proves it in one or two stages                    *)
(* (osmgaProveVramTo), cleans up after a stage that failed, and only then    *)
(* publishes the end and the state; osmgaDevOpen refuses until then.  The    *)
(* mode thread and the clients interleave at every step.                     *)
(*                                                                           *)
(* Memory is counted in pages and holds one value per page, <<what, where>>: *)
(* a probe's, witness's or proof's signature names the offset it was written *)
(* at.  A board smaller than its aperture answers beyond its end either with *)
(* the same memory again or not at all.                                      *)
EXTENDS Integers, FiniteSets, FiniteSetsExt, Functions

CONSTANTS
    Clients,
    Boards,          \* [size, wraps]: pages fitted, and what lies beyond them
    Declarations,    \* what the operator may have declared, in pages
    Modes,           \* [visible, start]: end of the picture, page after the guard rows
    Offsets,         \* page offsets clients ask for
    Small, Conservative, Gated,   \* 8, 16 and 32 megabytes
    Proven,          \* OSMGA_S1_VRAM_PROVEN
    StageOne,        \* OSMGA_S1_VRAM_CEILING
    Margin,          \* OSMGA_WIN_TOP_MARGIN
    Stride,          \* pages from one witness to the next
    Meg,             \* pages in a megabyte
    Chunk,           \* OSMGA_ZERO_CHUNK
    MayFail,         \* the mappings that may fail, by the routine that asks
    MaxMapFailures,  \* bound on the passes in which a mapping fails
    MaxModeSets      \* bound on the mode sets

ASSUME SizeAssumption ==
    /\ {Small, Conservative, Gated, Proven, StageOne, Margin} \subseteq Nat
    /\ {Stride, Meg, Chunk} \subseteq Nat \ {0}
    /\ 0 < Proven /\ Proven <= StageOne
    /\ Declarations \subseteq Nat
    /\ MaxMapFailures \in Nat /\ MaxModeSets \in Nat
\* Every card this driver drives has the seven megabytes a 1600x1200 picture needs.
ASSUME BoardAssumption ==
    \A b \in Boards : b \in [size : Nat, wraps : BOOLEAN] /\ Proven <= b.size
ASSUME ModeAssumption ==
    \A m \in Modes : m \in [visible : Nat, start : Nat] /\ m.visible < m.start
ASSUME OffsetAssumption == Offsets \subseteq Nat

VARIABLES
    board, mode, limit, ceiling,     \* settled before the first mode set
    registered, ring,
    windowStart, windowEnd, windowState,
    mem,                             \* what the card's memory holds
    at,                              \* where programLinearMode is
    from, to, reached, anyFailed,    \* its proof
    kept,                            \* words put aside by the probe or the witnesses
    cleaned,
    fds, mapped,                     \* open descriptors; pages each client has mapped
    modeSets, failures

settled == <<board, mode, limit, ceiling, ring>>
window  == <<registered, windowStart, windowEnd, windowState>>
proof   == <<from, to, reached, anyFailed, cleaned>>
users   == <<fds, mapped>>
vars    == <<settled, window, mem, at, proof, kept, users, modeSets, failures>>

Lesser(a, b) == IF a < b THEN a ELSE b
None == [a \in {} |-> <<"boot", 0>>]
Batch == -1            \* the command batch, mapped by its own offset
Nowhere == -1

Kinds == {"boot", "probe", "witness", "page", "zero", "client", "ones"}
Leavings == {"probe", "witness", "page"}
ProbeSteps == {"probe_save", "probe_write", "probe_read", "probe_restore"}
ProofSteps == {"witness", "two_pages", "first_look", "rest", "second_look"}
Steps == {"boot", "off", "plan", "stage_two", "decide", "clean", "publish_end", "publish_state",
          "clear"} \cup ProbeSteps \cup ProofSteps

TypeOK ==
    /\ board \in Boards /\ mode \in Modes
    /\ limit \in {Small, Conservative, Gated} /\ ceiling \in Nat
    /\ registered \in BOOLEAN /\ ring \in BOOLEAN
    /\ windowStart \in Nat /\ windowEnd \in Nat
    /\ windowState \in {"unopened", "open", "failed"}
    /\ DOMAIN mem = 0 .. board.size - 1
    /\ \A c \in DOMAIN mem : mem[c][1] \in Kinds
    /\ at \in Steps
    /\ from \in Nat /\ to \in Nat /\ reached \in Nat /\ cleaned \in Nat
    /\ anyFailed \in BOOLEAN
    /\ \A a \in DOMAIN kept : a \in Nat /\ kept[a][1] \in Kinds
    /\ fds \subseteq Clients
    /\ mapped \in [Clients -> SUBSET (Nat \cup {Batch})]
    /\ modeSets \in Nat /\ failures \in Nat

-------------------------------------------------------------------------------
(* The aperture. *)
Decode(a) ==
    IF a < board.size THEN a ELSE IF board.wraps THEN a % board.size ELSE Nowhere

Read(m, a) == IF Decode(a) = Nowhere THEN <<"ones", 0>> ELSE m[Decode(a)]

\* The memory after values were written at DOMAIN values, lowest offset first.
Store(m, values) ==
    [c \in DOMAIN m |->
        LET hits == {a \in DOMAIN values : Decode(a) = c}
        IN  IF hits = {} THEN m[c] ELSE values[Max(hits)]]

Marked(what, addresses) == [a \in addresses |-> <<what, a>>]
Zeros(addresses) == [a \in addresses |-> <<"zero", 0>>]

\* The mappings of S that fail in one pass of a routine: none or one.
Failing(routine, S) ==
    {{}} \cup IF routine \in MayFail /\ failures < MaxMapFailures THEN {{x} : x \in S} ELSE {}
Count(F) == failures' = failures + Cardinality(F)

-------------------------------------------------------------------------------
(* Boot: what may be attempted, and the registration. *)
VramDeclaration(asked) ==
    IF asked \in {Small, Conservative, Gated} THEN asked ELSE Conservative

AttemptLimit(declared, gateAllows) ==
    IF declared <= Conservative THEN declared
    ELSE IF gateAllows /\ declared >= Gated THEN Gated ELSE Conservative

WindowCeiling(declared) == IF declared <= Margin THEN 0 ELSE declared - Margin

MayRegister(start, ceilingEnd) == ceilingEnd <= limit /\ start < ceilingEnd

Init ==
    /\ board \in Boards /\ mode \in Modes /\ ring \in BOOLEAN
    /\ \E asked \in Declarations, gateAllows \in BOOLEAN :
          limit = AttemptLimit(VramDeclaration(asked), gateAllows)
    /\ ceiling = WindowCeiling(limit)
    /\ registered = FALSE
    /\ windowStart = 0 /\ windowEnd = 0 /\ windowState = "unopened"
    /\ mem = [c \in 0 .. board.size - 1 |-> <<"boot", c>>]
    /\ at = "boot"
    /\ from = 0 /\ to = 0 /\ reached = 0 /\ anyFailed = FALSE /\ cleaned = 0
    /\ kept = None
    /\ fds = {} /\ mapped = [c \in Clients |-> {}]
    /\ modeSets = 0 /\ failures = 0

Unused == UNCHANGED <<settled, users, modeSets>>

\* initFromDeviceDescription: the window is published empty, the gate last.
Register ==
    /\ at = "boot"
    /\ at' = "off"
    /\ \/ /\ MayRegister(mode.start, ceiling)
          /\ registered' = TRUE
          /\ windowStart' = mode.start /\ windowEnd' = mode.start
       \/ UNCHANGED <<registered, windowStart, windowEnd>>     \* no fit, switched off, or cdevsw refused
    /\ UNCHANGED <<windowState, mem, proof, kept, failures>> /\ Unused

-------------------------------------------------------------------------------
(* programLinearMode. *)
StartModeSetProbing ==                             \* mutant: probes on later mode sets too
    /\ at = "off" /\ modeSets < MaxModeSets
    /\ modeSets' = modeSets + 1 /\ at' = "probe_save"
    /\ UNCHANGED <<settled, window, mem, proof, kept, users, failures>>

StartModeSet ==
    /\ at = "off" /\ modeSets < MaxModeSets
    /\ modeSets' = modeSets + 1
    /\ at' = IF windowState # "open" THEN "probe_save" ELSE "clear"
    /\ UNCHANGED <<settled, window, mem, proof, kept, users, failures>>

\* osmgaProbeVramExtent: the first and the last page of every megabyte above the
\* picture, in four passes; a page whose mapping fails drops out of the later ones.
ProbeOffsets ==
    LET megs == mode.visible \div Meg + 2 .. Lesser(limit, Conservative) \div Meg - 1
    IN  UNION {{m * Meg, (m + 1) * Meg - 1} : m \in megs}

ProbePass(here, next, saved, m) ==
    /\ at = here /\ at' = next
    /\ kept' = saved /\ mem' = m
    /\ UNCHANGED <<window, proof>> /\ Unused

ProbeSave ==
    \E F \in Failing("probe_save", ProbeOffsets) :
        /\ ProbePass("probe_save", "probe_write",
                     [a \in ProbeOffsets \ F |-> Read(mem, a)], mem)
        /\ Count(F)

ProbeWrite ==
    \E F \in Failing("probe_write", DOMAIN kept) :
        LET held == DOMAIN kept \ F IN
        /\ ProbePass("probe_write", "probe_read",
                     Restrict(kept, held), Store(mem, Marked("probe", held)))
        /\ Count(F)

ProbeRead ==
    \E F \in Failing("probe_read", DOMAIN kept) :
        /\ ProbePass("probe_read", "probe_restore",
                     Restrict(kept, DOMAIN kept \ F), mem)
        /\ Count(F)

ProbeRestore ==
    \E F \in Failing("probe_restore", DOMAIN kept) :
        /\ ProbePass("probe_restore",
                     IF registered /\ windowState = "unopened" THEN "plan" ELSE "clear",
                     None, Store(mem, Restrict(kept, DOMAIN kept \ F)))
        /\ Count(F)

\* Two stages, one after the other: seven megabytes are taken as proven, the first
\* goes up to twelve and the second to the ceiling.  A stage with nothing between its
\* ends is not attempted, nor is the second where the first failed.
StageOneTo == Lesser(ceiling, StageOne)
Floor == Lesser(Proven, ceiling)

Prove(a, b) == from' = a /\ to' = b /\ at' = "witness"
NothingToProve(next) == at' = next /\ UNCHANGED <<from, to>>

PlanEmptyStage ==                                  \* mutant: an empty stage is attempted
    /\ at = "plan"
    /\ reached' = Floor
    /\ Prove(Floor, StageOneTo)
    /\ UNCHANGED <<window, mem, anyFailed, cleaned, kept, failures>> /\ Unused

Plan ==
    /\ at = "plan"
    /\ \/ Floor < StageOneTo /\ reached' = Floor /\ Prove(Floor, StageOneTo)
       \/ Floor >= StageOneTo /\ reached' = StageOneTo /\ NothingToProve("stage_two")
    /\ UNCHANGED <<window, mem, anyFailed, cleaned, kept, failures>> /\ Unused

StageTwo ==
    /\ at = "stage_two"
    /\ \/ StageOneTo < ceiling /\ Prove(StageOneTo, ceiling)
       \/ StageOneTo >= ceiling /\ NothingToProve("decide")
    /\ UNCHANGED <<window, mem, reached, anyFailed, cleaned, kept, failures>> /\ Unused

StageFails ==
    /\ at' = "decide"
    /\ anyFailed' = TRUE
    /\ UNCHANGED <<from, to, reached>>

\* osmgaProveVramTo: a witness every half megabyte below the region, saved and
\* written in one pass.
Witnesses == {a \in 0 .. from - 1 : a % Stride = 0}

PlaceWitnesses ==
    /\ at = "witness"
    /\ IF from >= to \/ to > limit
         THEN StageFails /\ UNCHANGED <<mem, kept, failures>>
         ELSE \E F \in Failing("witness", Witnesses) :
              LET mine == Witnesses \ F
                  earlier(w) == {v \in mine : v < w /\ Decode(v) = Decode(w)}
                  was(w) == IF earlier(w) = {} THEN Read(mem, w) ELSE <<"witness", Max(earlier(w))>>
              IN  /\ Count(F)
                  /\ IF mine = {}
                     THEN StageFails /\ UNCHANGED <<mem, kept>>
                     ELSE /\ kept' = [w \in mine |-> was(w)]
                          /\ mem' = Store(mem, Marked("witness", mine))
                          /\ at' = "two_pages"
                          /\ UNCHANGED <<from, to, reached, anyFailed>>
    /\ UNCHANGED <<window, cleaned>> /\ Unused

RestoreWitnesses(m, F) ==
    /\ mem' = Store(m, Restrict(kept, DOMAIN kept \ F))
    /\ kept' = None

IntactUnread(m, F) == TRUE                         \* mutant: witnesses not looked at

Intact(m, F) == \A w \in DOMAIN kept : w \notin F /\ Read(m, w) = <<"witness", w>>

WriteTwoPages ==
    /\ at = "two_pages"
    /\ \E F \in Failing("region", {from}), G \in Failing("restore", DOMAIN kept) :
        IF F # {}
        THEN RestoreWitnesses(mem, G) /\ StageFails /\ Count(F \cup G)
        ELSE /\ mem' = Store(mem, Marked("page", {from, to - 1}))
             /\ at' = "first_look"
             /\ UNCHANGED <<kept, from, to, reached, anyFailed, failures>>
    /\ UNCHANGED <<window, cleaned>> /\ Unused

FirstLook ==
    /\ at = "first_look"
    /\ \E F \in Failing("look", DOMAIN kept), G \in Failing("restore", DOMAIN kept) :
        IF Intact(mem, F)
        THEN /\ at' = "rest"
             /\ UNCHANGED <<mem, kept, from, to, reached, anyFailed, failures>>
        ELSE RestoreWitnesses(mem, G) /\ StageFails /\ Count(F \cup G)
    /\ UNCHANGED <<window, cleaned>> /\ Unused

WriteTheRest ==
    /\ at = "rest" /\ at' = "second_look"
    /\ mem' = Store(mem, Marked("page", from .. to - 1))
    /\ UNCHANGED <<window, proof, kept, failures>> /\ Unused

RegionAnswers == \A a \in from .. to - 1 : Read(mem, a) = <<"page", a>>

\* Zeroed only when it passed: a region that failed may be somebody else's.
SecondLook ==
    /\ at = "second_look"
    /\ \E F \in Failing("look", DOMAIN kept), G \in Failing("restore", DOMAIN kept) :
        /\ Count(F \cup G)
        /\ IF RegionAnswers /\ Intact(mem, F)
           THEN /\ RestoreWitnesses(Store(mem, Zeros(from .. to - 1)), G)
                /\ reached' = to
                /\ at' = IF to = StageOneTo THEN "stage_two" ELSE "decide"
                /\ UNCHANGED <<from, to, anyFailed>>
           ELSE RestoreWitnesses(mem, G) /\ StageFails
    /\ UNCHANGED <<window, cleaned>> /\ Unused

\* OSMGAWindowOpenDecision
OpenDecision(start, end) == IF start < end THEN "open" ELSE "failed"

DecideUncleaned ==                                 \* mutant: anyFailed not read
    /\ at = "decide"
    /\ IF OpenDecision(windowStart, reached) = "open"
       THEN at' = "publish_end" /\ UNCHANGED windowState
       ELSE at' = "clear" /\ windowState' = "failed"
    /\ UNCHANGED <<registered, windowStart, windowEnd, mem, proof, kept, failures>> /\ Unused

Decide ==
    /\ at = "decide"
    /\ cleaned' = windowStart
    /\ IF OpenDecision(windowStart, reached) = "open"
       THEN /\ at' = IF anyFailed THEN "clean" ELSE "publish_end"
            /\ UNCHANGED window
       ELSE /\ windowState' = "failed" /\ at' = "clear"
            /\ UNCHANGED <<registered, windowStart, windowEnd>>
    /\ UNCHANGED <<mem, kept, from, to, reached, anyFailed, failures>> /\ Unused

\* osmgaZeroWindow, a piece at a time; what cannot be cleaned is not published.
CleanPiece ==
    LET end == Lesser(cleaned + Chunk, reached) IN
    /\ at = "clean"
    /\ \E F \in Failing("clean", {cleaned}) :
        /\ Count(F)
        /\ IF F # {}
           THEN /\ windowState' = "failed" /\ at' = "clear"
                /\ UNCHANGED <<mem, cleaned>>
           ELSE /\ mem' = Store(mem, Zeros(cleaned .. end - 1))
                /\ cleaned' = end
                /\ at' = IF end < reached THEN "clean" ELSE "publish_end"
                /\ UNCHANGED windowState
    /\ UNCHANGED <<registered, windowStart, windowEnd, kept, from, to, reached, anyFailed>>
    /\ Unused

PublishEnd ==
    /\ at = "publish_end" /\ at' = "publish_state"
    /\ windowEnd' = reached
    /\ UNCHANGED <<registered, windowStart, windowState, mem, proof, kept, failures>> /\ Unused

PublishState ==
    /\ at = "publish_state" /\ at' = "clear"
    /\ windowState' = "open"
    /\ UNCHANGED <<registered, windowStart, windowEnd, mem, proof, kept, failures>> /\ Unused

\* Every mode set ends by clearing the picture, the window open or not.
ClearVisible ==
    /\ at = "clear" /\ at' = "off"
    /\ mem' = Store(mem, Zeros(0 .. mode.visible - 1))
    /\ UNCHANGED <<window, proof, kept, failures>> /\ Unused

ModeThread ==
    \/ StartModeSet \/ ProbeSave \/ ProbeWrite \/ ProbeRead \/ ProbeRestore
    \/ Plan \/ StageTwo \/ PlaceWitnesses \/ WriteTwoPages \/ FirstLook \/ WriteTheRest \/ SecondLook
    \/ Decide \/ CleanPiece \/ PublishEnd \/ PublishState \/ ClearVisible

-------------------------------------------------------------------------------
(* The clients of the character device. *)
Aside == UNCHANGED <<settled, window, at, proof, kept, modeSets, failures>>

MayOpenRegistered == registered                    \* mutant: the state is not asked

MayOpen == registered /\ windowState = "open"

DevOpen(c) ==
    /\ c \notin fds /\ MayOpen
    /\ fds' = fds \cup {c}
    /\ UNCHANGED <<mem, mapped>> /\ Aside

\* A mapping outlives the descriptor it was made with.
DevClose(c) ==
    /\ c \in fds
    /\ fds' = fds \ {c}
    /\ UNCHANGED <<mem, mapped>> /\ Aside

\* The command batch first: its branch does not look at the window.
MapBatch(c) ==
    /\ c \in fds /\ ring
    /\ mapped' = [mapped EXCEPT ![c] = @ \cup {Batch}]
    /\ UNCHANGED <<mem, fds>> /\ Aside

InWindow(off) == windowStart <= off /\ off < windowEnd

DevMmap(c, off) ==
    /\ c \in fds /\ InWindow(off)
    /\ mapped' = [mapped EXCEPT ![c] = @ \cup {off}]
    /\ UNCHANGED <<mem, fds>> /\ Aside

Draw(c, a) ==
    /\ a \in mapped[c] \ {Batch}
    /\ mem' = Store(mem, Marked("client", {a}))
    /\ UNCHANGED users /\ Aside

ClientExits(c) ==
    /\ c \in fds \/ mapped[c] # {}
    /\ fds' = fds \ {c}
    /\ mapped' = [mapped EXCEPT ![c] = {}]
    /\ UNCHANGED mem /\ Aside

Client(c) ==
    \/ DevOpen(c) \/ DevClose(c) \/ MapBatch(c) \/ ClientExits(c)
    \/ \E off \in Offsets : DevMmap(c, off) \/ Draw(c, off)

Next == Register \/ ModeThread \/ \E c \in Clients : Client(c)

Spec == Init /\ [][Next]_vars

-------------------------------------------------------------------------------
(* Properties. *)

\* While the driver writes over memory to see what it is, nobody has a descriptor,
\* and so no mapping of the window or of the command batch (osmgaDevOpen's guard).
ProvedWhileUnused ==
    at \in ProbeSteps \cup ProofSteps \cup {"clean", "publish_end", "publish_state"} =>
        /\ fds = {}
        /\ \A c \in Clients : mapped[c] = {}

\* Every page of an open window has memory of its own: none answers for another
\* page of the window or of the picture.
WindowIsBacked ==
    windowState = "open" =>
        /\ mode.visible <= windowStart
        /\ \A a \in 0 .. windowEnd - 1 :
              /\ Decode(a) # Nowhere
              /\ \A b \in 0 .. windowEnd - 1 : Decode(a) = Decode(b) => a = b

\* What a client has mapped lies in the window as it is now, above the picture
\* and below what this boot may attempt.
MappedIsOffered ==
    \A c \in Clients : \A a \in mapped[c] \ {Batch} :
        /\ windowState = "open"
        /\ windowStart <= a /\ a < windowEnd
        /\ mode.visible <= a /\ a < limit

\* A window opens without a signature of the probe or of the proof in it.
WindowOpensClean ==
    [][ windowState # "open" /\ windowState' = "open" =>
            \A a \in windowStart' .. windowEnd' - 1 : Read(mem', a)[1] \notin Leavings ]_vars

\* Once drawn, a client's page changes only by drawing: no mode set, probe or
\* proof writes there again.
ClientPixelsStay ==
    [][ \A c \in DOMAIN mem : mem[c][1] = "client" => mem'[c][1] = "client" ]_vars

\* The window is decided once for the life of the load and then neither moves,
\* shrinks nor opens after all.
DecidedOnce ==
    [][ windowState # "unopened" =>
            UNCHANGED <<registered, windowStart, windowEnd, windowState>> ]_vars

\* A board that has all that was declared passes its own proof: once the window is
\* decided and every mapping was made, it is open up to the ceiling and nothing was
\* taken for a failure, also where a small declaration leaves a stage with nothing
\* between its ends, and where the probe and the first stage have written and put
\* back before the second looks.
HonestBoardOpensWhole ==
    windowState # "unopened" /\ failures = 0 /\ ceiling <= board.size =>
        windowState = "open" /\ windowEnd = ceiling /\ ~anyFailed

(* What the comments of the source say and the code does not do. *)

\* The probe puts back everything it took, including where the readback failed.
ProbePutsBack ==
    at = "plan" => \A c \in DOMAIN mem : mem[c][1] # "probe"
===============================================================================
