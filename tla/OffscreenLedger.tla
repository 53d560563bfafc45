-------------------------- MODULE OffscreenLedger --------------------------
(* The ledger of offscreen surfaces of protocol/, and what a 2D request on  *)
(* them is asked: OpenStepMGAOffscreenAllocator.c, OpenStepMGAOffscreen2D.c *)
(* and OpenStepMGACommand.c.  It hands out records, no addresses.  A client *)
(* keeps the records and may change them; the ledger believes only its own. *)
EXTENDS Integers, FiniteSets

CONSTANTS
  Requests,       \* widths, heights and strides asked for
  ByteMax,        \* the largest unsigned long
  IdMax,          \* the same, for surface identifiers
  MaxSurfaces     \* records the ledger has room for

ASSUME LedgerAssumption ==
  /\ ByteMax \in Nat \ {0} /\ IdMax \in Nat \ {0}
  /\ MaxSurfaces \in Nat \ {0}
  /\ Requests \subseteq [width : Nat, height : Nat, stride : Nat]

VARIABLES
  ledger,         \* arena, bytes used, alignment, next identifier, live records
  held,           \* every record a client was ever given: it may keep them all
  issued,         \* the records given out since the ledger was initialised,
  returned,       \* the identifiers given back since,
  starts,         \* and where each surface starts in the arena, by identifier
  inits           \* times it was initialised

ledgerVars == <<ledger, held, issued, returned, starts, inits>>

PowersOfTwo == {2^n : n \in 0..30}
-----------------------------------------------------------------------------
(* A surface of 32-bit pixels: rows of the stride, all within a word and    *)
(* the bytes allotted.                                                      *)
RequiredBytes(g) == g.stride * 4 * g.height

ValidSurface(g) ==
  /\ g.width # 0 /\ g.height # 0 /\ g.stride >= g.width
  /\ g.bytes # 0
  /\ g.stride <= ByteMax \div 4
  /\ g.height <= ByteMax \div (g.stride * 4)
  /\ RequiredBytes(g) <= g.bytes

(* Asked without a sum, so that none can wrap.                              *)
ValidClear(g, x, y, w, h) ==
  /\ ValidSurface(g)
  /\ w # 0 /\ h # 0
  /\ x < g.width /\ y < g.height
  /\ w <= g.width - x /\ h <= g.height - y

InsideSurface(g, p) == p[1] >= 0 /\ p[2] >= 0 /\ p[1] < g.width /\ p[2] < g.height
Area(a, b, c) == (b[1] - a[1]) * (c[2] - a[2]) - (b[2] - a[2]) * (c[1] - a[1])

ValidTriangle(g, a, b, c) ==
  /\ ValidSurface(g)
  /\ g.width <= 4095 /\ g.height <= 4095
  /\ InsideSurface(g, a) /\ InsideSurface(g, b) /\ InsideSurface(g, c)
  /\ Area(a, b, c) # 0
-----------------------------------------------------------------------------
NoLedger == [arena |-> 0, used |-> 0, alignment |-> 0, next |-> 0, live |-> {}]

LedgerInit ==
  /\ ledger = NoLedger
  /\ held = {} /\ issued = {} /\ returned = {} /\ inits = 0
  /\ starts = [id \in 1..IdMax |-> 0]

(* An arena nobody verified to be off the screen is refused.  Identifiers   *)
(* start over.  The turn of an arena bounds how often.                      *)
Initialize(arena) ==
  /\ inits < arena.turn
  /\ arena.outsideScanout
  /\ arena.bytes # 0 /\ arena.alignment \in PowersOfTwo
  /\ ledger' = [arena |-> arena.bytes, used |-> 0, alignment |-> arena.alignment, next |-> 1,
                live |-> {}]
  /\ issued' = {} /\ returned' = {}
  /\ starts' = [id \in 1..IdMax |-> 0]
  /\ inits' = inits + 1
  /\ UNCHANGED held

Aligned(bytes, alignment) ==
  IF bytes % alignment = 0 THEN bytes ELSE bytes + alignment - (bytes % alignment)

CanAllocate(l, q) ==
  /\ l.arena # 0 /\ l.alignment \in PowersOfTwo
  /\ LET g == [width |-> q.width, height |-> q.height, stride |-> q.stride, bytes |-> ByteMax] IN
     /\ ValidSurface(g)
     /\ RequiredBytes(g) <= ByteMax - (Aligned(RequiredBytes(g), l.alignment) - RequiredBytes(g))
     /\ l.used <= l.arena
     /\ Aligned(RequiredBytes(g), l.alignment) <= l.arena - l.used
  /\ Cardinality(l.live) < MaxSurfaces
  /\ l.next # 0

(* Memory is taken from the front and never given back: a release frees the *)
(* record, not the bytes.  After the last identifier comes nought, and that *)
(* is the end.                                                              *)
Allocate(q) ==
  /\ CanAllocate(ledger, q)
  /\ LET bytes   == q.stride * 4 * q.height
         surface == [id |-> ledger.next, kernel |-> TRUE, outside |-> TRUE,
                     geometry |-> [width |-> q.width, height |-> q.height, stride |-> q.stride,
                                   bytes |-> bytes]] IN
     /\ ledger' = [ledger EXCEPT !.live = @ \cup {surface},
                                 !.next = (@ + 1) % (IdMax + 1),
                                 !.used = @ + Aligned(bytes, ledger.alignment)]
     /\ held' = held \cup {surface}
     /\ issued' = issued \cup {surface}
     /\ starts' = [starts EXCEPT ![ledger.next] = ledger.used]
     /\ UNCHANGED <<returned, inits>>

Release(id) ==
  /\ id # 0
  /\ \E s \in ledger.live :
       /\ s.id = id
       /\ ledger' = [ledger EXCEPT !.live = @ \ {s}]
       /\ returned' = returned \cup {id}
       /\ UNCHANGED <<held, issued, starts, inits>>

LedgerNext ==
  \/ \E q \in Requests : Allocate(q)
  \/ \E s \in held : Release(s.id)
-----------------------------------------------------------------------------
(* A record is live if the one the ledger has under its identifier is the   *)
(* same in every field.                                                     *)
LiveSurfaceById(l, s) == s.id \in {own.id : own \in l.live}    \* mutant
LiveSurface(l, s) ==
  /\ s.id # 0
  /\ \E own \in l.live : own.id = s.id /\ own = s

SurfaceAdmitted(state, l, s) ==
  /\ state = "LINEAR_ACTIVE"
  /\ s.id # 0 /\ s.kernel /\ s.outside
  /\ LiveSurface(l, s)

ClearAdmitted(state, l, s, r) ==
  /\ SurfaceAdmitted(state, l, s)
  /\ ValidClear(s.geometry, r.x, r.y, r.w, r.h)

CopyAdmitted(state, l, from, r, to, x, y) ==
  /\ SurfaceAdmitted(state, l, from) /\ SurfaceAdmitted(state, l, to)
  /\ from.id # to.id
  /\ ValidClear(from.geometry, r.x, r.y, r.w, r.h)
  /\ ValidClear(to.geometry, x, y, r.w, r.h)
=============================================================================
