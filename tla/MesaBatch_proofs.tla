-------------------------- MODULE MesaBatch_proofs --------------------------
(* The deferred drawing of MesaBatch: the picture is painted in order, with *)
(* the state of each source, and what it loses is counted, but for one      *)
(* failed batch at most, whatever the kernel answers, for any shapes,       *)
(* limits and number of triangles; a revoked device is not used again.      *)
EXTENDS MesaBatch, SequenceTheorems, FiniteSetTheorems, TLAPS

Ids(srcs) == {srcs[i].id : i \in DOMAIN srcs}
Sorted(srcs) == \A i, j \in DOMAIN srcs : i < j => srcs[i].id < srcs[j].id
Before(ids, others) == \A a \in ids, b \in others : a < b

(* Who waits: in the flush, in the batch, or in a triangle call that has    *)
(* not put its source anywhere yet.                                         *)
Flushed == IF flush.stage = "none" THEN {} ELSE Ids(flush.prefix) \cup Ids(flush.rest)
Calling == IF job.stage \in {"none", "clip"} THEN {} ELSE {job.id}
Waiting == Flushed \cup Ids(pend) \cup Calling

(* Who waits stands in line, oldest first; while a flush goes on nothing    *)
(* else is pending, and only a prefix being resubmitted stands before its   *)
(* rest.                                                                    *)
Line ==
  /\ Sorted(pend)
  /\ flush.stage # "none" =>
       /\ pend = <<>> /\ flush.rest # <<>>
       /\ Sorted(flush.prefix) /\ Sorted(flush.rest)
       /\ Before(Ids(flush.prefix), Ids(flush.rest))
       /\ flush.stage # "prefix" => flush.prefix = <<>>
  /\ job.stage # "none" => job.id = next - 1
  /\ Before(Flushed \cup Ids(pend), Calling)
  /\ Before(Waiting, {next})

(* What was painted or given up lies before whoever still waits.            *)
GivenUp(g) == g.why \in Counts \cup Silent
NoneRevived == \A g \in gone : GivenUp(g) => g.id \notin PaintedIds
Past(ids) ==
  /\ \A c \in canvas, w \in ids : c.id < w
  /\ \A g \in gone, w \in ids : GivenUp(g) => g.id < w

Painted ==
  /\ clock \in Nat
  /\ \A c \in canvas : c.id \in Nat /\ c.at \in Nat /\ c.at <= clock
  /\ \A g \in gone : g.id \in Nat
  /\ OrderKept /\ NoneRevived

InOrder == Painted /\ Past(Waiting) /\ Past({next})

(* Nobody is forgotten, and between brackets, or while the state gate says  *)
(* software, nobody waits.                                                  *)
Accounted ==
  /\ 1..(next - 1) \subseteq PaintedIds \cup GoneIds \cup Waiting
  /\ ~bracket \/ install # "hard" => pend = <<>> /\ job = NoJob

(* Whoever waits holds its own state and the texture of the batch; the      *)
(* context holds the state of the triangle being drawn, or the flush does.  *)
Equipped(srcs) == \A i \in DOMAIN srcs : OwnHeld(srcs[i]) /\ srcs[i].key \in {NoKey, batchKey}
OwnInLine ==
  /\ OwnState
  /\ Equipped(pend)
  /\ flush.stage # "none" => Equipped(flush.prefix) /\ Equipped(flush.rest)
  /\ job.stage # "none" =>
       job.shape.facing = IF flush.stage = "none" THEN live ELSE flush.was
  /\ (job.stage \in {"check", "append"} /\ pend # <<>>) =>
       ~KeyClash(job.shape.key) /\ Len(pend) < BatchLimit

(* The window is there while a batch is with the engine.                    *)
Armed == flush.stage = "submit" => Window

IInv == Kinds /\ Line /\ InOrder /\ Accounted /\ OwnInLine /\ Armed
-----------------------------------------------------------------------------
LEMMA SourcesTyped ==
  ASSUME NEW srcs \in Seq(SourceSet)
  PROVE  /\ Len(srcs) \in Nat /\ DOMAIN srcs = 1..Len(srcs)
         /\ \A i \in DOMAIN srcs : srcs[i] \in SourceSet /\ srcs[i].id \in 1..MaxSource
         /\ Ids(srcs) \subseteq 1..MaxSource
<1>1. Len(srcs) \in Nat /\ DOMAIN srcs = 1..Len(srcs)
  OBVIOUS
<1>2. \A i \in DOMAIN srcs : srcs[i] \in SourceSet
  BY <1>1
<1>3. \A i \in DOMAIN srcs : srcs[i].id \in 1..MaxSource
  BY <1>2 DEF SourceSet
<1> QED
  BY <1>1, <1>2, <1>3 DEF Ids

(* A step takes sources out of the line: each is painted, at the time of    *)
(* its place, or gone, and what is given up is not among the painted.       *)
Takes(srcs) ==
  /\ canvas \subseteq canvas' /\ gone \subseteq gone'
  /\ clock' \in Nat /\ clock <= clock'
  /\ \A c \in canvas' \ canvas :
       \E i \in DOMAIN srcs : c.id = srcs[i].id /\ c.at = clock + i /\ c.at <= clock'
  /\ \A c, d \in canvas' \ canvas : c.id = d.id => c = d
  /\ \A g \in gone' \ gone : 
       g.id \in Ids(srcs) /\ (GivenUp(g) => \A c \in canvas' \ canvas : c.id # g.id)
  /\ Ids(srcs) \subseteq PaintedIds' \cup GoneIds'

LEMMA Taken ==
  ASSUME Painted, NEW srcs, DOMAIN srcs \subseteq Nat \ {0}, Ids(srcs) \subseteq Nat, Sorted(srcs),
         Past(Ids(srcs)), Takes(srcs),
         NEW later \in SUBSET Nat, Past(later), Before(Ids(srcs), later)
  PROVE  /\ Painted' /\ Past(later)'
         /\ PaintedIds \cup GoneIds \cup Ids(srcs) \subseteq PaintedIds' \cup GoneIds'
<1>1. ASSUME NEW c \in canvas' \ canvas
      PROVE  /\ c.id \in Ids(srcs) /\ c.id \in Nat /\ c.at \in Nat /\ c.at > clock /\ c.at <= clock'
  BY <1>1 DEF Takes, Ids, Painted
<1>2. ASSUME NEW c \in canvas
      PROVE  /\ c.id \in Nat /\ c.at \in Nat /\ c.at <= clock
             /\ \A w \in Ids(srcs) : c.id < w
  BY DEF Painted, Past
<1>3. clock \in Nat /\ clock' \in Nat /\ clock <= clock'
  BY DEF Painted, Takes
<1>4. \A c \in canvas' : c.id \in Nat /\ c.at \in Nat /\ c.at <= clock'
  BY <1>1, <1>2, <1>3
<1>5. ASSUME NEW g \in gone' \ gone
      PROVE  g.id \in Ids(srcs) /\ g.id \in Nat
  BY DEF Takes
<1>6. \A g \in gone' : g.id \in Nat
  BY <1>5 DEF Painted
<1>7. OrderKept'
  <2> SUFFICES ASSUME NEW c \in canvas', NEW d \in canvas', c # d
               PROVE  c.id # d.id /\ (c.at < d.at <=> c.id < d.id)
    BY DEF OrderKept
  <2>1. CASE c \in canvas /\ d \in canvas
    BY <2>1 DEF Painted, OrderKept
  <2>2. CASE c \in canvas /\ d \notin canvas
    <3>1. c.id < d.id
      BY <2>2, <1>1, <1>2
    <3>2. c.at < d.at
      BY <2>2, <1>1, <1>2, <1>3
    <3> QED
      BY <3>1, <3>2, <1>1, <1>2
  <2>3. CASE c \notin canvas /\ d \in canvas
    <3>1. d.id < c.id
      BY <2>3, <1>1, <1>2
    <3>2. d.at < c.at
      BY <2>3, <1>1, <1>2, <1>3
    <3> QED
      BY <2>3, <3>1, <3>2, <1>1, <1>2
  <2>4. CASE c \notin canvas /\ d \notin canvas
    <3>1. PICK i \in DOMAIN srcs : c.id = srcs[i].id /\ c.at = clock + i
      BY <2>4 DEF Takes
    <3>2. PICK j \in DOMAIN srcs : d.id = srcs[j].id /\ d.at = clock + j
      BY <2>4 DEF Takes
    <3>3. c.id # d.id
      BY <2>4 DEF Takes
    <3>4. c.id \in Nat /\ d.id \in Nat /\ i \in Nat /\ j \in Nat
      BY <2>4, <1>1
    <3>5. (i < j => c.id < d.id) /\ (j < i => d.id < c.id)
      BY <3>1, <3>2 DEF Sorted
    <3>6. c.at < d.at <=> i < j
      BY <3>1, <3>2, <3>4, <1>3
    <3>7. i # j
      BY <3>1, <3>2, <3>3
    <3> QED
      BY <3>3, <3>4, <3>5, <3>6, <3>7
  <2> QED
    BY <2>1, <2>2, <2>3, <2>4
<1>8. NoneRevived'
  <2> SUFFICES ASSUME NEW g \in gone', GivenUp(g), NEW c \in canvas'
               PROVE  g.id # c.id
    BY DEF NoneRevived, GivenUp, PaintedIds
  <2>0. g.id \in Nat
    BY <1>6
  <2>1. CASE g \in gone /\ c \in canvas
    BY <2>1 DEF Painted, NoneRevived, GivenUp, PaintedIds
  <2>2. CASE g \in gone /\ c \notin canvas
    <3>1. g.id < c.id
      BY <2>2, <1>1 DEF Past
    <3> QED
      BY <3>1, <2>2, <1>1, <1>6
  <2>3. CASE g \notin gone
    <3>1. g.id \in Ids(srcs) /\ (c \notin canvas => c.id # g.id)
      BY <2>3 DEF Takes
    <3>2. c \in canvas => c.id < g.id /\ c.id \in Nat
      BY <3>1, <1>2
    <3> QED
      BY <2>0, <3>1, <3>2
  <2> QED
    BY <2>1, <2>2, <2>3
<1>9. Painted'
  BY <1>3, <1>4, <1>6, <1>7, <1>8 DEF Painted
<1>10. Past(later)'
  <2>1. \A c \in canvas', w \in later : c.id < w
    BY <1>1 DEF Past, Before
  <2>2. \A g \in gone', w \in later : GivenUp(g) => g.id < w
    BY <1>5 DEF Past, Before
  <2> QED
    BY <2>1, <2>2 DEF Past, GivenUp
<1>11. PaintedIds \cup GoneIds \cup Ids(srcs) \subseteq PaintedIds' \cup GoneIds'
  BY DEF Takes, PaintedIds, GoneIds
<1> QED
  BY <1>9, <1>10, <1>11

(* Sources of a list painted at the time of their places, the others gone.  *)
LEMMA StrokesTake ==
  ASSUME clock \in Nat, NEW srcs \in Seq(SourceSet), Sorted(srcs),
         NEW which \in SUBSET DOMAIN srcs, canvas \subseteq canvas',
         \A c \in canvas' \ canvas : \E i \in which : c.id = srcs[i].id /\ c.at = clock + i,
         \A c, d \in canvas' \ canvas : c.at = d.at => c = d,
         \A i \in which : srcs[i].id \in PaintedIds',
         clock' = clock + Len(srcs), gone \subseteq gone',
         \A g \in gone' \ gone : \E i \in DOMAIN srcs \ which : g.id = srcs[i].id,
         \A i \in DOMAIN srcs \ which : srcs[i].id \in GoneIds'
  PROVE  Takes(srcs)
<1>1. /\ Len(srcs) \in Nat /\ DOMAIN srcs = 1..Len(srcs)
      /\ \A i \in DOMAIN srcs : srcs[i].id \in 1..MaxSource
  BY SourcesTyped
<1>2. clock' \in Nat /\ clock <= clock' /\ \A i \in DOMAIN srcs : clock + i <= clock'
  BY <1>1
<1>3. \A c \in canvas' \ canvas :
        \E i \in DOMAIN srcs : c.id = srcs[i].id /\ c.at = clock + i /\ c.at <= clock'
  BY <1>2
<1>4. ASSUME NEW c \in canvas' \ canvas, NEW d \in canvas' \ canvas, c.id = d.id
      PROVE  c = d
  <2>1. PICK i \in which : c.id = srcs[i].id /\ c.at = clock + i
    OBVIOUS
  <2>2. PICK j \in which : d.id = srcs[j].id /\ d.at = clock + j
    OBVIOUS
  <2>3. ~(srcs[i].id < srcs[j].id) /\ ~(srcs[j].id < srcs[i].id)
    <3>1. srcs[i].id = srcs[j].id
      BY <1>4, <2>1, <2>2
    <3>2. srcs[i].id \in Nat
      BY <1>1
    <3> QED
      BY ONLY <3>1, <3>2
  <2>4. i \in Nat /\ j \in Nat
    BY <1>1
  <2>5. i = j
    BY <2>3, <2>4 DEF Sorted
  <2> QED
    BY <2>1, <2>2, <2>5
<1>5. Ids(srcs) \subseteq PaintedIds' \cup GoneIds'
  BY DEF Ids
<1>6. ASSUME NEW g \in gone' \ gone
      PROVE  g.id \in Ids(srcs) /\ \A c \in canvas' \ canvas : c.id # g.id
  <2>1. PICK i \in DOMAIN srcs \ which : g.id = srcs[i].id
    OBVIOUS
  <2>2. ASSUME NEW c \in canvas' \ canvas, c.id = g.id
        PROVE  FALSE
    <3>1. PICK j \in which : c.id = srcs[j].id
      OBVIOUS
    <3>2. i \in Nat /\ j \in Nat /\ i # j /\ j \in DOMAIN srcs
      BY <1>1
    <3>3. srcs[i].id \in Nat /\ srcs[j].id \in Nat
      BY <1>1, <3>2
    <3>4. srcs[i].id < srcs[j].id \/ srcs[j].id < srcs[i].id
      BY <3>2 DEF Sorted
    <3> QED
      BY <2>1, <2>2, <3>1, <3>3, <3>4
  <2> QED
    BY <2>1, <2>2 DEF Ids
<1> QED
  BY <1>2, <1>3, <1>4, <1>5, <1>6 DEF Takes

LEMMA DrawnTakes ==
  ASSUME clock \in Nat, NEW srcs \in Seq(SourceSet), Sorted(srcs), Drawn(srcs)
  PROVE  Takes(srcs) /\ (OwnState /\ Equipped(srcs) => OwnState')
<1> DEFINE own(i) == OwnHeld(srcs[i]) /\ srcs[i].key \in {NoKey, batchKey}
           stroke(i) == Stroke(srcs[i], "engine", own(i), clock + i)
           all == DOMAIN srcs
<1>1. /\ canvas' = canvas \cup {stroke(i) : i \in all}
      /\ gone' = gone /\ clock' = clock + Len(srcs)
  BY DEF Drawn, ByEngine
<1>2. \A i \in all : /\ stroke(i).id = srcs[i].id /\ stroke(i).at = clock + i
                     /\ stroke(i).own = own(i)
  BY DEF Stroke
<1>3. all \subseteq Nat
  BY SourcesTyped
<1> HIDE DEF own, stroke
<1>4. Takes(srcs)
  <2>1. \A c \in canvas' \ canvas : \E i \in all : c.id = srcs[i].id /\ c.at = clock + i
    BY <1>1, <1>2
  <2>2. \A c, d \in canvas' \ canvas : c.at = d.at => c = d
    <3> SUFFICES ASSUME NEW c \in canvas' \ canvas, NEW d \in canvas' \ canvas, c.at = d.at
                 PROVE  c = d
      OBVIOUS
    <3>1. PICK i \in all : c = stroke(i)
      BY <1>1
    <3>2. PICK j \in all : d = stroke(j)
      BY <1>1
    <3>3. clock + i = clock + j
      BY <3>1, <3>2, <1>2
    <3>4. i = j
      BY <3>3, <1>3
    <3> QED
      BY <3>1, <3>2, <3>4
  <2>3. \A i \in all : srcs[i].id \in PaintedIds'
    BY <1>1, <1>2 DEF PaintedIds
  <2>4. /\ canvas \subseteq canvas' /\ gone \subseteq gone'
        /\ \A g \in gone' \ gone : \E i \in DOMAIN srcs \ all : g.id = srcs[i].id
        /\ \A i \in DOMAIN srcs \ all : srcs[i].id \in GoneIds'
        /\ all \in SUBSET DOMAIN srcs
    BY <1>1
  <2> QED
    BY <1>1, <2>1, <2>2, <2>3, <2>4, StrokesTake
<1>5. ASSUME OwnState, Equipped(srcs)
      PROVE  OwnState'
  <2>1. \A i \in all : own(i)
    BY <1>5 DEF Equipped, own
  <2>2. \A c \in canvas' \ canvas : \E i \in all : c.own = own(i)
    BY <1>1, <1>2
  <2> QED
    BY <1>5, <2>1, <2>2 DEF OwnState
<1> QED
  BY <1>4, <1>5

LEMMA ReplayTakes ==
  ASSUME clock \in Nat, NEW srcs \in Seq(SourceSet), Sorted(srcs), Replay(srcs)
  PROVE  /\ Takes(srcs) /\ (OwnState /\ Equipped(srcs) => OwnState')
         /\ \A c \in canvas' \ canvas : c.by = "software"
<1> DEFINE own(i) == OwnHeld(srcs[i])
           stroke(i) == Stroke(srcs[i], "software", own(i), clock + i)
           clipped == {i \in DOMAIN srcs : ~Replayable(srcs[i])}
           undrawn == DOMAIN srcs \ (clipped \cup Replayed(srcs))
<1>1. Replayed(srcs) \subseteq DOMAIN srcs
  BY DEF Replayed
<1>2. /\ canvas' = canvas \cup {stroke(i) : i \in Replayed(srcs)}
      /\ clock' = clock + Len(srcs)
      /\ gone' = gone \cup Lost(srcs, clipped, "clipped") \cup Lost(srcs, undrawn, "no_rasteriser")
  BY DEF Replay, BySoftware
<1>3. \A i \in DOMAIN srcs : /\ stroke(i).id = srcs[i].id /\ stroke(i).at = clock + i
                             /\ stroke(i).own = own(i) /\ stroke(i).by = "software"
  BY DEF Stroke
<1>4. DOMAIN srcs \subseteq Nat
  BY SourcesTyped
<1>5. ASSUME NEW g \in gone' \ gone
      PROVE  \E i \in DOMAIN srcs \ Replayed(srcs) : g.id = srcs[i].id
  <2>1. g \in Lost(srcs, clipped, "clipped") \/ g \in Lost(srcs, undrawn, "no_rasteriser")
    BY <1>2
  <2>2. PICK i \in clipped \cup undrawn : \/ g = [id |-> srcs[i].id, why |-> "clipped"]
                                          \/ g = [id |-> srcs[i].id, why |-> "no_rasteriser"]
    BY <2>1 DEF Lost
  <2>3. i \in DOMAIN srcs /\ i \notin Replayed(srcs)
    BY DEF Replayed
  <2> QED
    BY <2>2, <2>3
<1>6. ASSUME NEW i \in DOMAIN srcs \ Replayed(srcs)
      PROVE  srcs[i].id \in GoneIds'
  <2>1. i \in clipped \/ i \in undrawn
    OBVIOUS
  <2>2. \E why : [id |-> srcs[i].id, why |-> why] \in gone'
    BY <2>1, <1>2 DEF Lost
  <2> QED
    BY <2>2 DEF GoneIds
<1>7. gone \subseteq gone'
  BY <1>2
<1> HIDE DEF own, stroke, clipped, undrawn
<1>8. Takes(srcs)
  <2>1. \A c \in canvas' \ canvas :
          \E i \in Replayed(srcs) : c.id = srcs[i].id /\ c.at = clock + i
    BY <1>1, <1>2, <1>3
  <2>2. \A c, d \in canvas' \ canvas : c.at = d.at => c = d
    <3> SUFFICES ASSUME NEW c \in canvas' \ canvas, NEW d \in canvas' \ canvas, c.at = d.at
                 PROVE  c = d
      OBVIOUS
    <3>1. PICK i \in Replayed(srcs) : c = stroke(i)
      BY <1>2
    <3>2. PICK j \in Replayed(srcs) : d = stroke(j)
      BY <1>2
    <3>3. clock + i = clock + j
      BY <3>1, <3>2, <1>1, <1>3
    <3>4. i = j
      BY <3>3, <1>1, <1>4
    <3> QED
      BY <3>1, <3>2, <3>4
  <2>3. \A i \in Replayed(srcs) : srcs[i].id \in PaintedIds'
    BY <1>1, <1>2, <1>3 DEF PaintedIds
  <2>4. canvas \subseteq canvas'
    BY <1>2
  <2> QED
    BY <1>1, <1>2, <1>5, <1>6, <1>7, <2>1, <2>2, <2>3, <2>4, StrokesTake
<1>9. ASSUME OwnState, Equipped(srcs)
      PROVE  OwnState'
  <2>1. \A i \in DOMAIN srcs : own(i)
    BY <1>9 DEF Equipped, own
  <2>2. \A c \in canvas' \ canvas : \E i \in DOMAIN srcs : c.own = own(i)
    BY <1>1, <1>2, <1>3
  <2> QED
    BY <1>9, <2>1, <2>2 DEF OwnState
<1>10. \A c \in canvas' \ canvas : c.by = "software"
  BY <1>1, <1>2, <1>3
<1> QED
  BY <1>8, <1>9, <1>10

LEMMA RescueTakes ==
  ASSUME clock \in Nat, NEW srcs \in Seq(SourceSet), Sorted(srcs), Rescue(srcs)
  PROVE  /\ Takes(srcs) /\ (OwnState /\ Equipped(srcs) => OwnState')
         /\ \A c \in canvas' \ canvas : c.by = "software"
<1>1. CASE bound
  BY <1>1, ReplayTakes DEF Rescue
<1>2. CASE ~bound
  <2>1. /\ gone' = gone \cup Lost(srcs, DOMAIN srcs, "surface_released")
        /\ canvas' = canvas /\ clock' = clock
    BY <1>2 DEF Rescue
  <2>2. \A g \in gone' \ gone : \E i \in DOMAIN srcs : g = [id |-> srcs[i].id, why |-> "surface_released"]
    BY <2>1 DEF Lost
  <2>3. \A g \in gone' \ gone : g.id \in Ids(srcs)
    BY <2>2 DEF Ids
  <2>4. \A i \in DOMAIN srcs : [id |-> srcs[i].id, why |-> "surface_released"] \in gone'
    BY <2>1 DEF Lost
  <2>5. Ids(srcs) \subseteq GoneIds'
    <3>1. \A i \in DOMAIN srcs : \E g \in gone' : g.id = srcs[i].id
      BY <2>4
    <3> QED
      BY <3>1 DEF Ids, GoneIds
  <2> QED
    BY <2>1, <2>3, <2>5 DEF Takes, OwnState
<1> QED
  BY <1>1, <1>2

LEMMA FailedTakes ==
  ASSUME clock \in Nat, NEW half \in Seq(SourceSet), NEW undrawn \in Seq(SourceSet),
         Failed(half, undrawn), NEW srcs, Ids(srcs) = Ids(half) \cup Ids(undrawn)
  PROVE  Takes(srcs) /\ canvas' = canvas
<1>1. /\ gone' = gone \cup Lost(half, DOMAIN half, "half_drawn")
                      \cup Lost(undrawn, DOMAIN undrawn, "abandoned")
      /\ canvas' = canvas /\ clock' = clock
  BY DEF Failed, Abandoned
<1>2. \A g \in gone' \ gone : \/ \E i \in DOMAIN half : g = [id |-> half[i].id, why |-> "half_drawn"]
                              \/ \E i \in DOMAIN undrawn : g = [id |-> undrawn[i].id, why |-> "abandoned"]
  BY <1>1 DEF Lost
<1>3. \A g \in gone' \ gone : g.id \in Ids(srcs)
  BY <1>2 DEF Ids
<1>4. /\ \A i \in DOMAIN half : [id |-> half[i].id, why |-> "half_drawn"] \in gone'
      /\ \A i \in DOMAIN undrawn : [id |-> undrawn[i].id, why |-> "abandoned"] \in gone'
  BY <1>1 DEF Lost
<1>5. Ids(half) \subseteq GoneIds' /\ Ids(undrawn) \subseteq GoneIds'
  <2>1. \A i \in DOMAIN half : \E g \in gone' : g.id = half[i].id
    BY <1>4
  <2>2. \A i \in DOMAIN undrawn : \E g \in gone' : g.id = undrawn[i].id
    BY <1>4
  <2> QED
    BY <2>1, <2>2 DEF Ids, GoneIds
<1> QED
  BY <1>1, <1>3, <1>5 DEF Takes

LEMMA WarpFailedTakes ==
  ASSUME clock \in Nat, NEW srcs \in Seq(SourceSet), WarpFailed(srcs)
  PROVE  Takes(srcs) /\ canvas' = canvas
<1>1. /\ gone' = gone \cup Lost(srcs, DOMAIN srcs, "warp_failed")
      /\ canvas' = canvas /\ clock' = clock
  BY DEF WarpFailed
<1>2. \A g \in gone' \ gone : \E i \in DOMAIN srcs : g = [id |-> srcs[i].id, why |-> "warp_failed"]
  BY <1>1 DEF Lost
<1>3. \A g \in gone' \ gone : g.id \in Ids(srcs)
  BY <1>2 DEF Ids
<1>4. \A i \in DOMAIN srcs : \E g \in gone' : g.id = srcs[i].id
  <2>1. \A i \in DOMAIN srcs : [id |-> srcs[i].id, why |-> "warp_failed"] \in gone'
    BY <1>1 DEF Lost
  <2> QED
    BY <2>1
<1>5. Ids(srcs) \subseteq GoneIds'
  BY <1>4 DEF Ids, GoneIds
<1> QED
  BY <1>1, <1>3, <1>5 DEF Takes

(* One triangle drawn by Mesa, or dropped if Mesa has none to draw it with. *)
LEMMA SoftlyTakes ==
  ASSUME clock \in Nat, NEW id \in Nat, NEW own, DrawSoftly(id, own)
  PROVE  /\ Takes(<<[id |-> id]>>) /\ (OwnState /\ own => OwnState')
         /\ \A c \in canvas' \ canvas : c.by = "software"
<1> DEFINE src == [id |-> id]
           srcs == <<src>>
           stroke == Stroke(src, "software", own, clock + 1)
<1>1. DOMAIN srcs = {1} /\ srcs[1] = src /\ src.id = id
  OBVIOUS
<1>2. Ids(srcs) = {id}
  BY <1>1 DEF Ids
<1>3. stroke.id = id /\ stroke.at = clock + 1 /\ stroke.by = "software" /\ stroke.own = own
  BY DEF Stroke
<1>4. CASE saved
  <2>1. canvas' = canvas \cup {stroke} /\ clock' = clock + 1 /\ gone' = gone
    BY <1>4 DEF DrawSoftly
  <2> HIDE DEF stroke, srcs
  <2>2. id \in PaintedIds'
    BY <2>1, <1>3 DEF PaintedIds
  <2>3. \A c \in canvas' \ canvas : c.id = srcs[1].id /\ c.at = clock + 1 /\ c = stroke
    BY <2>1, <1>1, <1>3
  <2>4. Takes(srcs)
    BY <2>1, <2>2, <2>3, <1>1, <1>2 DEF Takes
  <2>5. OwnState /\ own => OwnState'
    BY <2>1, <1>3 DEF OwnState
  <2> QED
    BY <2>3, <2>4, <2>5, <1>3 DEF srcs
<1>5. CASE ~saved
  <2> DEFINE g0 == [id |-> id, why |-> "no_rasteriser"]
  <2>1. gone' = gone \cup {g0} /\ canvas' = canvas /\ clock' = clock
    BY <1>5 DEF DrawSoftly
  <2>2. g0.id = id /\ ~GivenUp(g0)
    BY DEF GivenUp, Counts, Silent
  <2> HIDE DEF g0, srcs
  <2>3. id \in GoneIds'
    BY <2>1, <2>2 DEF GoneIds
  <2>4. Takes(srcs)
    BY <2>1, <2>2, <2>3, <1>2 DEF Takes
  <2> QED
    BY <2>1, <2>4 DEF OwnState, srcs
<1> QED
  BY <1>4, <1>5

(* Two lists that follow each other in line.                                *)
LEMMA Joined ==
  ASSUME NEW a \in Seq(SourceSet), NEW b \in Seq(SourceSet), Sorted(a), Sorted(b),
         Before(Ids(a), Ids(b)), NEW srcs, srcs = a \o b
  PROVE  /\ srcs \in Seq(SourceSet) /\ Sorted(srcs) /\ Ids(srcs) = Ids(a) \cup Ids(b)
         /\ Equipped(a) /\ Equipped(b) => Equipped(srcs)
<1>1. /\ Len(a) \in Nat /\ Len(b) \in Nat /\ DOMAIN a = 1..Len(a) /\ DOMAIN b = 1..Len(b)
  BY SourcesTyped
<1>2. /\ srcs \in Seq(SourceSet) /\ Len(srcs) = Len(a) + Len(b) /\ DOMAIN srcs = 1..Len(a) + Len(b)
      /\ \A i \in 1..Len(a) : srcs[i] = a[i]
      /\ \A i \in 1..Len(b) : srcs[Len(a) + i] = b[i]
  BY ConcatProperties
<1>3. \A i \in DOMAIN srcs : \/ i \in DOMAIN a /\ srcs[i] = a[i]
                             \/ i - Len(a) \in DOMAIN b /\ srcs[i] = b[i - Len(a)] /\ i \notin DOMAIN a
  <2> SUFFICES ASSUME NEW i \in DOMAIN srcs, i \notin DOMAIN a
               PROVE  i - Len(a) \in DOMAIN b /\ srcs[i] = b[i - Len(a)]
    BY <1>2, <1>1
  <2>1. i - Len(a) \in 1..Len(b) /\ Len(a) + (i - Len(a)) = i
    BY <1>1, <1>2
  <2> QED
    BY <2>1, <1>1, <1>2
<1>4. Sorted(srcs)
  <2> SUFFICES ASSUME NEW i \in DOMAIN srcs, NEW j \in DOMAIN srcs, i < j
               PROVE  srcs[i].id < srcs[j].id
    BY DEF Sorted
  <2>1. CASE j \in DOMAIN a
    <3>1. i \in DOMAIN a
      BY <2>1, <1>1, <1>2
    <3> QED
      BY <2>1, <3>1, <1>1, <1>2 DEF Sorted
  <2>2. CASE j \notin DOMAIN a /\ i \in DOMAIN a
    BY <2>2, <1>1, <1>2, <1>3 DEF Before, Ids
  <2>3. CASE j \notin DOMAIN a /\ i \notin DOMAIN a
    <3>1. i - Len(a) < j - Len(a)
      BY <1>1, <1>2
    <3> QED
      BY <2>3, <3>1, <1>3 DEF Sorted
  <2> QED
    BY <2>1, <2>2, <2>3
<1>5. Ids(srcs) = Ids(a) \cup Ids(b)
  <2>1. Ids(srcs) \subseteq Ids(a) \cup Ids(b)
    BY <1>3 DEF Ids
  <2>2. Ids(a) \subseteq Ids(srcs)
    BY <1>1, <1>2 DEF Ids
  <2>3. \A i \in DOMAIN b : \E j \in DOMAIN srcs : srcs[j] = b[i]
    <3>1. \A i \in 1..Len(b) : Len(a) + i \in DOMAIN srcs
      BY <1>1, <1>2
    <3> QED
      BY <3>1, <1>1, <1>2
  <2>4. Ids(b) \subseteq Ids(srcs)
    BY <2>3 DEF Ids
  <2> QED
    BY <2>1, <2>2, <2>4
<1>6. Equipped(a) /\ Equipped(b) => Equipped(srcs)
  BY <1>3 DEF Equipped
<1> QED
  BY <1>2, <1>4, <1>5, <1>6

-----------------------------------------------------------------------------
ProbeType == [done : BOOLEAN, pid : 0..(MaxForks + 1), verdict : Answers \cup {"none"},
              fd : BOOLEAN, win : BOOLEAN, revoked : BOOLEAN]

LEMMA RevokedTyped ==
  ASSUME NEW p \in ProbeType
  PROVE  Revoked(p) \in ProbeType
BY DEF ProbeType, Revoked

LEMMA FlushTyped ==
  ASSUME Kinds, UNCHANGED Calm, probe' = probe \/ probe' = Revoked(probe), refused' \in Nat,
         clipOff' \in BOOLEAN, clock' \in Nat, live' \in {0, 1}, flush' \in Flushes \cup {NoFlush}
  PROVE  Kinds'
<1>1. probe' \in ProbeType
  <2>1. probe \in ProbeType
    BY DEF Kinds, ProbeType
  <2> QED
    BY <2>1, RevokedTyped
<1> QED
  BY <1>1 DEF Kinds, Calm, client, ProbeType

LEMMA FlushFields ==
  ASSUME Kinds, flush.stage # "none"
  PROVE  flush \in Flushes /\ flush.rest \in Seq(SourceSet) /\ flush.prefix \in Seq(SourceSet)
         /\ flush.was \in {0, 1}
BY DEF Kinds, Flushes, NoFlush

LEMMA NoneInEmpty == Ids(<<>>) = {} /\ Sorted(<<>>) /\ Equipped(<<>>)
BY DEF Ids, Sorted, Equipped

(* The flush is over: all that stood in it is painted or gone.              *)
LEMMA FlushEnds ==
  ASSUME IInv, flush.stage # "none", EndFlush, UNCHANGED Calm, Kinds', OwnState',
         NEW srcs \in Seq(SourceSet), Ids(srcs) = Flushed, Sorted(srcs), Takes(srcs)
  PROVE  IInv'
<1>1. /\ flush'.stage = "none" /\ live' = flush.was /\ pend = <<>> /\ pend' = pend /\ job' = job
      /\ next' = next /\ bracket' = bracket /\ install' = install
  BY DEF EndFlush, NoFlush, Calm, client, IInv, Line
<1>2. Flushed' = {} /\ Calling' = Calling /\ Ids(pend)' = {} /\ Ids(pend) = {}
  BY <1>1, NoneInEmpty DEF Flushed, Calling
<1>3. PICK later : later = Calling \cup {next}
  OBVIOUS
<1>4. next \in Nat /\ (job.stage # "none" => job.id \in Nat)
  BY DEF IInv, Kinds, Jobs, NoJob
<1>5. later \in SUBSET Nat
  BY <1>3, <1>4 DEF Calling
<1>6. Painted' /\ Past(later)' /\ PaintedIds \cup GoneIds \cup Ids(srcs) \subseteq PaintedIds' \cup GoneIds'
  <2>1. DOMAIN srcs \subseteq Nat \ {0} /\ Ids(srcs) \subseteq Nat
    BY SourcesTyped
  <2>2. Past(Ids(srcs)) /\ Past(later)
    BY <1>3 DEF IInv, InOrder, Waiting, Past
  <2>3. Before(Ids(srcs), later)
    BY <1>3 DEF IInv, Line, Waiting, Before
  <2> QED
    BY <1>5, <2>1, <2>2, <2>3, Taken DEF IInv, InOrder
<1>7. Line'
  BY <1>1, <1>2, NoneInEmpty DEF IInv, Line, Waiting, Before
<1>8. InOrder'
  <2>1. Waiting' \subseteq later /\ {next}' \subseteq later
    BY <1>1, <1>2, <1>3 DEF Waiting
  <2> QED
    BY <1>6, <2>1 DEF InOrder, Past
<1>9. Accounted'
  <2>1. Waiting \subseteq Ids(srcs) \cup Waiting'
    BY <1>2 DEF Waiting
  <2> QED
    BY <1>1, <1>6, <2>1 DEF IInv, Accounted
<1>10. OwnInLine'
  <2>1. Equipped(pend)'
    BY <1>1 DEF Equipped
  <2> QED
    BY <1>1, <2>1 DEF IInv, OwnInLine, KeyClash
<1>11. Armed'
  BY <1>1 DEF Armed
<1> QED
  BY <1>7, <1>8, <1>9, <1>10, <1>11 DEF IInv

(* The flush goes on with what is left of it.                               *)
LEMMA FlushGoesOn ==
  ASSUME IInv, flush.stage # "none", UNCHANGED Calm, live' = live, Kinds', OwnState',
         NEW srcs \in Seq(SourceSet), Sorted(srcs), Takes(srcs),
         NEW left \in Seq(SourceSet), left # <<>>, Sorted(left), Equipped(left),
         Ids(srcs) \cup Ids(left) = Flushed, Before(Ids(srcs), Ids(left)),
         flush'.stage \in {"ask", "named"}, flush'.rest = left, flush'.prefix = <<>>,
         flush'.was = flush.was
  PROVE  IInv'
<1>1. /\ flush'.stage # "none" /\ pend = <<>> /\ pend' = pend /\ job' = job
      /\ next' = next /\ bracket' = bracket /\ install' = install /\ batchKey' = batchKey
  BY DEF Calm, client, IInv, Line
<1>2. Flushed' = Ids(left) /\ Calling' = Calling /\ Ids(pend)' = {} /\ Ids(pend) = {}
  BY <1>1, NoneInEmpty DEF Flushed, Calling
<1>3. PICK later : later = Ids(left) \cup Calling \cup {next}
  OBVIOUS
<1>4. next \in Nat /\ (job.stage # "none" => job.id \in Nat) /\ Ids(left) \subseteq Nat
  BY SourcesTyped DEF IInv, Kinds, Jobs, NoJob
<1>5. later \in SUBSET Nat
  BY <1>3, <1>4 DEF Calling
<1>6. Painted' /\ Past(later)' /\ PaintedIds \cup GoneIds \cup Ids(srcs) \subseteq PaintedIds' \cup GoneIds'
  <2>1. DOMAIN srcs \subseteq Nat \ {0} /\ Ids(srcs) \subseteq Nat
    BY SourcesTyped
  <2>2. Past(Ids(srcs)) /\ Past(later)
    BY <1>3 DEF IInv, InOrder, Waiting, Past
  <2>3. Before(Ids(srcs), later)
    BY <1>3 DEF IInv, Line, Waiting, Before
  <2> QED
    BY <1>5, <2>1, <2>2, <2>3, Taken DEF IInv, InOrder
<1>7. Line'
  <2>1. Before(Ids(<<>>), Ids(left))
    BY NoneInEmpty DEF Before
  <2>2. Before(Ids(left), Calling) /\ Before(Ids(left) \cup Calling, {next})
    BY DEF IInv, Line, Waiting, Before
  <2>3. Before(Flushed \cup Ids(pend), Calling)' /\ Before(Waiting, {next})'
    BY <1>1, <1>2, <2>2 DEF Waiting, Before
  <2> QED
    BY <1>1, <2>1, <2>3, NoneInEmpty DEF IInv, Line
<1>8. InOrder'
  <2>1. Waiting' \subseteq later /\ {next}' \subseteq later
    BY <1>1, <1>2, <1>3 DEF Waiting
  <2> QED
    BY <1>6, <2>1 DEF InOrder, Past
<1>9. Accounted'
  <2>1. Waiting \subseteq Ids(srcs) \cup Waiting'
    BY <1>2 DEF Waiting
  <2> QED
    BY <1>1, <1>6, <2>1 DEF IInv, Accounted
<1>10. OwnInLine'
  <2>1. Equipped(<<>>)' /\ Equipped(left)'
    BY <1>1, NoneInEmpty DEF Equipped
  <2>2. Equipped(pend)' /\ Equipped(flush.prefix)' /\ Equipped(flush.rest)'
    BY <1>1, <2>1 DEF Equipped
  <2> QED
    BY <1>1, <2>2 DEF IInv, OwnInLine, KeyClash
<1>11. Armed'
  BY DEF Armed
<1> QED
  BY <1>7, <1>8, <1>9, <1>10, <1>11 DEF IInv

(* The flush only looks again, or divides what stands in it.                *)
LEMMA FlushMoves ==
  ASSUME IInv, flush.stage # "none", UNCHANGED Calm, live' = live, Kinds',
         canvas' = canvas, clock' = clock, gone' = gone,
         NEW first \in Seq(SourceSet), Sorted(first), Equipped(first),
         NEW left \in Seq(SourceSet), left # <<>>, Sorted(left), Equipped(left),
         Ids(first) \cup Ids(left) = Flushed, Before(Ids(first), Ids(left)),
         flush'.stage # "none", flush'.rest = left, flush'.prefix = first,
         flush'.stage # "prefix" => first = <<>>, flush'.was = flush.was, Armed'
  PROVE  IInv'
<1>1. /\ pend = <<>> /\ pend' = pend /\ job' = job
      /\ next' = next /\ bracket' = bracket /\ install' = install /\ batchKey' = batchKey
  BY DEF Calm, client, IInv, Line
<1>2. Flushed' = Flushed /\ Calling' = Calling /\ Ids(pend)' = Ids(pend)
  BY <1>1 DEF Flushed, Calling
<1>3. Waiting' = Waiting
  BY <1>2 DEF Waiting
<1>4. Line'
  <2>1. Before(Flushed \cup Ids(pend), Calling)' /\ Before(Waiting, {next})'
    BY <1>1, <1>2, <1>3 DEF IInv, Line, Before
  <2> QED
    BY <1>1, <2>1 DEF IInv, Line
<1>5. InOrder'
  <2>1. Painted'
    BY DEF IInv, InOrder, Painted, OrderKept, NoneRevived, PaintedIds
  <2>2. Past(Waiting)' /\ Past({next})'
    BY <1>1, <1>3 DEF IInv, InOrder, Past
  <2> QED
    BY <2>1, <2>2 DEF InOrder
<1>6. Accounted'
  BY <1>1, <1>3 DEF IInv, Accounted, PaintedIds, GoneIds
<1>7. OwnInLine'
  <2>1. Equipped(pend)' /\ Equipped(flush.prefix)' /\ Equipped(flush.rest)'
    BY <1>1 DEF IInv, OwnInLine, Equipped
  <2>2. OwnState'
    BY DEF IInv, OwnInLine, OwnState
  <2> QED
    BY <1>1, <2>1, <2>2 DEF IInv, OwnInLine, KeyClash
<1> QED
  BY <1>4, <1>5, <1>6, <1>7 DEF IInv

-----------------------------------------------------------------------------
(* What the steps of a flush find: sources in line, in their kinds.         *)
LEMMA FlushFinds ==
  ASSUME IInv, flush.stage # "none"
  PROVE  /\ flush \in Flushes /\ clock \in Nat /\ refused \in Nat /\ clipOff \in BOOLEAN
         /\ live \in {0, 1} /\ flush.was \in {0, 1}
         /\ flush.rest \in Seq(SourceSet) /\ flush.rest # <<>> /\ flush.prefix \in Seq(SourceSet)
         /\ Sorted(flush.rest) /\ Sorted(flush.prefix)
         /\ Equipped(flush.rest) /\ Equipped(flush.prefix) /\ OwnState
         /\ Before(Ids(flush.prefix), Ids(flush.rest))
         /\ Flushed = Ids(flush.prefix) \cup Ids(flush.rest)
         /\ flush.stage # "prefix" => flush.prefix = <<>> /\ Flushed = Ids(flush.rest)
<1>1. Kinds /\ Line /\ OwnInLine
  BY DEF IInv
<1>2. flush \in Flushes /\ flush.rest \in Seq(SourceSet) /\ flush.prefix \in Seq(SourceSet)
      /\ flush.was \in {0, 1}
  BY <1>1, FlushFields
<1>3. clock \in Nat /\ refused \in Nat /\ live \in {0, 1}
  BY <1>1 DEF Kinds
<1>4. clipOff \in BOOLEAN
  BY <1>1 DEF Kinds
<1>5. Flushed = Ids(flush.prefix) \cup Ids(flush.rest)
  BY DEF Flushed
<1> QED
  BY <1>1, <1>2, <1>3, <1>4, <1>5, NoneInEmpty DEF Line, OwnInLine

LEMMA CountRefusalTyped ==
  ASSUME refused \in Nat, NEW n \in Nat, CountRefusal(n)
  PROVE  (probe' = probe \/ probe' = Revoked(probe)) /\ refused' \in Nat
BY DEF CountRefusal, Counted

LEMMA ReplayTyped ==
  ASSUME clipOff \in BOOLEAN, NEW srcs, Replay(srcs)
  PROVE  clipOff' \in BOOLEAN
BY DEF Replay

LEMMA RescueTyped ==
  ASSUME clipOff \in BOOLEAN, NEW srcs, Rescue(srcs)
  PROVE  clipOff' \in BOOLEAN
BY ReplayTyped DEF Rescue

(* All that stands in a flush is handled at once, in one of five ways, and  *)
(* that is its end.                                                         *)
Handled(srcs) ==
  \/ Drawn(srcs)
  \/ Failed(srcs, <<>>) \/ WarpFailed(srcs)
  \/ Replay(srcs) /\ \E n \in {0, 1} : CountRefusal(n)
  \/ Rescue(srcs) /\ UNCHANGED <<probe, refused>>

LEMMA HandledTakes ==
  ASSUME clock \in Nat, refused \in Nat, clipOff \in BOOLEAN,
         NEW srcs \in Seq(SourceSet), Sorted(srcs), Equipped(srcs), OwnState, Handled(srcs)
  PROVE  /\ Takes(srcs) /\ OwnState' /\ clock' \in Nat
         /\ probe' = probe \/ probe' = Revoked(probe)
         /\ refused' \in Nat /\ clipOff' \in BOOLEAN
<1>1. CASE Drawn(srcs)
  <2>1. Takes(srcs) /\ OwnState'
    BY <1>1, DrawnTakes
  <2>2. probe' = probe /\ refused' = 0 /\ clipOff' = clipOff
    BY <1>1 DEF Drawn
  <2> QED
    BY <2>1, <2>2 DEF Takes
<1>2. CASE Failed(srcs, <<>>)
  <2>1. Takes(srcs) /\ canvas' = canvas
    <3>1. Ids(srcs) = Ids(srcs) \cup Ids(<<>>) /\ <<>> \in Seq(SourceSet)
      BY NoneInEmpty
    <3> QED
      BY <1>2, <3>1, FailedTakes
  <2>2. probe' = Revoked(probe) /\ refused' = refused /\ clipOff' = clipOff
    BY <1>2 DEF Failed
  <2> QED
    BY <2>1, <2>2 DEF Takes, OwnState
<1>5. CASE WarpFailed(srcs)
  <2>1. Takes(srcs) /\ canvas' = canvas
    BY <1>5, WarpFailedTakes
  <2>2. probe' = Revoked(probe) /\ refused' = refused /\ clipOff' = clipOff
    BY <1>5 DEF WarpFailed
  <2> QED
    BY <2>1, <2>2 DEF Takes, OwnState
<1>3. CASE Replay(srcs) /\ \E n \in {0, 1} : CountRefusal(n)
  <2>1. Takes(srcs) /\ OwnState'
    BY <1>3, ReplayTakes
  <2>2. (probe' = probe \/ probe' = Revoked(probe)) /\ refused' \in Nat
    BY <1>3, CountRefusalTyped
  <2>3. clipOff' \in BOOLEAN
    BY <1>3, ReplayTyped
  <2> QED
    BY <2>1, <2>2, <2>3 DEF Takes
<1>4. CASE Rescue(srcs) /\ UNCHANGED <<probe, refused>>
  <2>1. Takes(srcs) /\ OwnState'
    BY <1>4, RescueTakes
  <2>2. clipOff' \in BOOLEAN
    BY <1>4, RescueTyped
  <2> QED
    BY <1>4, <2>1, <2>2 DEF Takes
<1> QED
  BY <1>1, <1>2, <1>3, <1>4, <1>5 DEF Handled

LEMMA HandledAndOver ==
  ASSUME IInv, flush.stage # "none", EndFlush, UNCHANGED Calm,
         NEW srcs \in Seq(SourceSet), Sorted(srcs), Equipped(srcs), Ids(srcs) = Flushed,
         Handled(srcs)
  PROVE  IInv'
<1>1. /\ Takes(srcs) /\ OwnState' /\ clock' \in Nat
      /\ probe' = probe \/ probe' = Revoked(probe)
      /\ refused' \in Nat /\ clipOff' \in BOOLEAN
  BY FlushFinds, HandledTakes
<1>2. flush' \in Flushes \cup {NoFlush} /\ live' \in {0, 1}
  BY FlushFinds DEF EndFlush
<1>3. Kinds'
  BY <1>1, <1>2, FlushTyped DEF IInv
<1> QED
  BY <1>1, <1>3, FlushEnds

(* A list divided behind its k-th source.                                   *)
Stretch(part, rest, k) == \A i \in 1..Len(part) : part[i] = rest[i + k]

LEMMA Divided ==
  ASSUME NEW rest \in Seq(SourceSet), Sorted(rest), Equipped(rest), NEW k \in 0..Len(rest),
         NEW first \in Seq(SourceSet), NEW left \in Seq(SourceSet),
         Len(first) = k, Stretch(first, rest, 0),
         Len(left) = Len(rest) - k, Stretch(left, rest, k)
  PROVE  /\ Sorted(first) /\ Equipped(first) /\ Sorted(left) /\ Equipped(left)
         /\ Ids(first) \cup Ids(left) = Ids(rest) /\ Before(Ids(first), Ids(left))
<1>1. /\ Len(rest) \in Nat /\ DOMAIN rest = 1..Len(rest) /\ DOMAIN first = 1..k
      /\ DOMAIN left = 1..Len(rest) - k
  BY SourcesTyped
<1>2. \A i \in DOMAIN first : i \in DOMAIN rest /\ first[i] = rest[i]
  BY <1>1 DEF Stretch
<1>3. \A i \in DOMAIN left : i \in Nat /\ i + k \in DOMAIN rest /\ left[i] = rest[i + k]
  BY <1>1 DEF Stretch
<1>4. Equipped(first) /\ Equipped(left)
  BY <1>2, <1>3 DEF Equipped
<1>5. Sorted(first)
  BY <1>2 DEF Sorted
<1>6. Sorted(left)
  <2> SUFFICES ASSUME NEW i \in DOMAIN left, NEW j \in DOMAIN left, i < j
               PROVE  left[i].id < left[j].id
    BY DEF Sorted
  <2>1. i + k < j + k
    BY <1>3
  <2> QED
    BY <2>1, <1>3 DEF Sorted
<1>7. Ids(first) \cup Ids(left) = Ids(rest)
  <2>1. Ids(first) \cup Ids(left) \subseteq Ids(rest)
    BY <1>2, <1>3 DEF Ids
  <2>2. ASSUME NEW i \in DOMAIN rest
        PROVE  rest[i].id \in Ids(first) \cup Ids(left)
    <3>1. CASE i <= k
      <4>1. i \in DOMAIN first
        BY <3>1, <1>1
      <4> QED
        BY <4>1, <1>2 DEF Ids
    <3>2. CASE ~(i <= k)
      <4>1. i - k \in DOMAIN left /\ (i - k) + k = i
        BY <3>2, <1>1
      <4> QED
        BY <4>1, <1>3 DEF Ids
    <3> QED
      BY <3>1, <3>2
  <2> QED
    BY <2>1, <2>2 DEF Ids
<1>8. Before(Ids(first), Ids(left))
  <2>1. ASSUME NEW i \in DOMAIN first, NEW j \in DOMAIN left
        PROVE  first[i].id < left[j].id
    <3>1. i < j + k
      BY <1>1, <1>3
    <3> QED
      BY <3>1, <1>2, <1>3 DEF Sorted
  <2> QED
    BY <2>1 DEF Before, Ids
<1> QED
  BY <1>4, <1>5, <1>6, <1>7, <1>8

LEMMA InvFlushWarp ==
  ASSUME IInv, FlushWarp
  PROVE  IInv'
<1>1. flush.stage = "warp" /\ EndFlush /\ UNCHANGED Calm
  BY DEF FlushWarp, Flushing
<1>2. PICK srcs : srcs = flush.rest
  OBVIOUS
<1>3. Handled(srcs)
  BY <1>2 DEF FlushWarp, Handled
<1>4. srcs \in Seq(SourceSet) /\ Sorted(srcs) /\ Equipped(srcs) /\ Ids(srcs) = Flushed
  BY <1>1, <1>2, FlushFinds
<1> QED
  BY <1>1, <1>3, <1>4, HandledAndOver

LEMMA InvFlushSubmit ==
  ASSUME IInv, FlushDrawn \/ FlushFailed \/ FlushRefused
  PROVE  IInv'
<1>1. flush.stage = "submit" /\ EndFlush /\ UNCHANGED Calm
  BY DEF FlushDrawn, FlushFailed, FlushRefused, Flushing
<1>2. PICK srcs : srcs = flush.rest
  OBVIOUS
<1>3. Handled(srcs)
  BY <1>2 DEF FlushDrawn, FlushFailed, FlushRefused, Handled
<1>4. srcs \in Seq(SourceSet) /\ Sorted(srcs) /\ Equipped(srcs) /\ Ids(srcs) = Flushed
  BY <1>1, <1>2, FlushFinds
<1> QED
  BY <1>1, <1>3, <1>4, HandledAndOver

LEMMA InvFlushAsks ==
  ASSUME IInv, FlushAsks
  PROVE  IInv'
<1>1. flush.stage = "ask" /\ UNCHANGED Calm /\ UNCHANGED <<probe, refused>>
  BY DEF FlushAsks, Flushing, Calm, client
<1>2. PICK srcs : srcs = flush.rest
  OBVIOUS
<1>3. srcs \in Seq(SourceSet) /\ Sorted(srcs) /\ Equipped(srcs) /\ Ids(srcs) = Flushed
      /\ srcs # <<>> /\ flush.prefix = <<>>
  BY <1>1, <1>2, FlushFinds
<1>4. CASE Window
  <2>1. /\ flush' = [flush EXCEPT !.stage = "submit"]
        /\ UNCHANGED <<live, canvas, clock, gone, dropped, clipOff>>
    BY <1>4 DEF FlushAsks
  <2>2. flush \in Flushes
    BY <1>1, FlushFinds
  <2>3. /\ flush' \in Flushes /\ flush'.stage = "submit" /\ flush'.rest = srcs
        /\ flush'.prefix = <<>> /\ flush'.was = flush.was
    BY <2>1, <2>2, <1>2, <1>3 DEF Flushes
  <2>4. Kinds'
    <3>1. refused \in Nat /\ clipOff \in BOOLEAN /\ clock \in Nat /\ live \in {0, 1}
      BY <1>1, FlushFinds
    <3> QED
      BY <1>1, <2>1, <2>3, <3>1, FlushTyped DEF IInv
  <2>5. Armed'
    BY <1>1, <1>4 DEF Armed, Window
  <2>6. Ids(<<>>) \cup Ids(srcs) = Flushed /\ Before(Ids(<<>>), Ids(srcs)) /\ <<>> \in Seq(SourceSet)
    BY <1>3, NoneInEmpty DEF Before
  <2> QED
    BY <1>1, <1>3, <2>1, <2>3, <2>4, <2>5, <2>6, NoneInEmpty, FlushMoves
<1>5. CASE ~Window
  <2>1. Handled(srcs) /\ EndFlush
    BY <1>1, <1>2, <1>5 DEF FlushAsks, Handled
  <2> QED
    BY <1>1, <1>3, <2>1, HandledAndOver
<1> QED
  BY <1>4, <1>5

LEMMA InvFlushNamed ==
  ASSUME IInv, NEW t, NEW local \in BOOLEAN, NEW geometry \in BOOLEAN,
         FlushNamed(t, local, geometry)
  PROVE  IInv'
<1>1. flush.stage = "submit" /\ UNCHANGED Calm
      /\ UNCHANGED <<probe, live, refused, clipOff, canvas, clock, gone, dropped>>
  BY DEF FlushNamed, Flushing, Calm, client
<1>2. PICK rest : rest = flush.rest
  OBVIOUS
<1>3. rest \in Seq(SourceSet) /\ Sorted(rest) /\ Equipped(rest) /\ Ids(rest) = Flushed
      /\ flush \in Flushes
  BY <1>1, <1>2, FlushFinds
<1>4. PICK k \in 0..Len(rest) - 1 :
        flush' = [flush EXCEPT !.stage = "prefix",
                               !.rounds = IF @ < NarrowLimit THEN @ + 1 ELSE @,
                               !.local = local, !.geometry = geometry,
                               !.prefix = SubSeq(rest, 1, k),
                               !.rest = SubSeq(rest, k + 1, Len(rest))]
  BY <1>2 DEF FlushNamed
<1>5. PICK first : first = SubSeq(rest, 1, k)
  OBVIOUS
<1>6. PICK left : left = SubSeq(rest, k + 1, Len(rest))
  OBVIOUS
<1>7. Len(rest) \in Nat /\ \A i \in 1..Len(rest) : rest[i] \in SourceSet
  BY <1>3, SourcesTyped
<1>8. first \in Seq(SourceSet) /\ Len(first) = k /\ Stretch(first, rest, 0)
  <2>1. 1 \in Int /\ k \in Int /\ \A i \in 1..k : rest[i] \in SourceSet
    BY <1>7
  <2>2. /\ first \in Seq(SourceSet) /\ Len(first) = IF 1 <= k THEN k - 1 + 1 ELSE 0
        /\ \A i \in 1..k - 1 + 1 : first[i] = rest[1 + i - 1]
    BY <1>5, <2>1, SubSeqProperties
  <2> QED
    BY <1>7, <2>2 DEF Stretch
<1>9. left \in Seq(SourceSet) /\ Len(left) = Len(rest) - k /\ Stretch(left, rest, k)
  <2>1. k + 1 \in Int /\ Len(rest) \in Int /\ \A i \in k + 1..Len(rest) : rest[i] \in SourceSet
    BY <1>7
  <2>2. /\ left \in Seq(SourceSet)
        /\ Len(left) = IF k + 1 <= Len(rest) THEN Len(rest) - (k + 1) + 1 ELSE 0
        /\ \A i \in 1..Len(rest) - (k + 1) + 1 : left[i] = rest[(k + 1) + i - 1]
    BY <1>6, <2>1, SubSeqProperties
  <2>3. Len(rest) - (k + 1) + 1 = Len(rest) - k /\ k + 1 <= Len(rest)
    BY <1>7
  <2>4. \A i \in 1..Len(rest) - k : (k + 1) + i - 1 = i + k
    BY <1>7
  <2> QED
    BY <2>2, <2>3, <2>4 DEF Stretch
<1>10. left # <<>>
  BY <1>7, <1>9
<1>11. /\ Sorted(first) /\ Equipped(first) /\ Sorted(left) /\ Equipped(left)
       /\ Ids(first) \cup Ids(left) = Flushed /\ Before(Ids(first), Ids(left))
  <2>1. k \in 0..Len(rest)
    BY <1>7
  <2>2. /\ Sorted(first) /\ Equipped(first) /\ Sorted(left) /\ Equipped(left)
        /\ Ids(first) \cup Ids(left) = Ids(rest) /\ Before(Ids(first), Ids(left))
    BY <2>1, <1>3, <1>8, <1>9, Divided
  <2> QED
    BY <2>2, <1>3
<1>12. /\ flush' \in Flushes /\ flush'.stage = "prefix" /\ flush'.rest = left
       /\ flush'.prefix = first /\ flush'.was = flush.was
  <2>1. flush.rounds \in 0..NarrowLimit
    BY <1>3 DEF Flushes
  <2> DEFINE rounds == IF flush.rounds < NarrowLimit THEN flush.rounds + 1 ELSE flush.rounds
  <2>2. rounds \in 0..NarrowLimit
    BY <2>1, LimitsAssumption
  <2>3. flush' = [flush EXCEPT !.stage = "prefix", !.rounds = rounds, !.local = local,
                               !.geometry = geometry, !.prefix = first, !.rest = left]
    BY <1>3, <1>4, <1>5, <1>6 DEF Flushes
  <2> HIDE DEF rounds
  <2> QED
    BY <1>3, <1>8, <1>9, <2>2, <2>3 DEF Flushes
<1>13. Kinds'
  <2>1. refused \in Nat /\ clipOff \in BOOLEAN /\ clock \in Nat /\ live \in {0, 1}
    BY <1>1, FlushFinds
  <2> QED
    BY <1>1, <1>12, <2>1, FlushTyped DEF IInv
<1>14. Armed'
  BY <1>12 DEF Armed
<1> QED
  BY <1>1, <1>8, <1>9, <1>10, <1>11, <1>12, <1>13, <1>14, FlushMoves

LEMMA InvFlushPrefix ==
  ASSUME IInv, FlushPrefix
  PROVE  IInv'
<1>1. flush.stage = "prefix" /\ UNCHANGED Calm
  BY DEF FlushPrefix, Flushing
<1>2. PICK first : first = flush.prefix
  OBVIOUS
<1>3. PICK rest : rest = flush.rest
  OBVIOUS
<1>4. /\ flush \in Flushes /\ clock \in Nat /\ refused \in Nat /\ clipOff \in BOOLEAN
      /\ live \in {0, 1} /\ OwnState
      /\ rest \in Seq(SourceSet) /\ rest # <<>> /\ Sorted(rest) /\ Equipped(rest)
      /\ first \in Seq(SourceSet) /\ Sorted(first) /\ Equipped(first)
      /\ Before(Ids(first), Ids(rest)) /\ Ids(first) \cup Ids(rest) = Flushed
  BY <1>1, <1>2, <1>3, FlushFinds
<1>5. PICK all : all = first \o rest
  OBVIOUS
<1>6. all \in Seq(SourceSet) /\ Sorted(all) /\ Equipped(all) /\ Ids(all) = Flushed
  BY <1>4, <1>5, Joined
<1>7. ASSUME ToNamed
      PROVE  /\ flush' \in Flushes /\ flush'.stage = "named" /\ flush'.rest = rest
             /\ flush'.prefix = <<>> /\ flush'.was = flush.was /\ live' = live
  <2>1. flush' = [flush EXCEPT !.stage = "named", !.prefix = <<>>] /\ live' = live
    BY <1>7 DEF ToNamed
  <2>2. <<>> \in Seq(SourceSet)
    OBVIOUS
  <2> QED
    BY <1>3, <1>4, <2>1, <2>2 DEF Flushes
<1>8. CASE first = <<>>
  <2>1. ToNamed /\ UNCHANGED <<probe, refused, clipOff, canvas, clock, gone, dropped>>
    BY <1>2, <1>8 DEF FlushPrefix
  <2>2. Kinds'
    BY <1>1, <1>4, <1>7, <2>1, FlushTyped DEF IInv
  <2>3. Armed'
    BY <1>7, <2>1 DEF Armed
  <2> QED
    BY <1>1, <1>4, <1>7, <1>8, <2>1, <2>2, <2>3, FlushMoves
<1>9. CASE first # <<>> /\ ToNamed /\ (Drawn(first) \/ (Replay(first) /\ \E n \in {0, 1} : CountRefusal(n)))
  <2>1. Handled(first)
    BY <1>9 DEF Handled
  <2>2. /\ Takes(first) /\ OwnState' /\ clock' \in Nat
        /\ probe' = probe \/ probe' = Revoked(probe)
        /\ refused' \in Nat /\ clipOff' \in BOOLEAN
    BY <1>4, <2>1, HandledTakes
  <2>3. Kinds'
    BY <1>1, <1>4, <1>7, <1>9, <2>2, FlushTyped DEF IInv
  <2> QED
    BY <1>1, <1>4, <1>7, <1>9, <2>2, <2>3, FlushGoesOn
<1>10. CASE EndFlush /\ Failed(first, rest)
  <2>1. Takes(all) /\ canvas' = canvas /\ clock' = clock
    <3>1. Ids(all) = Ids(first) \cup Ids(rest)
      BY <1>4, <1>6
    <3> QED
      BY <1>4, <1>6, <1>10, <3>1, FailedTakes DEF Failed
  <2>2. OwnState' /\ probe' = Revoked(probe) /\ refused' = refused /\ clipOff' = clipOff
    BY <1>4, <1>10, <2>1 DEF Failed, OwnState
  <2>3. flush' \in Flushes \cup {NoFlush} /\ live' \in {0, 1}
    BY <1>1, <1>10, FlushFinds DEF EndFlush
  <2>4. Kinds'
    BY <1>1, <1>4, <2>1, <2>2, <2>3, FlushTyped DEF IInv
  <2> QED
    BY <1>1, <1>6, <1>10, <2>1, <2>2, <2>4, FlushEnds
<1>11. CASE EndFlush /\ Rescue(all) /\ UNCHANGED <<probe, refused>>
  <2>1. Handled(all)
    BY <1>11 DEF Handled
  <2> QED
    BY <1>1, <1>6, <1>11, <2>1, HandledAndOver
<1>12. ASSUME first # <<>>
       PROVE  \/ ToNamed /\ (Drawn(first) \/ (Replay(first) /\ \E n \in {0, 1} : CountRefusal(n)))
              \/ EndFlush /\ Failed(first, rest)
              \/ EndFlush /\ Rescue(all) /\ UNCHANGED <<probe, refused>>
  <2>1. CASE Window
    BY <1>2, <1>3, <1>12, <2>1 DEF FlushPrefix
  <2>2. CASE ~Window
    BY <1>2, <1>3, <1>5, <1>12, <2>2 DEF FlushPrefix
  <2> QED
    BY <2>1, <2>2
<1> QED
  BY <1>8, <1>9, <1>10, <1>11, <1>12

(* The named source alone.                                                  *)
LEMMA HeadAndTail ==
  ASSUME NEW rest \in Seq(SourceSet), rest # <<>>, Sorted(rest), Equipped(rest),
         NEW first, first = <<rest[1]>>, NEW left, left = Tail(rest)
  PROVE  /\ first \in Seq(SourceSet) /\ left \in Seq(SourceSet)
         /\ Sorted(first) /\ Equipped(first) /\ Sorted(left) /\ Equipped(left)
         /\ Ids(first) \cup Ids(left) = Ids(rest) /\ Before(Ids(first), Ids(left))
         /\ Len(rest) = 1 <=> left = <<>>
<1>1. /\ Len(rest) \in Nat /\ DOMAIN rest = 1..Len(rest)
      /\ \A i \in DOMAIN rest : rest[i] \in SourceSet
  BY SourcesTyped
<1>2. PICK k : k = 1
  OBVIOUS
<1>7. k \in 0..Len(rest) /\ 1 \in DOMAIN rest
  BY <1>1, <1>2
<1>3. first \in Seq(SourceSet) /\ Len(first) = 1 /\ first[1] = rest[1]
  BY <1>1, <1>7
<1>4. left \in Seq(SourceSet) /\ Len(left) = Len(rest) - 1 /\ \A i \in 1..Len(left) : left[i] = rest[i + 1]
  BY HeadTailProperties
<1>5. /\ Len(first) = k /\ Stretch(first, rest, 0)
      /\ Len(left) = Len(rest) - k /\ Stretch(left, rest, k)
  BY <1>2, <1>3, <1>4 DEF Stretch
<1>6. Len(rest) = 1 <=> left = <<>>
  BY <1>1, <1>4
<1> QED
  <2>1. /\ Sorted(first) /\ Equipped(first) /\ Sorted(left) /\ Equipped(left)
        /\ Ids(first) \cup Ids(left) = Ids(rest) /\ Before(Ids(first), Ids(left))
    <3>1. rest \in Seq(SourceSet) /\ Sorted(rest) /\ Equipped(rest)
      OBVIOUS
    <3> QED
      BY ONLY <3>1, <1>3, <1>4, <1>5, <1>7, Divided
  <2> QED
    BY <1>3, <1>4, <1>6, <2>1

LEMMA InvFlushSource ==
  ASSUME IInv, FlushSource
  PROVE  IInv'
<1>1. flush.stage = "named" /\ UNCHANGED Calm
  BY DEF FlushSource, Flushing
<1>2. PICK rest : rest = flush.rest
  OBVIOUS
<1>3. PICK first : first = <<rest[1]>>
  OBVIOUS
<1>4. PICK left : left = Tail(rest)
  OBVIOUS
<1>5. /\ flush \in Flushes /\ clock \in Nat /\ refused \in Nat /\ clipOff \in BOOLEAN
      /\ live \in {0, 1} /\ OwnState /\ Ids(rest) = Flushed
      /\ rest \in Seq(SourceSet) /\ rest # <<>> /\ Sorted(rest) /\ Equipped(rest)
  BY <1>1, <1>2, FlushFinds
<1>6. /\ first \in Seq(SourceSet) /\ left \in Seq(SourceSet)
      /\ Sorted(first) /\ Equipped(first) /\ Sorted(left) /\ Equipped(left)
      /\ Ids(first) \cup Ids(left) = Flushed /\ Before(Ids(first), Ids(left))
      /\ Len(rest) = 1 <=> left = <<>>
  BY <1>3, <1>4, <1>5, HeadAndTail
<1>7. Handled(first)
  <2>1. NamedCount \in {0, 1}
    BY DEF NamedCount
  <2> QED
    BY <1>2, <1>3, <2>1 DEF FlushSource, Handled
<1>8. CASE Len(rest) = 1
  <2>1. EndFlush
    BY <1>2, <1>8 DEF FlushSource
  <2>2. Ids(first) = Flushed
    BY <1>6, <1>8, NoneInEmpty
  <2> QED
    BY <1>1, <1>6, <1>7, <2>1, <2>2, HandledAndOver
<1>9. CASE Len(rest) # 1
  <2>1. flush' = [flush EXCEPT !.stage = "ask", !.rest = left] /\ live' = live
    BY <1>2, <1>4, <1>5, <1>9 DEF FlushSource, Flushes
  <2>2. flush.prefix = <<>>
    BY <1>1, FlushFinds
  <2>3. /\ flush' \in Flushes /\ flush'.stage = "ask" /\ flush'.rest = left
        /\ flush'.prefix = <<>> /\ flush'.was = flush.was
    BY <1>5, <1>6, <2>1, <2>2 DEF Flushes
  <2>4. /\ Takes(first) /\ OwnState' /\ clock' \in Nat
        /\ probe' = probe \/ probe' = Revoked(probe)
        /\ refused' \in Nat /\ clipOff' \in BOOLEAN
    BY <1>5, <1>6, <1>7, HandledTakes
  <2>5. Kinds'
    BY <1>1, <1>5, <2>1, <2>3, <2>4, FlushTyped DEF IInv
  <2> QED
    BY <1>1, <1>6, <1>9, <2>1, <2>3, <2>4, <2>5, FlushGoesOn
<1> QED
  BY <1>8, <1>9

LEMMA InvFlushStep ==
  ASSUME IInv, FlushStep
  PROVE  IInv'
<1>1. CASE FlushDrawn \/ FlushFailed \/ FlushRefused
  BY <1>1, InvFlushSubmit
<1>2. CASE \E local, geometry \in BOOLEAN :
             \E t \in 1..(IF flush = NoFlush THEN 0 ELSE TrapCount(flush.rest)) :
               FlushNamed(t, local, geometry)
  BY <1>2, InvFlushNamed
<1> QED
  BY <1>1, <1>2, InvFlushWarp, InvFlushPrefix, InvFlushSource, InvFlushAsks DEF FlushStep

-----------------------------------------------------------------------------
(* Between the triangles.                                                   *)
LEMMA Rests ==
  ASSUME Line, InOrder, OwnInLine,
         UNCHANGED <<pend, job, flush, batchKey, live, canvas, clock, gone, dropped, next>>
  PROVE  Line' /\ InOrder' /\ OwnInLine' /\ Waiting' = Waiting
<1>1. Flushed' = Flushed /\ Calling' = Calling /\ Ids(pend)' = Ids(pend)
  BY DEF Flushed, Calling
<1>2. Waiting' = Waiting
  BY <1>1 DEF Waiting
<1>3. Line'
  BY <1>1, <1>2 DEF Line, Before
<1>4. InOrder'
  <2>1. Painted'
    BY DEF InOrder, Painted, OrderKept, NoneRevived, PaintedIds
  <2>2. Past(Waiting)' /\ Past({next})'
    BY <1>2 DEF InOrder, Past
  <2> QED
    BY <2>1, <2>2 DEF InOrder
<1>5. OwnInLine'
  BY DEF OwnInLine, OwnState, Equipped, KeyClash
<1> QED
  BY <1>2, <1>3, <1>4, <1>5

LEMMA ProbeTyped ==
  ASSUME Kinds
  PROVE  probe \in ProbeType /\ ProbeRun(probe) \in ProbeType
<1>1. probe \in ProbeType /\ device \in Answers /\ proc \in 0..(MaxForks + 1)
  BY LimitsAssumption DEF Kinds, ProbeType
<1>2. Verdict \in Answers
  BY <1>1 DEF Verdict, Answers
<1>3. \A p \in ProbeType : Performed(p) \in ProbeType
  BY <1>1, <1>2 DEF Performed, ProbeType
<1>4. [probe EXCEPT !.win = FALSE, !.fd = FALSE, !.done = FALSE] \in ProbeType
  BY <1>1 DEF ProbeType
<1> QED
  BY <1>1, <1>3, <1>4 DEF ProbeRun

LEMMA InvUpdate ==
  ASSUME IInv, Update
  PROVE  IInv'
<1>1. PICK gate \in BOOLEAN, fits \in BOOLEAN, mapped \in BOOLEAN, soft \in BOOLEAN :
        UpdateState(gate, fits, mapped, soft)
  BY DEF Update
<1>2. /\ job = NoJob /\ flush = NoFlush /\ pend = <<>> /\ updates < MaxUpdates
      /\ updates' = updates + 1 /\ install' \in {"none", "gated", "hard"}
      /\ UNCHANGED <<device, warpTier, proc, next, forks, bracket, live, pend, mode,
                     batchKey, job, flush, refused, clipOff, canvas, clock, gone, dropped, fault>>
  <2>1. job = NoJob /\ flush = NoFlush /\ ~bracket /\ updates < MaxUpdates /\ updates' = updates + 1
    BY <1>1 DEF UpdateState, Idle
  <2>2. install' \in {"none", "gated", "hard"}
    BY <1>1 DEF UpdateState
  <2>3. UNCHANGED <<device, warpTier, proc, next, forks, bracket, live, pend, mode,
                    batchKey, job, flush, refused, clipOff, canvas, clock, gone, dropped, fault>>
    BY <1>1 DEF UpdateState
  <2> QED
    BY <2>1, <2>2, <2>3 DEF IInv, Accounted
<1>3. probe' \in ProbeType
  <2>1. ProbeRun(probe) \in ProbeType /\ probe \in ProbeType
    BY ProbeTyped DEF IInv
  <2>2. \A p \in ProbeType : [p EXCEPT !.win = @ \/ (mapped /\ p.fd)] \in ProbeType
    BY DEF ProbeType
  <2>3. \/ probe' = probe \/ probe' = ProbeRun(probe)
        \/ probe' = [ProbeRun(probe) EXCEPT !.win = @ \/ (mapped /\ ProbeRun(probe).fd)]
    BY <1>1 DEF UpdateState
  <2> QED
    BY <2>1, <2>2, <2>3
<1>4. bound' \in BOOLEAN /\ saved' \in BOOLEAN
  BY <1>1 DEF UpdateState, IInv, Kinds
<1>5. Kinds'
  <2>1. updates' \in 0..MaxUpdates
    BY <1>2, LimitsAssumption DEF IInv, Kinds
  <2>2. Kinds
    BY DEF IInv
  <2> QED
    BY <1>2, <1>3, <1>4, <2>1, <2>2 DEF Kinds, ProbeType
<1>6. Line' /\ InOrder' /\ OwnInLine' /\ Waiting' = Waiting
  BY <1>2, Rests DEF IInv
<1>7. Accounted'
  BY <1>2, <1>6 DEF IInv, Accounted, PaintedIds, GoneIds
<1>8. Armed'
  BY <1>2 DEF Armed, NoFlush
<1> QED
  BY <1>5, <1>6, <1>7, <1>8 DEF IInv

LEMMA InvBetween ==
  ASSUME IInv, Fork \/ RenderStart \/ UNCHANGED vars
  PROVE  IInv'
<1>1. UNCHANGED <<probe, device, warpTier, bound, install, saved, live, pend, mode,
                  batchKey, job, flush, refused, clipOff, canvas, clock, gone, dropped, fault, next, updates>>
  BY DEF Fork, RenderStart, vars, client
<1>2. /\ forks' \in 0..MaxForks /\ proc' = forks' + 1 /\ bracket' \in BOOLEAN
      /\ bracket' = bracket \/ (pend = <<>> /\ job = NoJob /\ bracket' = TRUE)
  <2>1. CASE Fork
    BY <2>1, LimitsAssumption DEF Fork, IInv, Kinds
  <2>2. CASE RenderStart
    BY <2>2 DEF RenderStart, client, Idle, IInv, Kinds, Accounted
  <2>3. CASE UNCHANGED vars
    BY <2>3 DEF vars, IInv, Kinds
  <2> QED
    BY <2>1, <2>2, <2>3
<1>3. Kinds'
  BY <1>1, <1>2 DEF IInv, Kinds
<1>4. Line' /\ InOrder' /\ OwnInLine' /\ Waiting' = Waiting
  BY <1>1, Rests DEF IInv
<1>5. Accounted'
  BY <1>1, <1>2, <1>4 DEF IInv, Accounted, PaintedIds, GoneIds
<1>6. Armed'
  BY <1>1 DEF IInv, Armed, Window
<1> QED
  BY <1>3, <1>4, <1>5, <1>6 DEF IInv

-----------------------------------------------------------------------------
(* Inside a triangle call.                                                  *)
Client == <<device, warpTier, bound, install, saved, proc, updates, forks, refused, clipOff>>

LEMMA CallTyped ==
  ASSUME Kinds, UNCHANGED Client, probe' \in ProbeType, live' \in {0, 1}, bracket' \in BOOLEAN,
         next' \in 1..(MaxSource + 1), clock' \in Nat, fault' \in BOOLEAN, mode' \in {"none", "warp"},
         batchKey' \in Key, pend' \in Seq(SourceSet), Len(pend') <= BatchLimit,
         flush' \in Flushes \cup {NoFlush}, job' \in Jobs \cup {NoJob}
  PROVE  Kinds'
BY DEF Kinds, Client, ProbeType

(* The call goes on, or the bracket ends, and what is pending may be shipped *)
(* on the way: nobody leaves the line.                                      *)
Onward ==
  \/ job' = job
  \/ /\ job.stage \notin {"none", "clip"}
     /\ \E stage \in {"warp", "trap", "join", "check", "append", "soft"} :
          job' = [job EXCEPT !.stage = stage]
Ships == StartFlush \/ UNCHANGED <<flush, pend, mode>>
Joins == job'.stage \in {"check", "append"} /\ pend' # <<>> =>
           ~KeyClash(job.shape.key) /\ Len(pend) < BatchLimit

LEMMA ShipsTyped ==
  ASSUME IInv, flush = NoFlush, Ships
  PROVE  /\ pend' \in Seq(SourceSet) /\ Len(pend') <= BatchLimit /\ mode' \in {"none", "warp"}
         /\ flush' \in Flushes \cup {NoFlush}
         /\ \/ flush' = flush /\ pend' = pend
            \/ /\ flush'.stage \in {"warp", "ask"} /\ pend' = <<>> /\ pend # <<>>
               /\ flush'.rest = pend /\ flush'.prefix = <<>> /\ flush'.was = live
<1>1. /\ pend \in Seq(SourceSet) /\ Len(pend) <= BatchLimit /\ mode \in {"none", "warp"}
      /\ live \in {0, 1}
  BY DEF IInv, Kinds
<1>2. CASE UNCHANGED <<flush, pend, mode>>
  BY <1>1, <1>2
<1>3. CASE pend # <<>> /\ StartFlush
  <2> DEFINE stage == IF mode = "warp" THEN "warp" ELSE "ask"
  <2>1. /\ flush' = [stage |-> stage, rest |-> pend, prefix |-> <<>>, local |-> FALSE,
                     geometry |-> FALSE, rounds |-> 0, was |-> live]
        /\ pend' = <<>> /\ mode' = "none"
    BY <1>3 DEF StartFlush
  <2>2. stage \in {"warp", "ask"}
    OBVIOUS
  <2> HIDE DEF stage
  <2>3. <<>> \in Seq(SourceSet) /\ 0 \in 0..NarrowLimit /\ Len(<<>>) <= BatchLimit
    BY LimitsAssumption
  <2>4. flush' \in Flushes
    BY <1>1, <2>1, <2>2, <2>3 DEF Flushes
  <2> QED
    BY <1>3, <2>1, <2>2, <2>3, <2>4
<1> QED
  BY <1>2, <1>3 DEF Ships, StartFlush

LEMMA GoesOn ==
  ASSUME IInv, flush = NoFlush, Onward, Ships, Joins, UNCHANGED Client,
         UNCHANGED <<probe, live, batchKey, canvas, clock, gone, dropped, next>>,
         fault' \in BOOLEAN, bracket' \in BOOLEAN,
         ~bracket' => pend' = <<>> /\ job' = NoJob
  PROVE  IInv'
<1>1. /\ pend' \in Seq(SourceSet) /\ Len(pend') <= BatchLimit /\ mode' \in {"none", "warp"}
      /\ flush' \in Flushes \cup {NoFlush}
      /\ \/ flush' = flush /\ pend' = pend
         \/ /\ flush'.stage \in {"warp", "ask"} /\ pend' = <<>> /\ pend # <<>>
            /\ flush'.rest = pend /\ flush'.prefix = <<>> /\ flush'.was = live
  BY ShipsTyped
<1>2. job' \in Jobs \cup {NoJob}
  <2>1. job \in Jobs \cup {NoJob}
    BY DEF IInv, Kinds
  <2>2. ASSUME job.stage # "none",
               NEW stage \in {"warp", "trap", "join", "check", "append", "soft"},
               job' = [job EXCEPT !.stage = stage]
        PROVE  job' \in Jobs
    BY <2>1, <2>2 DEF Jobs, NoJob
  <2> QED
    BY <2>1, <2>2 DEF Onward
<1>3. /\ job'.stage = "none" <=> job.stage = "none"
      /\ job'.stage = "clip" <=> job.stage = "clip"
      /\ job.stage # "none" => job'.id = job.id /\ job'.shape = job.shape
      /\ job.stage = "none" => job' = job
  <2>1. job \in Jobs \cup {NoJob}
    BY DEF IInv, Kinds
  <2>2. ASSUME job.stage \notin {"none", "clip"},
               NEW stage \in {"warp", "trap", "join", "check", "append", "soft"},
               job' = [job EXCEPT !.stage = stage]
        PROVE  job'.stage = stage /\ job'.id = job.id /\ job'.shape = job.shape
    BY <2>1, <2>2 DEF Jobs, NoJob
  <2> QED
    BY <2>2 DEF Onward
<1>4. Calling' = Calling
  BY <1>3 DEF Calling
<1>5. Flushed = {} /\ Flushed' \cup Ids(pend)' = Ids(pend)
  BY <1>1, NoneInEmpty DEF Flushed, NoFlush
<1>6. Waiting' = Waiting
  BY <1>4, <1>5 DEF Waiting
<1>7. Line'
  <2>1. Sorted(pend) /\ Sorted(pend)'
    BY <1>1, NoneInEmpty DEF IInv, Line
  <2>2. flush'.stage # "none" =>
          /\ pend' = <<>> /\ flush'.rest # <<>>
          /\ Sorted(flush'.prefix) /\ Sorted(flush'.rest)
          /\ Before(Ids(flush'.prefix), Ids(flush'.rest)) /\ flush'.prefix = <<>>
    BY <1>1, <2>1, NoneInEmpty DEF NoFlush, Before
  <2>3. job'.stage # "none" => job'.id = next' - 1
    BY <1>3 DEF IInv, Line
  <2>4. Before(Flushed \cup Ids(pend), Calling)' /\ Before(Waiting, {next})'
    <3>1. Before(Ids(pend), Calling) /\ Before(Waiting, {next})
      BY <1>5 DEF IInv, Line
    <3> QED
      BY <3>1, <1>4, <1>5, <1>6 DEF Before
  <2> QED
    BY <2>1, <2>2, <2>3, <2>4 DEF Line
<1>8. InOrder'
  <2>1. Painted'
    BY DEF IInv, InOrder, Painted, OrderKept, NoneRevived, PaintedIds
  <2>2. Past(Waiting)' /\ Past({next})'
    BY <1>6 DEF IInv, InOrder, Past
  <2> QED
    BY <2>1, <2>2 DEF InOrder
<1>9. OwnInLine'
  <2>1. OwnState' /\ Equipped(pend) /\ (job.stage # "none" => job.shape.facing = live)
    BY DEF IInv, OwnInLine, OwnState, NoFlush
  <2>2. Equipped(pend)' /\ (flush'.stage # "none" => Equipped(flush.prefix)' /\ Equipped(flush.rest)')
    BY <1>1, <2>1, NoneInEmpty DEF Equipped, NoFlush
  <2>3. job'.stage # "none" =>
          job'.shape.facing = IF flush'.stage = "none" THEN live' ELSE flush'.was
    BY <1>1, <1>3, <2>1 DEF NoFlush
  <2>4. (job'.stage \in {"check", "append"} /\ pend' # <<>>) =>
          ~KeyClash(job.shape.key) /\ Len(pend) < BatchLimit /\ pend' = pend /\ job'.shape = job.shape
    BY <1>1, <1>3 DEF Joins
  <2>5. (job'.stage \in {"check", "append"} /\ pend' # <<>>) =>
          (~KeyClash(job.shape.key))' /\ Len(pend') < BatchLimit
    BY <2>4 DEF KeyClash
  <2> QED
    BY <2>1, <2>2, <2>3, <2>5 DEF OwnInLine
<1>10. Accounted'
  <2>1. install' # "hard" => pend' = <<>> /\ job' = NoJob
    BY <1>1, <1>3 DEF Client, IInv, Accounted, NoJob
  <2> QED
    BY <1>6, <2>1 DEF IInv, Accounted, PaintedIds, GoneIds
<1>11. Armed'
  BY <1>1 DEF Armed, NoFlush
<1>12. Kinds'
  <2>1. /\ Kinds /\ probe' \in ProbeType /\ live' \in {0, 1} /\ next' \in 1..(MaxSource + 1)
        /\ clock' \in Nat /\ batchKey' \in Key
    BY DEF IInv, Kinds, ProbeType
  <2> QED
    BY <1>1, <1>2, <2>1, CallTyped
<1> QED
  BY <1>7, <1>8, <1>9, <1>10, <1>11, <1>12 DEF IInv

LEMMA InvShips ==
  ASSUME IInv,
         \/ TextureAbsent \/ TextureResident \/ TextureUploaded
         \/ WarpDeclines \/ WarpFlushes \/ Join \/ JoinChecked
  PROVE  IInv'
<1>1. /\ flush = NoFlush /\ job.stage \in {"texture", "warp", "join", "check"}
      /\ UNCHANGED Busy /\ UNCHANGED <<live, batchKey, canvas, clock, gone, dropped, fault>>
  BY DEF TextureAbsent, TextureResident, TextureUploaded, WarpDeclines, WarpFlushes, Join,
         JoinChecked, At
<1>2. Ships
  BY DEF TextureAbsent, TextureResident, TextureUploaded, WarpDeclines, WarpFlushes, Join,
         JoinChecked, Ships
<1>3. Onward
  BY <1>1 DEF TextureAbsent, TextureResident, TextureUploaded, WarpDeclines, WarpFlushes, Join,
         JoinChecked, Onward, Goto
<1>4. Joins
  <2>1. CASE Join
    <3>1. CASE pend = <<>> \/ Apart
      BY <2>1, <3>1 DEF Join, Joins, StartFlush
    <3>2. CASE ~Apart
      <4>1. Len(pend) \in Nat
        BY DEF IInv, Kinds
      <4> QED
        BY <3>2, <4>1, LimitsAssumption DEF Joins, Apart
    <3> QED
      BY <3>1, <3>2
  <2>2. CASE JoinChecked
    BY <2>2 DEF JoinChecked, At, Joins, IInv, OwnInLine
  <2>3. job \in Jobs \cup {NoJob}
    BY DEF IInv, Kinds
  <2>4. CASE TextureAbsent \/ TextureResident \/ TextureUploaded \/ WarpDeclines
    <3>1. \E stage \in {"soft", "warp", "trap"} : job' = [job EXCEPT !.stage = stage]
      BY <2>4 DEF TextureAbsent, TextureResident, TextureUploaded, WarpDeclines, Goto
    <3> QED
      BY <1>1, <2>3, <3>1 DEF Joins, Jobs, NoJob
  <2>5. CASE WarpFlushes
    BY <1>1, <2>5 DEF WarpFlushes, At, Joins
  <2> QED
    BY <2>1, <2>2, <2>4, <2>5
<1>5. /\ UNCHANGED Client /\ UNCHANGED <<probe, live, batchKey, canvas, clock, gone, dropped, next>>
      /\ fault' \in BOOLEAN /\ bracket' \in BOOLEAN /\ bracket' = bracket
  BY <1>1 DEF Busy, client, Client, IInv, Kinds
<1>6. bracket
  BY <1>1 DEF IInv, Accounted, NoJob
<1> QED
  BY <1>1, <1>2, <1>3, <1>4, <1>5, <1>6, GoesOn

LEMMA InvRenderFinish ==
  ASSUME IInv, RenderFinish
  PROVE  IInv'
<1>1. /\ job = NoJob /\ flush = NoFlush /\ job' = job /\ bracket' = FALSE /\ StartFlush
      /\ UNCHANGED Client /\ UNCHANGED <<probe, live, batchKey, canvas, clock, gone, dropped, next>>
      /\ fault' \in BOOLEAN
  BY DEF RenderFinish, Idle, client, Client, IInv, Kinds
<1>2. pend' = <<>>
  BY <1>1 DEF StartFlush
<1>3. Onward /\ Ships /\ Joins
  BY <1>1 DEF Onward, Ships, Joins, NoJob
<1> QED
  BY <1>1, <1>2, <1>3, GoesOn

(* The call returns without a stroke; its triangle has gone, if it still    *)
(* had to be drawn.                                                         *)
LEMMA Returns ==
  ASSUME IInv, flush = NoFlush, job # NoJob, job' = NoJob, live' = 0, UNCHANGED Client,
         UNCHANGED <<bracket, batchKey, canvas, clock, next, fault, pend, mode, flush>>,
         probe' = probe \/ probe' = Revoked(probe),
         \/ job.stage = "clip" /\ gone' = gone
         \/ \E why \in {"no_area", "no_rasteriser"} : gone' = gone \cup {[id |-> job.id, why |-> why]}
  PROVE  IInv'
<1>1. /\ Kinds /\ Line /\ InOrder /\ Accounted /\ OwnInLine
  BY DEF IInv
<1>2. job \in Jobs /\ job.stage # "none" /\ job.id \in Nat
  BY DEF IInv, Kinds, Jobs, NoJob
<1>3. Kinds'
  <2>1. /\ probe' \in ProbeType /\ live' \in {0, 1} /\ next' \in 1..(MaxSource + 1)
        /\ clock' \in Nat /\ batchKey' \in Key /\ mode' \in {"none", "warp"}
        /\ pend' \in Seq(SourceSet) /\ Len(pend') <= BatchLimit
        /\ flush' \in Flushes \cup {NoFlush} /\ job' \in Jobs \cup {NoJob}
    BY <1>1, RevokedTyped DEF Kinds, ProbeType
  <2>2. fault' \in BOOLEAN /\ bracket' \in BOOLEAN
    BY <1>1 DEF Kinds
  <2> QED
    BY <1>1, <2>1, <2>2, CallTyped
<1>4. flush'.stage = "none" /\ job'.stage = "none" /\ Flushed = {} /\ Flushed' = {} /\ Calling' = {}
  BY DEF NoFlush, NoJob, Flushed, Calling
<1>5. Waiting' = Ids(pend) /\ Waiting = Ids(pend) \cup Calling
  BY <1>4 DEF Waiting
<1>6. \A g \in gone' \ gone : g.id \in Nat /\ ~GivenUp(g)
  BY <1>2 DEF GivenUp, Counts, Silent
<1>7. gone \subseteq gone' /\ (job.stage # "clip" => \E g \in gone' : g.id = job.id)
  <2>1. ASSUME NEW why, gone' = gone \cup {[id |-> job.id, why |-> why]}
        PROVE  [id |-> job.id, why |-> why] \in gone' /\ [id |-> job.id, why |-> why].id = job.id
    BY <2>1
  <2>2. gone \subseteq gone'
    OBVIOUS
  <2> QED
    BY <2>1, <2>2
<1>8. Line'
  BY <1>1, <1>4, <1>5 DEF Line, Before
<1>9. InOrder'
  <2>1. Painted'
    <3>1. OrderKept' /\ (\A c \in canvas' : c.id \in Nat /\ c.at \in Nat /\ c.at <= clock') /\ clock' \in Nat
      BY <1>1 DEF InOrder, Painted, OrderKept
    <3>2. \A g \in gone' : g.id \in Nat
      BY <1>1, <1>6 DEF InOrder, Painted
    <3>3. NoneRevived'
      BY <1>1, <1>6 DEF InOrder, Painted, NoneRevived, GivenUp, PaintedIds
    <3> QED
      BY <3>1, <3>2, <3>3 DEF Painted
  <2>2. Past(Waiting)' /\ Past({next})'
    BY <1>1, <1>5, <1>6 DEF InOrder, Past, GivenUp
  <2> QED
    BY <2>1, <2>2 DEF InOrder
<1>10. Accounted'
  <2>1. Calling \subseteq GoneIds' /\ GoneIds \subseteq GoneIds' /\ PaintedIds' = PaintedIds
    BY <1>7 DEF Calling, GoneIds, PaintedIds
  <2>2. bracket /\ install = "hard"
    BY <1>1 DEF Accounted
  <2> QED
    BY <1>1, <1>5, <2>1, <2>2 DEF Accounted, Client
<1>11. OwnInLine'
  BY <1>1, <1>4 DEF OwnInLine, OwnState, Equipped
<1>12. Armed'
  BY <1>4 DEF Armed
<1> QED
  BY <1>3, <1>8, <1>9, <1>10, <1>11, <1>12 DEF IInv

LEMMA InvBuild ==
  ASSUME IInv, Build
  PROVE  IInv'
<1>1. /\ flush = NoFlush /\ job.stage = "trap"
      /\ UNCHANGED Busy /\ UNCHANGED <<pend, mode, batchKey, flush, canvas, clock, dropped, fault>>
  BY DEF Build, At
<1>2. /\ UNCHANGED Client /\ UNCHANGED <<probe, bracket, next>>
      /\ fault' \in BOOLEAN /\ bracket' \in BOOLEAN /\ bracket /\ job # NoJob
  BY <1>1 DEF Busy, client, Client, IInv, Kinds, Accounted, NoJob
<1>3. CASE UNCHANGED <<live, gone>> /\ (Goto("soft") \/ (Goto("join") /\ ~job.shape.mip))
  <2>1. Ships /\ Onward
    BY <1>1, <1>3 DEF Ships, Onward, Goto
  <2>2. job'.stage \notin {"check", "append"}
    <3>1. \E stage \in {"soft", "join"} : job' = [job EXCEPT !.stage = stage]
      BY <1>3 DEF Goto
    <3> QED
      BY <1>2, <3>1 DEF IInv, Kinds, Jobs
  <2>3. Joins
    BY <2>2 DEF Joins
  <2> QED
    BY <1>1, <1>2, <1>3, <2>1, <2>3, GoesOn
<1>4. CASE gone' = gone \cup {[id |-> job.id, why |-> "no_area"]} /\ Return
  BY <1>1, <1>2, <1>4, Returns DEF Return
<1> QED
  BY <1>3, <1>4 DEF Build

LEMMA InvClipFlush ==
  ASSUME IInv, ClipFlush
  PROVE  IInv'
<1>1. /\ flush = NoFlush /\ job.stage = "clip"
      /\ UNCHANGED Busy /\ UNCHANGED <<batchKey, canvas, clock, gone, dropped, fault>>
  BY DEF ClipFlush, At
<1>2. /\ UNCHANGED Client /\ UNCHANGED <<probe, bracket, next>>
      /\ fault' \in BOOLEAN /\ bracket' \in BOOLEAN /\ bracket /\ job # NoJob
  BY <1>1 DEF Busy, client, Client, IInv, Kinds, Accounted, NoJob
<1>3. CASE pend = <<>>
  BY <1>1, <1>2, <1>3, Returns DEF ClipFlush, Return
<1>4. CASE pend # <<>>
  <2>1. job' = job /\ live' = live /\ Ships /\ Onward /\ Joins
    BY <1>1, <1>4 DEF ClipFlush, Ships, Onward, Joins
  <2> QED
    BY <1>1, <1>2, <2>1, GoesOn
<1> QED
  BY <1>3, <1>4

(* Mesa draws the triangle: nobody waits before it.                         *)
LEMMA SoftlyClock ==
  ASSUME clock \in Nat, NEW id, NEW own, DrawSoftly(id, own)
  PROVE  clock' \in Nat
<1>1. clock' = clock \/ clock' = clock + 1
  BY DEF DrawSoftly
<1> QED
  BY <1>1

LEMMA Softened ==
  ASSUME IInv, flush = NoFlush, pend = <<>>, job' = NoJob, Kinds',
         UNCHANGED <<flush, pend, batchKey, bracket, install>>,
         NEW id, DrawSoftly(id, TRUE),
         \/ job.stage \notin {"none", "clip"} /\ id = job.id /\ next' = next
         \/ job = NoJob /\ id = next /\ next' = next + 1
  PROVE  IInv'
<1>1. Kinds /\ Line /\ InOrder /\ Accounted /\ OwnInLine
  BY DEF IInv
<1>2. next \in Nat /\ id \in Nat /\ next' \in Nat /\ id < next'
  <2>1. next \in Nat /\ (job.stage # "none" => job.id \in Nat /\ job.id = next - 1)
    BY <1>1 DEF Kinds, Jobs, NoJob, Line
  <2> QED
    BY <2>1
<1>3. Flushed = {} /\ Flushed' = {} /\ Ids(pend) = {} /\ Ids(pend)' = {} /\ Calling' = {}
  BY NoneInEmpty DEF Flushed, Calling, NoFlush, NoJob
<1>4. Waiting' = {} /\ Waiting = Calling /\ Calling \subseteq {id}
  BY <1>3 DEF Waiting, Calling, NoJob
<1>5. PICK srcs : srcs = <<[id |-> id]>>
  OBVIOUS
<1>6. /\ Takes(srcs) /\ OwnState' /\ clock \in Nat
  <2>1. clock \in Nat /\ OwnState
    BY <1>1 DEF Kinds, OwnInLine
  <2> QED
    BY <1>2, <1>5, <2>1, SoftlyTakes
<1>7. DOMAIN srcs \subseteq Nat \ {0} /\ Ids(srcs) = {id} /\ Sorted(srcs)
  <2>1. DOMAIN srcs = {1} /\ srcs[1].id = id
    BY <1>5
  <2> QED
    BY <2>1 DEF Ids, Sorted
<1>8. PICK later : later = {next'}
  OBVIOUS
<1>9. Past(Ids(srcs)) /\ Past(later)
  <2>1. Past({next}) /\ Past(Calling) /\ (Calling = {id} \/ id = next)
    BY <1>1, <1>4 DEF InOrder, Calling
  <2>2. Past({id})
    BY <2>1
  <2>3. \A c \in canvas : c.id < next'
    BY <1>1, <1>2, <2>2 DEF Past, InOrder, Painted
  <2>4. \A g \in gone : GivenUp(g) => g.id < next'
    BY <1>1, <1>2, <2>2 DEF Past, InOrder, Painted
  <2> QED
    BY <1>7, <1>8, <2>2, <2>3, <2>4 DEF Past
<1>10. later \in SUBSET Nat /\ Before(Ids(srcs), later) /\ Ids(srcs) \subseteq Nat
  BY <1>2, <1>7, <1>8 DEF Before
<1>11. /\ Painted' /\ Past(later)'
       /\ PaintedIds \cup GoneIds \cup Ids(srcs) \subseteq PaintedIds' \cup GoneIds'
  BY <1>1, <1>6, <1>7, <1>9, <1>10, Taken DEF InOrder
<1>12. Line'
  BY <1>2, <1>3, <1>4, NoneInEmpty DEF Line, Before, NoFlush, NoJob
<1>13. InOrder'
  BY <1>4, <1>8, <1>11 DEF InOrder, Past
<1>14. Accounted'
  <2>1. 1..(next' - 1) \subseteq 1..(next - 1) \cup {id}
    <3>1. next' = next \/ (id = next /\ next' = next + 1)
      OBVIOUS
    <3>2. CASE next' = next
      BY <3>2
    <3>3. CASE id = next /\ next' = next + 1
      BY <1>2, <3>3
    <3> QED
      BY <3>1, <3>2, <3>3
  <2> QED
    BY <1>1, <1>4, <1>7, <1>11, <2>1 DEF Accounted
<1>15. OwnInLine'
  BY <1>6, NoneInEmpty DEF OwnInLine, NoFlush, NoJob, Equipped
<1>16. Armed'
  BY DEF Armed, NoFlush
<1> QED
  BY <1>12, <1>13, <1>14, <1>15, <1>16 DEF IInv

LEMMA InvSoftly ==
  ASSUME IInv, Softly
  PROVE  IInv'
<1>1. /\ flush = NoFlush /\ job.stage = "soft"
      /\ UNCHANGED client /\ UNCHANGED <<bracket, batchKey, refused, clipOff, fault>>
  BY DEF Softly, At
<1>2. /\ UNCHANGED Client /\ UNCHANGED next
      /\ fault' \in BOOLEAN /\ bracket' \in BOOLEAN /\ bracket /\ job # NoJob
  BY <1>1 DEF client, Client, IInv, Kinds, Accounted, NoJob
<1>3. CASE saved /\ pend # <<>>
  <2>1. UNCHANGED <<job, live, canvas, clock, gone, dropped, probe>> /\ Ships /\ Onward /\ Joins
    BY <1>1, <1>3 DEF Softly, Ships, Onward, Joins
  <2> QED
    BY <1>1, <1>2, <2>1, GoesOn
<1>4. ASSUME ~(saved /\ pend # <<>>)
      PROVE  /\ DrawSoftly(job.id, live = job.shape.facing) /\ job' = NoJob /\ live' = 0
             /\ probe' = probe \/ probe' = Revoked(probe)
             /\ UNCHANGED <<flush, pend, mode>>
  BY <1>4 DEF Softly, Return
<1>5. CASE ~saved
  <2>1. gone' = gone \cup {[id |-> job.id, why |-> "no_rasteriser"]} /\ UNCHANGED <<canvas, clock>>
    BY <1>4, <1>5 DEF DrawSoftly
  <2> QED
    BY <1>1, <1>2, <1>4, <1>5, <2>1, Returns
<1>6. CASE saved /\ pend = <<>>
  <2>1. job \in Jobs /\ job.shape.facing = live
    BY <1>1, <1>2 DEF IInv, Kinds, OwnInLine, NoFlush
  <2>2. (live = job.shape.facing) = TRUE
    BY <2>1
  <2>3. DrawSoftly(job.id, TRUE)
    BY <1>4, <1>6, <2>2
  <2>4. clock' \in Nat
    <3>1. clock \in Nat
      BY DEF IInv, Kinds
    <3> QED
      BY <2>3, <3>1, SoftlyClock
  <2>5. Kinds'
    <3>1. /\ Kinds /\ probe' \in ProbeType /\ live' \in {0, 1} /\ next' \in 1..(MaxSource + 1)
          /\ mode' \in {"none", "warp"} /\ batchKey' \in Key
          /\ pend' \in Seq(SourceSet) /\ Len(pend') <= BatchLimit
          /\ flush' \in Flushes \cup {NoFlush} /\ job' \in Jobs \cup {NoJob}
      BY <1>1, <1>2, <1>4, <1>6, RevokedTyped DEF IInv, Kinds, ProbeType
    <3> QED
      BY <1>2, <2>4, <3>1, CallTyped
  <2> QED
    BY <1>1, <1>2, <1>4, <1>6, <2>3, <2>5, Softened DEF Client
<1> QED
  BY <1>3, <1>5, <1>6

LEMMA InvDraw ==
  ASSUME IInv, Draw
  PROVE  IInv'
<1>1. PICK s \in Shapes : Triangle(s) \/ GatedTriangle(s)
  BY DEF Draw
<1>2. /\ Kinds /\ Line /\ InOrder /\ Accounted /\ OwnInLine
      /\ job = NoJob /\ flush = NoFlush /\ bracket /\ install \in {"gated", "hard"}
      /\ next <= MaxSource /\ next' = next + 1
      /\ UNCHANGED <<device, warpTier, bound, install, saved, proc, updates, forks, probe, bracket,
                     pend, mode, batchKey, flush, refused, clipOff, fault>>
  <2>1. job = NoJob /\ flush = NoFlush
    BY <1>1 DEF Triangle, GatedTriangle, Idle
  <2>2. bracket /\ install \in {"gated", "hard"} /\ next <= MaxSource /\ next' = next + 1
    BY <1>1 DEF Triangle, GatedTriangle
  <2>3. UNCHANGED <<device, warpTier, bound, install, saved, proc, updates, forks, probe, bracket,
                    pend, mode, batchKey, flush, refused, clipOff, fault>>
    BY <1>1 DEF Triangle, GatedTriangle
  <2> QED
    BY <2>1, <2>2, <2>3 DEF IInv
<1>3. /\ probe' \in ProbeType /\ bracket' \in BOOLEAN /\ fault' \in BOOLEAN
      /\ mode' \in {"none", "warp"} /\ batchKey' \in Key /\ flush' \in Flushes \cup {NoFlush}
      /\ UNCHANGED Client
  BY <1>2 DEF Kinds, ProbeType, Client
<1>4. /\ next \in 1..MaxSource /\ next' \in 1..(MaxSource + 1)
      /\ pend' \in Seq(SourceSet) /\ Len(pend') <= BatchLimit
  BY <1>2, LimitsAssumption DEF Kinds
<1>5. CASE GatedTriangle(s)
  <2>1. pend = <<>> /\ job' = NoJob /\ live' = live /\ DrawSoftly(next, TRUE)
    BY <1>2, <1>5 DEF GatedTriangle, Accounted
  <2>2. clock' \in Nat
    <3>1. clock \in Nat
      BY <1>2 DEF Kinds
    <3> QED
      BY <2>1, <3>1, SoftlyClock
  <2>3. live' \in {0, 1} /\ job' \in Jobs \cup {NoJob}
    BY <1>2, <2>1 DEF Kinds
  <2>4. Kinds'
    BY <1>2, <1>3, <1>4, <2>2, <2>3, CallTyped
  <2>5. PICK id : id = next
    OBVIOUS
  <2>6. DrawSoftly(id, TRUE)
    BY <2>1, <2>5
  <2> QED
    BY <1>2, <2>1, <2>4, <2>5, <2>6, Softened
<1>6. CASE Triangle(s)
  <2> DEFINE stage == IF ~Window THEN "soft" ELSE IF s.key # NoKey THEN "texture" ELSE "warp"
  <2>1. job' = [stage |-> stage, id |-> next, shape |-> s] /\ live' = s.facing
        /\ UNCHANGED <<canvas, clock, gone, dropped>>
    BY <1>6 DEF Triangle
  <2>2. stage \in {"soft", "texture", "warp"}
    OBVIOUS
  <2> HIDE DEF stage
  <2>3. job' \in Jobs /\ job'.stage \in {"soft", "texture", "warp"} /\ job'.id = next /\ job'.shape = s
    BY <1>4, <2>1, <2>2 DEF Jobs
  <2>4. Kinds'
    <3>1. live' \in {0, 1} /\ clock' \in Nat
      BY <1>2, <2>1, ShapesAssumption DEF ShapeOK, Kinds
    <3> QED
      BY <1>2, <1>3, <1>4, <2>3, <3>1, CallTyped
  <2>5. /\ Flushed = {} /\ Flushed' = {} /\ Calling = {} /\ Calling' = {next}
        /\ Ids(pend)' = Ids(pend)
    BY <1>2, <2>3 DEF Flushed, Calling, NoFlush, NoJob
  <2>6. Waiting = Ids(pend) /\ Waiting' = Ids(pend) \cup {next}
    BY <2>5 DEF Waiting
  <2>7. Ids(pend) \subseteq Nat /\ next \in Nat
    BY <1>2, <1>4, SourcesTyped DEF Kinds
  <2>8. Line'
    <3>1. Before(Ids(pend), {next}) /\ Sorted(pend)
      BY <1>2, <2>6 DEF Line
    <3>2. Before(Flushed \cup Ids(pend), Calling)'
      BY <2>5, <3>1 DEF Before
    <3>3. Before(Waiting, {next})'
      BY <1>2, <2>6, <2>7, <3>1 DEF Before
    <3>4. job'.id = next' - 1
      BY <1>2, <2>3, <2>7
    <3> QED
      BY <1>2, <3>1, <3>2, <3>3, <3>4 DEF Line, NoFlush
  <2>9. InOrder'
    <3>1. Painted'
      BY <1>2, <2>1 DEF InOrder, Painted, OrderKept, NoneRevived, PaintedIds
    <3>2. Past(Waiting)'
      BY <1>2, <2>1, <2>6 DEF InOrder, Past
    <3>3. Past({next})'
      BY <1>2, <2>1, <2>7 DEF InOrder, Past, Painted
    <3> QED
      BY <3>1, <3>2, <3>3 DEF InOrder
  <2>10. Accounted'
    <3>1. 1..(next' - 1) \subseteq 1..(next - 1) \cup {next}
      BY <1>2, <2>7
    <3>2. bracket' /\ install' = "hard"
      BY <1>2, <1>6 DEF Triangle
    <3> QED
      BY <1>2, <2>1, <2>6, <3>1, <3>2 DEF Accounted, PaintedIds, GoneIds
  <2>11. OwnInLine'
    BY <1>2, <2>1, <2>3 DEF OwnInLine, OwnState, Equipped, NoFlush
  <2>12. Armed'
    BY <1>2 DEF Armed, NoFlush
  <2> QED
    BY <2>4, <2>8, <2>9, <2>10, <2>11, <2>12 DEF IInv
<1> QED
  BY <1>1, <1>5, <1>6

(* The triangle joins the line, at its end.                                 *)
LEMMA JoinsTheLine ==
  ASSUME NEW line \in Seq(SourceSet), Sorted(line), NEW src \in SourceSet,
         Before(Ids(line), {src.id}), NEW longer, longer = Append(line, src)
  PROVE  /\ longer \in Seq(SourceSet) /\ Len(longer) = Len(line) + 1 /\ Sorted(longer)
         /\ Ids(longer) = Ids(line) \cup {src.id}
         /\ \A i \in DOMAIN longer : longer[i] = src \/ (i \in DOMAIN line /\ longer[i] = line[i])
<1>1. /\ Len(line) \in Nat /\ DOMAIN line = 1..Len(line)
  BY SourcesTyped
<1>2. /\ longer \in Seq(SourceSet) /\ Len(longer) = Len(line) + 1
      /\ DOMAIN longer = 1..Len(line) + 1
      /\ \A i \in 1..Len(line) : longer[i] = line[i]
      /\ longer[Len(line) + 1] = src
  BY AppendProperties
<1>3. \A i \in DOMAIN longer : \/ i = Len(line) + 1 /\ longer[i] = src
                               \/ i \in DOMAIN line /\ longer[i] = line[i]
  BY <1>1, <1>2
<1>4. Ids(longer) = Ids(line) \cup {src.id}
  <2>1. Ids(longer) \subseteq Ids(line) \cup {src.id}
    BY <1>3 DEF Ids
  <2>2. DOMAIN line \subseteq DOMAIN longer /\ Len(line) + 1 \in DOMAIN longer
    BY <1>1, <1>2
  <2>3. Ids(line) \subseteq Ids(longer) /\ src.id \in Ids(longer)
    BY <1>1, <1>2, <2>2 DEF Ids
  <2> QED
    BY <2>1, <2>3
<1>5. Sorted(longer)
  <2> SUFFICES ASSUME NEW i \in DOMAIN longer, NEW j \in DOMAIN longer, i < j
               PROVE  longer[i].id < longer[j].id
    BY DEF Sorted
  <2>1. i \in DOMAIN line /\ longer[i] = line[i]
    BY <1>1, <1>2
  <2>2. CASE j \in DOMAIN line
    BY <1>1, <1>2, <2>1, <2>2 DEF Sorted
  <2>3. CASE j \notin DOMAIN line
    <3>1. longer[j] = src
      BY <1>3, <2>3
    <3> QED
      BY <2>1, <3>1 DEF Before, Ids
  <2> QED
    BY <2>2, <2>3
<1> QED
  BY <1>2, <1>3, <1>4, <1>5

LEMMA Appends ==
  ASSUME IInv, flush = NoFlush, job.stage \in {"warp", "append"}, NEW n \in 0..2,
         pend' = Append(pend, Source(n)), batchKey' = KeyAfter(pend = <<>>, job.shape.key),
         pend # <<>> => ~KeyClash(job.shape.key) /\ Len(pend) < BatchLimit,
         UNCHANGED Client, UNCHANGED <<probe, bracket, flush, canvas, clock, gone, dropped, next, fault>>,
         mode' \in {"none", "warp"},
         \/ job' = NoJob /\ live' = 0
         \/ job' = [job EXCEPT !.stage = "clip"] /\ live' = live
  PROVE  IInv'
<1>1. /\ Kinds /\ Line /\ InOrder /\ Accounted /\ OwnInLine
  BY DEF IInv
<1>2. /\ job \in Jobs /\ job.id \in 1..MaxSource /\ job.shape \in Shapes /\ job.id = next - 1
      /\ live \in {0, 1} /\ job.shape.facing = live /\ pend \in Seq(SourceSet) /\ Sorted(pend)
  BY <1>1 DEF Kinds, Jobs, NoJob, NoFlush, Line, OwnInLine
<1>3. PICK src : src = Source(n)
  OBVIOUS
<1>4. /\ src \in SourceSet /\ src.id = job.id /\ src.key = job.shape.key /\ OwnHeld(src)
  <2> DEFINE again == ~job.shape.clipped \/ ~Batchable
  <2>1. src = [id |-> job.id, key |-> job.shape.key, traps |-> n, held |-> live,
               want |-> job.shape.facing, replayable |-> again]
    BY <1>3 DEF Source
  <2>2. again \in BOOLEAN
    OBVIOUS
  <2> HIDE DEF again
  <2>3. job.shape.key \in Key /\ job.shape.facing \in {0, 1}
    BY <1>2 DEF Key
  <2> QED
    BY <1>2, <2>1, <2>2, <2>3 DEF SourceSet, OwnHeld
<1>5. /\ Flushed = {} /\ Flushed' = {} /\ Calling = {job.id} /\ Calling' = {}
      /\ job' \in Jobs \cup {NoJob} /\ live' \in {0, 1}
      /\ job'.stage # "none" => /\ job'.stage = "clip" /\ job'.id = job.id
                                /\ job'.shape = job.shape /\ live' = live
      /\ job'.stage \in {"none", "clip"}
  BY <1>2 DEF Flushed, Calling, NoFlush, NoJob, Jobs
<1>6. Before(Ids(pend), {src.id})
  BY <1>1, <1>4, <1>5 DEF Line, Before
<1>7. /\ pend' \in Seq(SourceSet) /\ Len(pend') = Len(pend) + 1 /\ Sorted(pend')
      /\ Ids(pend') = Ids(pend) \cup {job.id}
      /\ \A i \in DOMAIN pend' : pend'[i] = src \/ (i \in DOMAIN pend /\ pend'[i] = pend[i])
  <2>1. PICK line : line = pend
    OBVIOUS
  <2>2. PICK longer : longer = pend'
    OBVIOUS
  <2>3. line \in Seq(SourceSet) /\ Sorted(line) /\ Before(Ids(line), {src.id})
        /\ longer = Append(line, src)
    BY <1>2, <1>3, <1>6, <2>1, <2>2
  <2>4. /\ longer \in Seq(SourceSet) /\ Len(longer) = Len(line) + 1 /\ Sorted(longer)
        /\ Ids(longer) = Ids(line) \cup {src.id}
        /\ \A i \in DOMAIN longer : longer[i] = src \/ (i \in DOMAIN line /\ longer[i] = line[i])
    <3>1. src \in SourceSet
      BY <1>4
    <3> QED
      BY ONLY <2>3, <3>1, JoinsTheLine
  <2> QED
    BY <1>4, <2>1, <2>2, <2>4
<1>8. Waiting' = Waiting
  BY <1>5, <1>7 DEF Waiting
<1>9. Kinds'
  <2>1. Len(pend') <= BatchLimit
    <3>1. CASE pend = <<>>
      BY <1>7, <3>1, LimitsAssumption
    <3>2. CASE pend # <<>>
      BY <1>2, <1>7, <3>2, LimitsAssumption
    <3> QED
      BY <3>1, <3>2
  <2>2. batchKey' \in Key
    BY <1>1, <1>2 DEF KeyAfter, Kinds, Key
  <2>3. probe' \in ProbeType /\ next' \in 1..(MaxSource + 1) /\ clock' \in Nat
        /\ flush' \in Flushes \cup {NoFlush}
    BY <1>1 DEF Kinds, ProbeType
  <2>4. bracket' \in BOOLEAN /\ fault' \in BOOLEAN
    BY <1>1 DEF Kinds
  <2> QED
    BY <1>1, <1>5, <1>7, <2>1, <2>2, <2>3, <2>4, CallTyped
<1>10. Line'
  <2>1. Before(Flushed \cup Ids(pend), Calling)' /\ Before(Waiting, {next})'
    BY <1>1, <1>5, <1>8 DEF Line, Before
  <2> QED
    BY <1>2, <1>5, <1>7, <2>1 DEF Line, NoFlush
<1>11. InOrder'
  <2>1. Painted'
    BY <1>1 DEF InOrder, Painted, OrderKept, NoneRevived, PaintedIds
  <2>2. Past(Waiting)' /\ Past({next})'
    BY <1>1, <1>8 DEF InOrder, Past
  <2> QED
    BY <2>1, <2>2 DEF InOrder
<1>12. Accounted'
  <2>1. bracket /\ install = "hard"
    BY <1>1 DEF Accounted, NoJob
  <2> QED
    BY <1>1, <1>8, <2>1 DEF Accounted, PaintedIds, GoneIds, Client
<1>13. OwnInLine'
  <2>1. \A i \in DOMAIN pend : OwnHeld(pend[i]) /\ pend[i].key \in {NoKey, batchKey}
    BY <1>1 DEF OwnInLine, Equipped
  <2>2. src.key \in {NoKey, batchKey'}
    BY <1>4 DEF KeyAfter, KeyClash
  <2>3. \A i \in DOMAIN pend : pend[i].key \in {NoKey, batchKey'}
    <3>1. CASE pend = <<>>
      BY <3>1
    <3>2. CASE pend # <<>>
      BY <2>1, <3>2 DEF KeyAfter
    <3> QED
      BY <3>1, <3>2
  <2>4. \A i \in DOMAIN pend' : OwnHeld(pend'[i]) /\ pend'[i].key \in {NoKey, batchKey'}
    BY <1>4, <1>7, <2>1, <2>2, <2>3
  <2>5. Equipped(pend)'
    BY <2>4 DEF Equipped
  <2> QED
    BY <1>1, <1>2, <1>5, <2>5 DEF OwnInLine, OwnState, NoFlush
<1>14. Armed'
  BY DEF Armed, NoFlush
<1> QED
  BY <1>9, <1>10, <1>11, <1>12, <1>13, <1>14 DEF IInv

LEMMA InvAppends ==
  ASSUME IInv, WarpAppends \/ AppendTraps
  PROVE  IInv'
<1>1. /\ flush = NoFlush /\ job.stage \in {"warp", "append"}
      /\ UNCHANGED Busy /\ UNCHANGED <<flush, canvas, clock, gone, dropped>>
      /\ job \in Jobs \cup {NoJob}
  BY DEF WarpAppends, AppendTraps, At, IInv, Kinds
<1>2. /\ UNCHANGED Client /\ UNCHANGED <<probe, bracket, next>>
      /\ bracket' \in BOOLEAN /\ bracket
  BY <1>1 DEF Busy, client, Client, IInv, Kinds, Accounted, NoJob
<1>3. CASE WarpAppends /\ ~Window
  <2>1. /\ job' = [job EXCEPT !.stage = "trap"] /\ fault' \in BOOLEAN
        /\ UNCHANGED <<pend, mode, batchKey, live>>
    BY <1>3 DEF WarpAppends, Goto, IInv, Kinds
  <2>2. job'.stage = "trap"
    BY <1>1, <2>1 DEF Jobs, NoJob
  <2>3. Onward /\ Ships /\ Joins
    BY <1>1, <2>1, <2>2 DEF Onward, Ships, Joins
  <2> QED
    BY <1>1, <1>2, <2>1, <2>3, GoesOn
<1>4. CASE WarpAppends /\ Window
  <2>1. /\ pend' = Append(pend, Source(1)) /\ batchKey' = KeyAfter(pend = <<>>, job.shape.key)
        /\ mode' = "warp" /\ fault' = fault
        /\ \/ job' = NoJob /\ live' = 0
           \/ job' = [job EXCEPT !.stage = "clip"] /\ live' = live
    BY <1>4 DEF WarpAppends, Return, Goto
  <2>2. pend # <<>> => ~KeyClash(job.shape.key) /\ Len(pend) < BatchLimit
    <3>1. pend # <<>> => ~KeyClash(job.shape.key) /\ ~(Len(pend) >= BatchLimit)
      BY <1>4 DEF WarpAppends, WarpFull
    <3>2. Len(pend) \in Nat
      BY DEF IInv, Kinds
    <3> QED
      BY <3>1, <3>2, LimitsAssumption
  <2> QED
    BY <1>1, <1>2, <2>1, <2>2, Appends
<1>5. CASE AppendTraps /\ ~Window
  <2>1. fault' \in BOOLEAN /\ UNCHANGED <<pend, batchKey, job, live, mode>>
    BY <1>5 DEF AppendTraps
  <2>2. Onward /\ Ships /\ Joins
    BY <1>1, <2>1 DEF Onward, Ships, Joins, IInv, OwnInLine
  <2> QED
    BY <1>1, <1>2, <2>1, <2>2, GoesOn
<1>6. CASE AppendTraps /\ Window
  <2>1. PICK n : n = job.shape.traps
    OBVIOUS
  <2>2. n \in 0..2
    BY <1>1, <2>1, ShapesAssumption DEF Jobs, NoJob, ShapeOK
  <2>3. /\ pend' = Append(pend, Source(n)) /\ batchKey' = KeyAfter(pend = <<>>, job.shape.key)
        /\ mode' \in {"none", "warp"} /\ fault' = fault
        /\ \/ job' = NoJob /\ live' = 0
           \/ job' = [job EXCEPT !.stage = "clip"] /\ live' = live
    BY <1>6, <2>1 DEF AppendTraps, Return, Goto, IInv, Kinds
  <2>4. pend # <<>> => ~KeyClash(job.shape.key) /\ Len(pend) < BatchLimit
    BY <1>6 DEF AppendTraps, At, IInv, OwnInLine
  <2> QED
    BY <1>1, <1>2, <2>2, <2>3, <2>4, Appends
<1> QED
  BY <1>3, <1>4, <1>5, <1>6

-----------------------------------------------------------------------------
LEMMA IInvInit == Init => IInv
<1> SUFFICES ASSUME Init PROVE IInv
  OBVIOUS
<1>1. /\ pend = <<>> /\ flush.stage = "none" /\ job.stage = "none" /\ next = 1
      /\ canvas = {} /\ gone = {} /\ clock = 0 /\ flush = NoFlush /\ job = NoJob
  BY DEF Init, NoFlush, NoJob
<1>2. Kinds
  <2>1. /\ install \in {"none", "gated", "hard"} /\ mode \in {"none", "warp"}
        /\ batchKey \in Key /\ live \in {0, 1} /\ device \in Answers
    BY DEF Init, Key
  <2>4. {warpTier, bound, saved, bracket, clipOff, fault} \subseteq BOOLEAN
    BY DEF Init
  <2>5. probe \in ProbeType
    BY LimitsAssumption DEF Init, ProbeType
  <2>2. pend \in Seq(SourceSet) /\ Len(pend) <= BatchLimit
    BY <1>1, LimitsAssumption
  <2>3. /\ refused \in Nat /\ next \in 1..(MaxSource + 1)
        /\ updates \in 0..MaxUpdates /\ forks \in 0..MaxForks /\ proc = forks + 1
    BY LimitsAssumption DEF Init
  <2> QED
    BY <1>1, <2>1, <2>2, <2>3, <2>4, <2>5 DEF Kinds, ProbeType
<1>3. Flushed = {} /\ Calling = {} /\ Ids(pend) = {} /\ Waiting = {}
  BY <1>1, NoneInEmpty DEF Flushed, Calling, Waiting
<1>4. Line
  BY <1>1, <1>3, NoneInEmpty DEF Line, Before
<1>5. InOrder
  BY <1>1, <1>3 DEF InOrder, Painted, Past, OrderKept, NoneRevived
<1>6. Accounted
  BY <1>1 DEF Accounted
<1>7. OwnInLine
  BY <1>1, NoneInEmpty DEF OwnInLine, OwnState
<1>8. Armed
  BY <1>1 DEF Armed
<1> QED
  BY <1>2, <1>4, <1>5, <1>6, <1>7, <1>8 DEF IInv

LEMMA IInvNext == IInv /\ [Next]_vars => IInv'
<1> SUFFICES ASSUME IInv, [Next]_vars PROVE IInv'
  OBVIOUS
<1>1. CASE TriangleStep
  <2>1. CASE \/ TextureAbsent \/ TextureResident \/ TextureUploaded
             \/ WarpDeclines \/ WarpFlushes \/ Join \/ JoinChecked
    BY <2>1, InvShips
  <2>2. CASE WarpAppends \/ AppendTraps
    BY <2>2, InvAppends
  <2> QED
    BY <1>1, <2>1, <2>2, InvSoftly, InvBuild, InvClipFlush DEF TriangleStep
<1>2. CASE Fork \/ RenderStart \/ UNCHANGED vars
  BY <1>2, InvBetween
<1> QED
  BY <1>1, <1>2, InvUpdate, InvDraw, InvFlushStep, InvRenderFinish DEF Next

LEMMA IInvAlways == Spec => []IInv
<1>1. Init => IInv
  BY IInvInit
<1>2. IInv /\ [Next]_vars => IInv'
  BY IInvNext
<1> QED
  BY <1>1, <1>2, PTL DEF Spec

(* Whether a source went to the engine, was narrowed out of a refused batch, *)
(* replayed or drawn by Mesa at once, the picture is painted in the order    *)
(* the client drew, and no source twice.                                     *)
THEOREM PaintedInOrder == Spec => []OrderKept
<1>1. IInv => OrderKept
  BY DEF IInv, InOrder, Painted
<1> QED
  BY <1>1, IInvAlways, PTL

(* Whatever is painted is painted with its own texture, and with the depth   *)
(* offset and the colours Mesa had installed for it.                         *)
THEOREM DrawnWithOwnState == Spec => []OwnState
<1>1. IInv => OwnState
  BY DEF IInv, OwnInLine
<1> QED
  BY <1>1, IInvAlways, PTL

-----------------------------------------------------------------------------
(* What Mesa's rasteriser puts on the canvas.                               *)
BySoftwareOnly == \A c \in canvas' \ canvas : c.by = "software"

LEMMA ReplayIsSoftware ==
  ASSUME NEW srcs, Replay(srcs) \/ Rescue(srcs)
  PROVE  BySoftwareOnly
<1> DEFINE stroke(i) == Stroke(srcs[i], "software", OwnHeld(srcs[i]), clock + i)
<1>1. \A i : stroke(i).by = "software"
  BY DEF Stroke
<1>2. canvas' = canvas \/ canvas' = canvas \cup {stroke(i) : i \in Replayed(srcs)}
  BY DEF Replay, Rescue, BySoftware
<1> HIDE DEF stroke
<1> QED
  BY <1>1, <1>2 DEF BySoftwareOnly

LEMMA DrawSoftlyIsSoftware ==
  ASSUME NEW id, NEW own, DrawSoftly(id, own)
  PROVE  BySoftwareOnly
<1> DEFINE stroke == Stroke([id |-> id], "software", own, clock + 1)
<1>1. stroke.by = "software"
  BY DEF Stroke
<1>2. canvas' = canvas \/ canvas' = canvas \cup {stroke}
  BY DEF DrawSoftly
<1> HIDE DEF stroke
<1> QED
  BY <1>1, <1>2 DEF BySoftwareOnly

(* The steps that decide about the device keep a revocation.                *)
LEMMA ProbeRunKeeps ==
  ASSUME Kinds, probe.revoked
  PROVE  ProbeRun(probe).revoked
<1>1. probe \in ProbeType
  BY DEF Kinds, ProbeType
<1>2. \A p \in ProbeType : p.revoked => Performed(p).revoked
  BY DEF Performed, ProbeType
<1>3. /\ [probe EXCEPT !.win = FALSE, !.fd = FALSE, !.done = FALSE] \in ProbeType
      /\ [probe EXCEPT !.win = FALSE, !.fd = FALSE, !.done = FALSE].revoked
  BY <1>1 DEF ProbeType
<1> QED
  BY <1>1, <1>2, <1>3 DEF ProbeRun

LEMMA CountKeeps ==
  ASSUME Kinds, probe.revoked, NEW n, CountRefusal(n)
  PROVE  probe'.revoked
<1>1. probe \in ProbeType
  BY DEF Kinds, ProbeType
<1>2. Revoked(probe).revoked
  BY <1>1 DEF Revoked, ProbeType
<1> QED
  BY <1>2 DEF CountRefusal

LEMMA StaysRevoked ==
  ASSUME IInv, [Next]_vars, probe.revoked
  PROVE  probe'.revoked /\ BySoftwareOnly
<1>1. Kinds /\ ~Window /\ flush.stage # "submit"
  BY DEF IInv, Armed, Window
<1>2. CASE UNCHANGED <<probe, canvas>>
  BY <1>2 DEF BySoftwareOnly
<1>3. CASE Update
  <2>1. PICK gate \in BOOLEAN, fits \in BOOLEAN, mapped \in BOOLEAN, soft \in BOOLEAN :
          UpdateState(gate, fits, mapped, soft)
    BY <1>3 DEF Update
  <2>2. probe \in ProbeType /\ ProbeRun(probe) \in ProbeType /\ ProbeRun(probe).revoked
    BY <1>1, ProbeTyped, ProbeRunKeeps
  <2>3. \A p \in ProbeType : p.revoked => [p EXCEPT !.win = @ \/ (mapped /\ p.fd)].revoked
    BY DEF ProbeType
  <2>4. /\ canvas' = canvas
        /\ \/ probe' = probe \/ probe' = ProbeRun(probe)
           \/ probe' = [ProbeRun(probe) EXCEPT !.win = @ \/ (mapped /\ ProbeRun(probe).fd)]
    BY <2>1 DEF UpdateState
  <2> QED
    BY <2>2, <2>3, <2>4 DEF BySoftwareOnly
<1>4. CASE Draw
  <2>1. PICK s \in Shapes : Triangle(s) \/ GatedTriangle(s)
    BY <1>4 DEF Draw
  <2>2. CASE Triangle(s)
    BY <1>2, <2>2 DEF Triangle
  <2>3. CASE GatedTriangle(s)
    <3>1. probe' = probe /\ DrawSoftly(next, TRUE)
      BY <2>3 DEF GatedTriangle
    <3> QED
      BY <3>1, DrawSoftlyIsSoftware
  <2> QED
    BY <2>1, <2>2, <2>3
<1>5. CASE FlushStep
  <2>1. CASE FlushWarp
    <3>1. Rescue(flush.rest) /\ probe' = probe
      BY <1>1, <2>1 DEF FlushWarp
    <3> QED
      BY <3>1, ReplayIsSoftware
  <2>2. CASE FlushPrefix
    <3>1. probe' = probe /\ (canvas' = canvas \/ Rescue(flush.prefix \o flush.rest))
      BY <1>1, <2>2 DEF FlushPrefix
    <3>2. CASE Rescue(flush.prefix \o flush.rest)
      <4>1. PICK srcs : srcs = flush.prefix \o flush.rest
        OBVIOUS
      <4> QED
        BY <3>2, <3>1, <4>1, ReplayIsSoftware
    <3> QED
      BY <3>1, <3>2 DEF BySoftwareOnly
  <2>3. CASE FlushSource
    <3>1. CountRefusal(NamedCount) /\ Replay(<<flush.rest[1]>>)
      BY <2>3 DEF FlushSource
    <3> QED
      BY <1>1, <3>1, CountKeeps, ReplayIsSoftware
  <2>4. CASE FlushAsks
    <3>1. probe' = probe /\ Rescue(flush.rest)
      BY <1>1, <2>4 DEF FlushAsks
    <3> QED
      BY <3>1, ReplayIsSoftware
  <2>5. \/ FlushWarp \/ FlushPrefix \/ FlushSource \/ FlushAsks
    BY <1>1, <1>5 DEF FlushStep, FlushDrawn, FlushFailed, FlushRefused, FlushNamed, Flushing
  <2> QED
    BY <2>1, <2>2, <2>3, <2>4, <2>5
<1>6. CASE Softly
  <2>1. CASE canvas' = canvas /\ probe' = probe
    BY <1>2, <2>1
  <2>2. CASE DrawSoftly(job.id, live = job.shape.facing) /\ probe' = Revoked(probe)
    <3>1. probe'.revoked
      BY <1>1, <2>2 DEF Revoked, Kinds
    <3>2. PICK id : id = job.id
      OBVIOUS
    <3>3. PICK own : own = (live = job.shape.facing)
      OBVIOUS
    <3>4. DrawSoftly(id, own)
      BY <2>2, <3>2, <3>3
    <3> QED
      BY <3>1, <3>4, DrawSoftlyIsSoftware
  <2> QED
    BY <1>1, <1>6, <2>1, <2>2 DEF Softly
<1>7. CASE TriangleStep /\ ~Softly
  <2>1. UNCHANGED <<probe, canvas>>
    BY <1>7 DEF TriangleStep, TextureAbsent, TextureResident, TextureUploaded, WarpDeclines,
                WarpFlushes, WarpAppends, Build, Join, JoinChecked, AppendTraps, ClipFlush, Busy
  <2> QED
    BY <1>2, <2>1
<1>8. CASE Fork \/ RenderStart \/ RenderFinish \/ UNCHANGED vars
  BY <1>2, <1>8 DEF Fork, RenderStart, RenderFinish, vars
<1> QED
  BY <1>3, <1>4, <1>5, <1>6, <1>7, <1>8 DEF Next

(* Once revoked, the device is not used again: not by a flush, not by a     *)
(* triangle, not after a new probe and not by a child of a fork.            *)
THEOREM RevokedIsSoftware == Spec => RevokedStaysSoftware
<1>1. IInv /\ [Next]_vars =>
        [probe.revoked => probe'.revoked /\ \A c \in canvas' \ canvas : c.by = "software"]_vars
  BY StaysRevoked DEF BySoftwareOnly
<1> QED
  BY <1>1, IInvAlways, PTL DEF Spec, RevokedStaysSoftware

-----------------------------------------------------------------------------
(* The tally of what is given up.  A batch with the engine is never longer  *)
(* than the limit, so that the one that may fail in silence is not either.  *)
Room == flush.stage # "none" => Len(flush.prefix) + Len(flush.rest) <= BatchLimit
Tally ==
  /\ IsFiniteSet(gone)
  /\ dropped = Cardinality(Because(Counts))
  /\ Cardinality(Because(Silent)) <= BatchLimit
  /\ Because(Silent) # {} => probe.revoked

(* What else a step leaves true, whatever it gives up.                      *)
Onto == (probe.revoked => probe'.revoked)

LEMMA TallyGrows ==
  ASSUME Tally, Onto, NEW counted, IsFiniteSet(counted), NEW other, IsFiniteSet(other),
         \A g \in counted : g.why \in Counts /\ g \notin gone,
         \A g \in other : g.why \notin Counts \cup Silent,
         gone' = gone \cup counted \cup other, dropped' = dropped + Cardinality(counted)
  PROVE  Tally'
<1>1. Because(Counts)' = Because(Counts) \cup counted
  BY DEF Because, Counts, Silent
<1>2. Because(Silent)' = Because(Silent)
  BY DEF Because, Counts, Silent
<1>3. IsFiniteSet(gone) /\ IsFiniteSet(Because(Counts))
  <2>1. IsFiniteSet(gone) /\ Because(Counts) \in SUBSET gone
    BY DEF Tally, Because
  <2> QED
    BY <2>1, FS_Subset
<1>4. IsFiniteSet(gone')
  <2>1. IsFiniteSet(gone \cup counted)
    BY <1>3, FS_Union
  <2> QED
    BY <2>1, FS_Union
<1>5. Because(Counts) \cap counted = {}
  BY DEF Because
<1>6. Cardinality(Because(Counts) \cup counted) = Cardinality(Because(Counts)) + Cardinality(counted)
  <2>1. Cardinality(Because(Counts) \cup counted)
          = Cardinality(Because(Counts)) + Cardinality(counted) - Cardinality({})
    BY <1>3, <1>5, FS_Union
  <2>2. /\ Cardinality({}) = 0 /\ Cardinality(Because(Counts)) \in Nat
        /\ Cardinality(counted) \in Nat
    BY <1>3, FS_EmptySet, FS_CardinalityType
  <2> QED
    BY <2>1, <2>2
<1>7. dropped' = Cardinality(Because(Counts)')
  BY <1>1, <1>6 DEF Tally
<1>8. Cardinality(Because(Silent)') <= BatchLimit /\ (Because(Silent)' # {} => probe'.revoked)
  BY <1>2 DEF Tally, Onto
<1> QED
  BY <1>4, <1>7, <1>8 DEF Tally

LEMMA TallyRests ==
  ASSUME Tally, Onto, gone' = gone, dropped' = dropped
  PROVE  Tally'
<1>1. Because(Counts)' = Because(Counts) /\ Because(Silent)' = Because(Silent)
  BY DEF Because
<1> QED
  BY <1>1 DEF Tally, Onto

LEMMA TallyAside ==
  ASSUME Tally, Onto, NEW g, g.why \notin Counts \cup Silent,
         gone' = gone \cup {g}, dropped' = dropped
  PROVE  Tally'
<1>1. IsFiniteSet({}) /\ IsFiniteSet({g}) /\ Cardinality({}) = 0
  BY FS_EmptySet, FS_Singleton
<1>2. gone' = gone \cup {} \cup {g} /\ dropped' = dropped + Cardinality({})
  <2>1. dropped \in Nat
    <3>1. IsFiniteSet(Because(Counts))
      BY FS_Subset DEF Tally, Because
    <3> QED
      BY <3>1, FS_CardinalityType DEF Tally
  <2> QED
    BY <1>1, <2>1
<1>3. \A h \in {g} : h.why \notin Counts \cup Silent
  OBVIOUS
<1> QED
  BY <1>1, <1>2, <1>3, TallyGrows

(* The one batch that fails in silence: with it the device is given up.     *)
LEMMA TallyFails ==
  ASSUME Tally, ~probe.revoked, probe'.revoked, NEW silent, IsFiniteSet(silent),
         \A g \in silent : g.why \in Silent, Cardinality(silent) <= BatchLimit,
         gone' = gone \cup silent, dropped' = dropped
  PROVE  Tally'
<1>1. Because(Counts)' = Because(Counts)
  BY DEF Because, Counts, Silent
<1>2. Because(Silent)' = silent
  BY DEF Tally, Because
<1>3. IsFiniteSet(gone')
  BY FS_Union DEF Tally
<1> QED
  BY <1>1, <1>2, <1>3 DEF Tally

LEMMA DomainMany ==
  ASSUME NEW srcs \in Seq(SourceSet)
  PROVE  IsFiniteSet(DOMAIN srcs) /\ Cardinality(DOMAIN srcs) = Len(srcs)
<1>1. PICK n : n = Len(srcs)
  OBVIOUS
<1>2. n \in Nat /\ DOMAIN srcs = 1..n
  BY <1>1, SourcesTyped
<1>3. IsFiniteSet(1..n) /\ Cardinality(1..n) = IF 1 > n THEN 0 ELSE n - 1 + 1
  BY ONLY <1>2, FS_Interval, 1 \in Int, n \in Int
<1> QED
  BY <1>1, <1>2, <1>3

(* As many are lost as are named: the sources of a list are all different.  *)
LEMMA LostMany ==
  ASSUME NEW srcs \in Seq(SourceSet), Sorted(srcs), NEW which \in SUBSET DOMAIN srcs, NEW why
  PROVE  /\ IsFiniteSet(which) /\ Cardinality(which) <= Len(srcs)
         /\ IsFiniteSet(Lost(srcs, which, why))
         /\ Cardinality(Lost(srcs, which, why)) = Cardinality(which)
<1>1. /\ Len(srcs) \in Nat /\ DOMAIN srcs = 1..Len(srcs)
      /\ \A i \in DOMAIN srcs : srcs[i].id \in 1..MaxSource
  BY SourcesTyped
<1>2. IsFiniteSet(DOMAIN srcs) /\ Cardinality(DOMAIN srcs) = Len(srcs)
  BY DomainMany
<1>3. IsFiniteSet(which) /\ Cardinality(which) <= Len(srcs)
  BY <1>2, FS_Subset
<1> DEFINE f == [i \in which |-> [id |-> srcs[i].id, why |-> why]]
           lost == Lost(srcs, which, why)
<1>4. lost = {f[i] : i \in which}
  BY DEF Lost
<1>5. \A i, j \in which : f[i] = f[j] => i = j
  <2> SUFFICES ASSUME NEW i \in which, NEW j \in which, f[i] = f[j]
               PROVE  i = j
    OBVIOUS
  <2>1. f[i].id = srcs[i].id /\ f[j].id = srcs[j].id
    OBVIOUS
  <2>2. srcs[i].id = srcs[j].id /\ srcs[i].id \in Nat /\ i \in Nat /\ j \in Nat
    BY <1>1, <2>1
  <2> QED
    BY <2>2 DEF Sorted
<1> HIDE DEF lost
<1>6. f \in Bijection(which, lost)
  <2>1. f \in [which -> lost]
    BY <1>4
  <2> HIDE DEF f
  <2>2. f \in Injection(which, lost)
    BY <1>5, <2>1 DEF Injection, IsInjective
  <2>3. f \in Surjection(which, lost)
    BY <1>4, <2>1 DEF Surjection
  <2> QED
    BY <2>2, <2>3 DEF Bijection
<1>7. ExistsBijection(which, lost)
  BY <1>6 DEF ExistsBijection
<1> QED
  BY <1>3, <1>7, FS_Bijection DEF lost

(* Nobody who waits has been given up before.                               *)
LEMMA Fresh ==
  ASSUME IInv, NEW srcs \in Seq(SourceSet), Ids(srcs) \subseteq Waiting,
         NEW g, g.why \in Counts \cup Silent, g.id \in Ids(srcs)
  PROVE  g \notin gone
<1>1. Ids(srcs) \subseteq Nat
  BY SourcesTyped
<1>2. g \in gone => g.id < g.id
  BY DEF IInv, InOrder, Past, GivenUp
<1> QED
  BY <1>1, <1>2

LEMMA TallyReplay ==
  ASSUME IInv, Tally, Onto, NEW srcs \in Seq(SourceSet), Sorted(srcs), Ids(srcs) \subseteq Waiting,
         Replay(srcs)
  PROVE  Tally'
<1> DEFINE clipped == {i \in DOMAIN srcs : ~Replayable(srcs[i])}
           undrawn == DOMAIN srcs \ (clipped \cup Replayed(srcs))
           counted == Lost(srcs, clipped, "clipped")
           other == Lost(srcs, undrawn, "no_rasteriser")
<1>1. gone' = gone \cup counted \cup other /\ dropped' = dropped + Cardinality(clipped)
  BY DEF Replay
<1>2. clipped \in SUBSET DOMAIN srcs /\ undrawn \in SUBSET DOMAIN srcs
  OBVIOUS
<1>3. /\ \A g \in counted : g.why = "clipped" /\ g.id \in Ids(srcs)
      /\ \A g \in other : g.why = "no_rasteriser"
  BY DEF Lost, Ids
<1> HIDE DEF clipped, undrawn
<1>4. IsFiniteSet(counted) /\ Cardinality(counted) = Cardinality(clipped) /\ IsFiniteSet(other)
  BY <1>2, LostMany
<1> HIDE DEF counted, other
<1>5. \A g \in counted : g.why \in Counts /\ g \notin gone
  <2>1. \A g \in counted : g.why \in Counts
    BY <1>3 DEF Counts
  <2> QED
    BY <1>3, <2>1, Fresh
<1>6. \A g \in other : g.why \notin Counts \cup Silent
  BY <1>3 DEF Counts, Silent
<1> QED
  BY <1>1, <1>4, <1>5, <1>6, TallyGrows

LEMMA TallyAll ==
  ASSUME IInv, Tally, Onto, NEW srcs \in Seq(SourceSet), Sorted(srcs), Ids(srcs) \subseteq Waiting,
         NEW why \in Counts, gone' = gone \cup Lost(srcs, DOMAIN srcs, why),
         dropped' = dropped + Len(srcs)
  PROVE  Tally'
<1> DEFINE counted == Lost(srcs, DOMAIN srcs, why)
<1>1. \A g \in counted : g.why \in Counts /\ g.id \in Ids(srcs)
  BY DEF Lost, Ids
<1>2. IsFiniteSet(counted) /\ Cardinality(counted) = Cardinality(DOMAIN srcs)
  BY LostMany
<1>3. Cardinality(DOMAIN srcs) = Len(srcs)
  BY DomainMany
<1>4. gone' = gone \cup counted \cup {} /\ IsFiniteSet({})
  BY FS_EmptySet
<1> HIDE DEF counted
<1>5. \A g \in counted : g \notin gone
  BY <1>1, Fresh
<1> QED
  BY <1>1, <1>2, <1>3, <1>4, <1>5, TallyGrows

LEMMA TallyRescue ==
  ASSUME IInv, Tally, Onto, NEW srcs \in Seq(SourceSet), Sorted(srcs), Ids(srcs) \subseteq Waiting,
         Rescue(srcs)
  PROVE  Tally'
<1>1. CASE bound
  BY <1>1, TallyReplay DEF Rescue
<1>2. CASE ~bound
  BY <1>2, TallyAll DEF Rescue, Counts
<1> QED
  BY <1>1, <1>2

LEMMA TallyFailed ==
  ASSUME Tally, Kinds, Window, NEW half \in Seq(SourceSet), Sorted(half),
         NEW undrawn \in Seq(SourceSet), Sorted(undrawn),
         Len(half) + Len(undrawn) <= BatchLimit, Failed(half, undrawn)
  PROVE  Tally'
<1> DEFINE first == Lost(half, DOMAIN half, "half_drawn")
           second == Lost(undrawn, DOMAIN undrawn, "abandoned")
           silent == first \cup second
<1>1. gone' = gone \cup silent /\ dropped' = dropped /\ probe' = Revoked(probe)
  BY DEF Failed, Abandoned
<1>2. ~probe.revoked /\ probe'.revoked
  BY <1>1 DEF Window, Revoked, Kinds
<1>3. \A g \in silent : g.why \in Silent
  BY DEF Lost, Silent
<1>4. /\ IsFiniteSet(first) /\ Cardinality(first) <= Len(half)
      /\ IsFiniteSet(second) /\ Cardinality(second) <= Len(undrawn)
  <2>1. /\ IsFiniteSet(first) /\ Cardinality(first) = Cardinality(DOMAIN half)
        /\ Cardinality(DOMAIN half) <= Len(half)
    BY LostMany
  <2>2. /\ IsFiniteSet(second) /\ Cardinality(second) = Cardinality(DOMAIN undrawn)
        /\ Cardinality(DOMAIN undrawn) <= Len(undrawn)
    BY LostMany
  <2> QED
    BY <2>1, <2>2
<1> HIDE DEF first, second
<1>5. IsFiniteSet(silent) /\ Cardinality(silent) <= BatchLimit
  <2>1. /\ IsFiniteSet(silent)
        /\ Cardinality(silent) = Cardinality(first) + Cardinality(second) - Cardinality(first \cap second)
    BY <1>4, FS_Union
  <2>2. IsFiniteSet(first \cap second)
    BY <1>4, FS_Subset
  <2>3. /\ Cardinality(first) \in Nat /\ Cardinality(second) \in Nat
        /\ Cardinality(first \cap second) \in Nat
    BY <1>4, <2>2, FS_CardinalityType
  <2>4. Len(half) \in Nat /\ Len(undrawn) \in Nat /\ BatchLimit \in Nat
    BY SourcesTyped, LimitsAssumption
  <2> QED
    BY <1>4, <2>1, <2>3, <2>4
<1> HIDE DEF silent
<1> QED
  BY <1>1, <1>2, <1>3, <1>5, TallyFails

(* What a step of the flush finds stands in line, in a list with room.      *)
LEMMA FlushRoom ==
  ASSUME IInv, Room, flush.stage # "none"
  PROVE  /\ Ids(flush.rest) \subseteq Waiting /\ Ids(flush.prefix) \subseteq Waiting
         /\ Len(flush.rest) \in Nat /\ Len(flush.prefix) \in Nat /\ BatchLimit \in Nat
         /\ Len(flush.prefix) + Len(flush.rest) <= BatchLimit /\ Len(flush.rest) <= BatchLimit
         /\ flush.stage # "prefix" => Len(flush.prefix) = 0
<1>1. Ids(flush.rest) \subseteq Waiting /\ Ids(flush.prefix) \subseteq Waiting
  BY DEF Waiting, Flushed
<1>2. flush.rest \in Seq(SourceSet) /\ flush.prefix \in Seq(SourceSet)
      /\ (flush.stage # "prefix" => flush.prefix = <<>>)
  BY FlushFinds
<1>3. Len(flush.rest) \in Nat /\ Len(flush.prefix) \in Nat
  BY <1>2
<1>4. flush.stage # "prefix" => Len(flush.prefix) = 0
  BY <1>2
<1>5. Len(flush.prefix) + Len(flush.rest) <= BatchLimit
  BY DEF Room
<1>6. BatchLimit \in Nat
  BY LimitsAssumption
<1>7. Len(flush.rest) <= BatchLimit
  <2>1. \A m, n \in Nat : m + n <= BatchLimit => n <= BatchLimit
    BY ONLY <1>6
  <2> QED
    BY ONLY <1>3, <1>5, <2>1, Zenon
<1> QED
  BY <1>1, <1>3, <1>4, <1>5, <1>6, <1>7

LEMMA RoomStarts ==
  ASSUME Kinds, Room, flush.stage = "none", StartFlush \/ UNCHANGED flush
  PROVE  Room'
<1>1. CASE UNCHANGED flush
  BY <1>1 DEF Room
<1>2. CASE StartFlush /\ pend # <<>>
  <2>1. flush'.rest = pend /\ flush'.prefix = <<>>
    BY <1>2 DEF StartFlush
  <2>2. Len(pend) \in Nat /\ Len(pend) <= BatchLimit /\ Len(<<>>) = 0
    BY DEF Kinds
  <2> QED
    BY <2>1, <2>2 DEF Room
<1> QED
  BY <1>1, <1>2 DEF StartFlush

LEMMA RoomFlush ==
  ASSUME IInv, Room, FlushStep
  PROVE  Room'
<1>1. CASE EndFlush
  BY <1>1 DEF EndFlush, NoFlush, Room
<1>2. CASE FlushAsks
  <2>1. CASE Window
    <3>1. flush.stage # "none" /\ flush \in Flushes
      BY <1>2, FlushFinds DEF FlushAsks, Flushing
    <3>2. flush'.rest = flush.rest /\ flush'.prefix = flush.prefix
      BY <1>2, <2>1, <3>1 DEF FlushAsks, Flushes
    <3> QED
      BY <3>1, <3>2 DEF Room
  <2> QED
    BY <1>1, <1>2, <2>1 DEF FlushAsks
<1>3. ASSUME NEW t, NEW local \in BOOLEAN, NEW geometry \in BOOLEAN, FlushNamed(t, local, geometry)
      PROVE  Room'
  <2>1. flush.stage # "none" /\ flush.stage # "prefix"
    BY <1>3 DEF FlushNamed, Flushing
  <2>2. flush \in Flushes /\ flush.rest \in Seq(SourceSet)
    BY <2>1, FlushFinds
  <2>3. PICK k \in 0..Len(flush.rest) - 1 :
          flush'.prefix = SubSeq(flush.rest, 1, k) /\ flush'.rest = SubSeq(flush.rest, k + 1, Len(flush.rest))
    BY <1>3, <2>2 DEF FlushNamed, Flushes
  <2>4. Len(flush.rest) \in Nat /\ Len(flush.rest) <= BatchLimit /\ BatchLimit \in Nat
    BY <2>1, FlushRoom
  <2>5. Len(SubSeq(flush.rest, 1, k)) = k
    BY <2>2, <2>4
  <2>6. Len(SubSeq(flush.rest, k + 1, Len(flush.rest))) = Len(flush.rest) - k
    BY <2>2, <2>4
  <2>7. Len(flush'.prefix) = k /\ Len(flush'.rest) = Len(flush.rest) - k
    BY <2>3, <2>5, <2>6
  <2>8. Len(flush'.prefix) + Len(flush'.rest) <= BatchLimit
    BY ONLY <2>4, <2>7, k \in Int
  <2> QED
    BY <2>8 DEF Room
<1>4. CASE FlushPrefix /\ ~EndFlush
  <2>1. flush.stage # "none" /\ ToNamed
    BY <1>4 DEF FlushPrefix, Flushing
  <2>2. flush \in Flushes
    BY <2>1, FlushFinds
  <2>3. flush'.rest = flush.rest /\ flush'.prefix = <<>>
    BY <2>1, <2>2 DEF ToNamed, Flushes
  <2>4. /\ Len(flush.rest) \in Nat /\ Len(flush.prefix) \in Nat /\ BatchLimit \in Nat
        /\ Len(flush.prefix) + Len(flush.rest) <= BatchLimit
    BY <2>1, FlushRoom
  <2>5. Len(flush'.prefix) = 0 /\ Len(flush'.rest) = Len(flush.rest)
    BY <2>3
  <2>6. Len(flush'.prefix) + Len(flush'.rest) <= BatchLimit
    <3>1. \A n \in Nat : n <= BatchLimit => 0 + n <= BatchLimit
      OBVIOUS
    <3>2. Len(flush.rest) \in Nat /\ Len(flush.rest) <= BatchLimit
      BY <2>1, FlushRoom
    <3> QED
      BY ONLY <2>5, <3>1, <3>2, Zenon
  <2> QED
    BY <2>6 DEF Room
<1>5. CASE FlushSource /\ ~EndFlush
  <2>1. flush.stage = "named" /\ flush' = [flush EXCEPT !.stage = "ask", !.rest = Tail(@)]
    BY <1>5 DEF FlushSource, Flushing
  <2>2. flush \in Flushes /\ flush.rest \in Seq(SourceSet) /\ flush.rest # <<>>
    BY <2>1, FlushFinds
  <2>3. flush'.rest = Tail(flush.rest) /\ flush'.prefix = flush.prefix
    BY <2>1, <2>2 DEF Flushes
  <2>4. Len(Tail(flush.rest)) = Len(flush.rest) - 1
    BY <2>2
  <2>5. Len(flush.rest) \in Nat /\ Len(flush.rest) <= BatchLimit /\ BatchLimit \in Nat /\ Len(flush.prefix) = 0
    BY <2>1, FlushRoom
  <2>6. Len(flush'.prefix) = Len(flush.prefix) /\ Len(flush'.rest) = Len(flush.rest) - 1
    BY <2>3, <2>4
  <2>7. Len(flush'.prefix) + Len(flush'.rest) <= BatchLimit
    BY ONLY <2>5, <2>6
  <2> QED
    BY <2>7 DEF Room
<1>6. FlushWarp \/ FlushDrawn \/ FlushFailed \/ FlushRefused => EndFlush
  BY DEF FlushWarp, FlushDrawn, FlushFailed, FlushRefused
<1> QED
  BY <1>1, <1>2, <1>3, <1>4, <1>5, <1>6 DEF FlushStep

LEMMA RoomNext ==
  ASSUME IInv, Room, [Next]_vars
  PROVE  Room'
<1>1. CASE TriangleStep \/ RenderFinish
  <2>1. flush.stage = "none" /\ (StartFlush \/ UNCHANGED flush)
    BY <1>1 DEF TriangleStep, TextureAbsent, TextureResident, TextureUploaded, Softly, WarpDeclines,
                WarpFlushes, WarpAppends, Build, Join, JoinChecked, AppendTraps, ClipFlush,
                RenderFinish, At, Idle, NoFlush
  <2> QED
    BY <2>1, RoomStarts DEF IInv
<1>2. CASE Update \/ Fork \/ RenderStart \/ Draw \/ UNCHANGED vars
  <2>1. UNCHANGED flush
    BY <1>2 DEF Update, UpdateState, Fork, RenderStart, Draw, Triangle, GatedTriangle, vars
  <2> QED
    BY <2>1 DEF Room
<1> QED
  BY <1>1, <1>2, RoomFlush DEF Next

LEMMA TallyFlushWarp ==
  ASSUME IInv, Room, Tally, Onto, FlushWarp
  PROVE  Tally'
<1>1. flush.stage = "warp"
  BY DEF FlushWarp, Flushing
<1>2. PICK srcs : srcs = flush.rest
  OBVIOUS
<1>3. srcs \in Seq(SourceSet) /\ Sorted(srcs) /\ Ids(srcs) \subseteq Waiting
  BY <1>1, <1>2, FlushFinds, FlushRoom
<1>4. Rescue(srcs) \/ Drawn(srcs) \/ WarpFailed(srcs) \/ Replay(srcs)
  BY <1>2 DEF FlushWarp
<1>5. CASE Drawn(srcs)
  BY <1>5, TallyRests DEF Drawn
<1>6. CASE WarpFailed(srcs)
  BY <1>3, <1>6, TallyAll DEF WarpFailed, Counts
<1> QED
  BY <1>3, <1>4, <1>5, <1>6, TallyRescue, TallyReplay

LEMMA TallyFlushSubmit ==
  ASSUME IInv, Room, Tally, Onto, FlushDrawn \/ FlushFailed \/ FlushRefused
  PROVE  Tally'
<1>1. flush.stage = "submit" /\ Window
  BY DEF FlushDrawn, FlushFailed, FlushRefused, Flushing, IInv, Armed
<1>2. PICK srcs : srcs = flush.rest
  OBVIOUS
<1>3. srcs \in Seq(SourceSet) /\ Sorted(srcs) /\ Ids(srcs) \subseteq Waiting /\ Len(srcs) <= BatchLimit
  BY <1>1, <1>2, FlushFinds, FlushRoom
<1>4. CASE Drawn(srcs)
  BY <1>4, TallyRests DEF Drawn
<1>5. CASE Failed(srcs, <<>>)
  <2>1. <<>> \in Seq(SourceSet) /\ Sorted(<<>>) /\ Len(srcs) + Len(<<>>) <= BatchLimit
    BY <1>3, NoneInEmpty
  <2> QED
    BY <1>1, <1>3, <1>5, <2>1, TallyFailed DEF IInv
<1>6. CASE Replay(srcs)
  BY <1>3, <1>6, TallyReplay
<1> QED
  BY <1>2, <1>4, <1>5, <1>6 DEF FlushDrawn, FlushFailed, FlushRefused

LEMMA TallyFlushPrefix ==
  ASSUME IInv, Room, Tally, Onto, FlushPrefix
  PROVE  Tally'
<1>1. flush.stage = "prefix"
  BY DEF FlushPrefix, Flushing
<1>2. PICK first : first = flush.prefix
  OBVIOUS
<1>3. PICK rest : rest = flush.rest
  OBVIOUS
<1>4. /\ first \in Seq(SourceSet) /\ Sorted(first) /\ Ids(first) \subseteq Waiting
      /\ rest \in Seq(SourceSet) /\ Sorted(rest) /\ Ids(rest) \subseteq Waiting
      /\ Before(Ids(first), Ids(rest)) /\ Len(first) + Len(rest) <= BatchLimit
  BY <1>1, <1>2, <1>3, FlushFinds, FlushRoom
<1>5. CASE UNCHANGED <<gone, dropped>>
  BY <1>5, TallyRests
<1>6. CASE Rescue(first \o rest)
  <2>1. PICK both : both = first \o rest
    OBVIOUS
  <2>2. both \in Seq(SourceSet) /\ Sorted(both) /\ Ids(both) = Ids(first) \cup Ids(rest)
    BY <1>4, <2>1, Joined
  <2> QED
    BY <1>4, <1>6, <2>1, <2>2, TallyRescue
<1>7. CASE Window /\ Failed(first, rest)
  BY <1>4, <1>7, TallyFailed DEF IInv
<1>8. CASE Replay(first)
  BY <1>4, <1>8, TallyReplay
<1> QED
  BY <1>2, <1>3, <1>5, <1>6, <1>7, <1>8 DEF FlushPrefix, Drawn

LEMMA TallyFlushSource ==
  ASSUME IInv, Room, Tally, Onto, FlushSource
  PROVE  Tally'
<1>1. flush.stage = "named"
  BY DEF FlushSource, Flushing
<1>2. flush.rest \in Seq(SourceSet) /\ flush.rest # <<>> /\ Ids(flush.rest) \subseteq Waiting
  BY <1>1, FlushFinds, FlushRoom
<1>3. PICK srcs : srcs = <<flush.rest[1]>>
  OBVIOUS
<1>4. flush.rest[1] \in SourceSet /\ flush.rest[1].id \in Ids(flush.rest)
  BY <1>2 DEF Ids
<1>5. srcs \in Seq(SourceSet) /\ DOMAIN srcs = {1} /\ srcs[1] = flush.rest[1]
  BY <1>3, <1>4
<1>6. Sorted(srcs) /\ Ids(srcs) \subseteq Waiting
  BY <1>2, <1>4, <1>5 DEF Sorted, Ids
<1> QED
  BY <1>3, <1>5, <1>6, TallyReplay DEF FlushSource

LEMMA TallyNext ==
  ASSUME IInv, Room, Tally, [Next]_vars
  PROVE  Tally'
<1>1. Onto
  BY StaysRevoked DEF Onto
<1>2. CASE UNCHANGED <<gone, dropped>>
  BY <1>1, <1>2, TallyRests
<1>3. CASE FlushStep
  <2>1. CASE FlushAsks
    <3>1. PICK srcs : srcs = flush.rest
      OBVIOUS
    <3>2. UNCHANGED <<gone, dropped>> \/ Rescue(srcs)
      BY <2>1, <3>1 DEF FlushAsks
    <3>3. srcs \in Seq(SourceSet) /\ Sorted(srcs) /\ Ids(srcs) \subseteq Waiting
      BY <2>1, <3>1, FlushFinds, FlushRoom DEF FlushAsks, Flushing
    <3> QED
      BY <1>1, <1>2, <3>2, <3>3, TallyRescue
  <2>2. ASSUME NEW t, NEW local, NEW geometry, FlushNamed(t, local, geometry)
        PROVE  Tally'
    BY <1>2, <2>2 DEF FlushNamed
  <2> QED
    BY <1>1, <1>3, <2>1, <2>2, TallyFlushWarp, TallyFlushSubmit, TallyFlushPrefix, TallyFlushSource
       DEF FlushStep
<1>4. ASSUME NEW id, NEW own, DrawSoftly(id, own)
      PROVE  Tally'
  <2>1. CASE saved
    BY <1>2, <1>4, <2>1 DEF DrawSoftly
  <2>2. CASE ~saved
    <3> DEFINE g == [id |-> id, why |-> "no_rasteriser"]
    <3>1. gone' = gone \cup {g} /\ dropped' = dropped /\ g.why \notin Counts \cup Silent
      BY <1>4, <2>2 DEF DrawSoftly, Counts, Silent
    <3> HIDE DEF g
    <3> QED
      BY <1>1, <3>1, TallyAside
  <2> QED
    BY <2>1, <2>2
<1>5. CASE Draw
  BY <1>2, <1>4, <1>5 DEF Draw, Triangle, GatedTriangle
<1>6. CASE Softly
  BY <1>2, <1>4, <1>6 DEF Softly
<1>7. CASE Build
  <2>1. CASE gone' = gone \cup {[id |-> job.id, why |-> "no_area"]}
    <3> DEFINE g == [id |-> job.id, why |-> "no_area"]
    <3>1. gone' = gone \cup {g} /\ dropped' = dropped /\ g.why \notin Counts \cup Silent
      BY <1>7, <2>1 DEF Build, Counts, Silent
    <3> HIDE DEF g
    <3> QED
      BY <1>1, <3>1, TallyAside
  <2>2. CASE gone' = gone
    BY <1>2, <1>7, <2>2 DEF Build
  <2> QED
    BY <1>7, <2>1, <2>2 DEF Build
<1>8. CASE TriangleStep /\ ~Softly /\ ~Build
  <2>1. UNCHANGED <<gone, dropped>>
    BY <1>8 DEF TriangleStep, TextureAbsent, TextureResident, TextureUploaded, WarpDeclines,
                WarpFlushes, WarpAppends, Join, JoinChecked, AppendTraps, ClipFlush
  <2> QED
    BY <1>2, <2>1
<1>9. CASE Update \/ Fork \/ RenderStart \/ RenderFinish \/ UNCHANGED vars
  <2>1. UNCHANGED <<gone, dropped>>
    BY <1>9 DEF Update, UpdateState, Fork, RenderStart, RenderFinish, vars
  <2> QED
    BY <1>2, <2>1
<1> QED
  BY <1>3, <1>5, <1>6, <1>7, <1>8, <1>9 DEF Next

LEMMA TallyAlways == Spec => [](IInv /\ Room /\ Tally)
<1>1. Init => Room /\ Tally
  <2> SUFFICES ASSUME Init PROVE Room /\ Tally
    OBVIOUS
  <2>1. gone = {} /\ dropped = 0 /\ flush.stage = "none"
    BY DEF Init, NoFlush
  <2>2. Because(Counts) = {} /\ Because(Silent) = {}
    BY <2>1 DEF Because
  <2> QED
    BY <2>1, <2>2, FS_EmptySet, LimitsAssumption DEF Room, Tally
<1>2. IInv /\ Room /\ Tally /\ [Next]_vars => Room' /\ Tally'
  BY RoomNext, TallyNext
<1> QED
  BY <1>1, <1>2, IInvAlways, PTL DEF Spec

(* The pending batch, the flush in progress and the triangle in progress    *)
(* stay of their kinds, a batch never holds more sources than the limit,    *)
(* and hookDropped counts.                                                  *)
THEOREM TypeCorrect == Spec => []TypeOK
<1>1. IInv /\ Tally => TypeOK
  <2> SUFFICES ASSUME IInv, Tally PROVE TypeOK
    OBVIOUS
  <2>1. IsFiniteSet(Because(Counts))
    BY FS_Subset DEF Tally, Because
  <2> QED
    BY <2>1, FS_CardinalityType DEF IInv, Tally, TypeOK
<1> QED
  BY <1>1, TallyAlways, PTL

(* hookDropped is the number of sources given up, each counted once and      *)
(* none of them painted, but for one failed trapezoid batch at most, that    *)
(* costs the acceleration and is not painted either; every other triangle    *)
(* is on the canvas when the bracket closes, had no area, or no rasteriser.  *)
THEOREM LossesButOneBatchCounted == Spec => []LostButOneBatchCounted
<1>1. IInv /\ Tally => LostButOneBatchCounted
  <2> SUFFICES ASSUME IInv, Tally PROVE LostButOneBatchCounted
    OBVIOUS
  <2>1. ASSUME Idle, ~bracket
        PROVE  pend = <<>> /\ 1..(next - 1) \subseteq PaintedIds \cup GoneIds
    <3>1. pend = <<>> /\ Waiting = {}
      BY <2>1, NoneInEmpty DEF Idle, IInv, Accounted, Waiting, Flushed, Calling, NoFlush, NoJob
    <3> QED
      BY <3>1 DEF IInv, Accounted
  <2>2. \A g \in Because(Counts \cup Silent) : g.id \notin PaintedIds
    BY DEF IInv, InOrder, Painted, NoneRevived, GivenUp, Because
  <2>3. GivenUpOnce
    BY <2>2 DEF GivenUpOnce, Tally
  <2> QED
    BY <2>1, <2>3 DEF LostButOneBatchCounted, NothingOutstanding
<1> QED
  BY <1>1, TallyAlways, PTL
=============================================================================
