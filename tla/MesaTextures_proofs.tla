------------------------ MODULE MesaTextures_proofs ------------------------
(***************************************************************************)
(* Proofs about MesaTextures, for any set of textures, any window, any     *)
(* sizes of surface and image, and any capacity of the table.              *)
(*                                                                         *)
(* The invariant has four parts.  Tidy: blocks stay within the arena and   *)
(* share no cell.  Owned: blocks and live records match one to one, and    *)
(* each block is as large as its record says.  Current: a record or an     *)
(* arena of the present epoch belongs to the surface that is mapped now.   *)
(* Fresh: a valid record's cells hold what Mesa's images hold now.         *)
(***************************************************************************)
EXTENDS MesaTextures, WellFoundedInduction, TLAPS

ArenaType ==
  [live : BOOLEAN, origin : Nat, bytes : Nat, epoch : Nat,
   blocks : SUBSET [origin : Nat, bytes : Nat]]
RecordType ==
  [made : BOOLEAN, epoch : Nat, width : Nat, levels : Nat, origin : Nat, valid : BOOLEAN]
RecordsType == [Keys -> RecordType]

Typed ==
  /\ hw \in BOOLEAN
  /\ surface \in [mapped : BOOLEAN, bound : BOOLEAN, size : Nat, epoch : Nat]
  /\ arena \in ArenaType
  /\ image \in [Keys -> [width : Nat, version : Nat]]
  /\ rec \in RecordsType
  /\ vram = [c \in Cells |-> vram[c]]
  /\ changes \in Nat

(* A block's cells, and the cells a record needs.                          *)
Tidy(a) ==
  /\ a.live => a.origin + a.bytes = Window
  /\ \A b \in a.blocks : b.bytes > 0 /\ a.origin <= b.origin /\ b.origin + b.bytes <= a.origin + a.bytes
  /\ \A b, d \in a.blocks : b # d => b.origin + b.bytes <= d.origin \/ d.origin + d.bytes <= b.origin
SizeOf(r) == r.width + (IF r.levels = 2 THEN r.width \div 2 ELSE 0)
Mine(a, r) == {k \in Keys : r[k].made /\ a.live /\ r[k].epoch = a.epoch}
Owned(a, r) ==
  /\ \A b \in a.blocks : \E k \in Mine(a, r) : r[k].origin = b.origin
  /\ \A k \in Mine(a, r) : \E b \in a.blocks : b.origin = r[k].origin /\ b.bytes = SizeOf(r[k])
  /\ \A j, k \in Mine(a, r) : r[j].origin = r[k].origin => j = k

Shaped ==
  \A k \in Keys : rec[k].made =>
    rec[k].levels \in 1..2 /\ (rec[k].levels = 2 => k[2] = 0) /\ rec[k].epoch <= surface.epoch

Current ==
  /\ surface.bound => surface.mapped
  /\ arena.epoch <= surface.epoch
  /\ arena.live /\ arena.epoch = surface.epoch =>
       surface.mapped /\ arena.origin = TexStart(surface.size)
  /\ \A k \in Keys : rec[k].made /\ rec[k].epoch = surface.epoch =>
       arena.live /\ arena.epoch = surface.epoch

(* Cells and texels of the chain of two images, or of one.                 *)
Holds(v, origin, chain) == \A c \in DOMAIN Wanted(chain) : v[origin + c] = Wanted(chain)[c]
Chained(k) == Chain(k[1], k[2], rec[k].levels)
FreshAt(k) ==
  /\ rec[k].width = image[k].width /\ Usable(Chained(k))
  /\ Holds(vram, rec[k].origin, Chained(k))
Fresh == \A k \in Keys : rec[k].made /\ rec[k].valid /\ rec[k].epoch = surface.epoch => FreshAt(k)

IInv ==
  /\ Typed /\ Tidy(arena) /\ Owned(arena, rec) /\ Shaped /\ Current /\ Fresh
  /\ PendingSamplesItsTexels /\ SurfacesUntouched

-----------------------------------------------------------------------------
(* Numbers and chains.                                                     *)

Less == {p \in Nat \X Nat : p[1] < p[2]}

\* A set of naturals that is not empty has a least member, which Min returns.
LEMMA MinIsLeast ==
  ASSUME NEW S, S \subseteq Nat, S # {}
  PROVE  Min(S) \in S /\ \A y \in S : Min(S) <= y
<1>1. IsWellFoundedOn(Less, Nat)
  BY NatLessThanWellFounded DEF OpToRel, Less
<1>2. PICK x \in S : \A y \in S : ~(<<y, x>> \in Less)
  BY <1>1, WFMin
<1>3. ASSUME NEW y \in S PROVE x <= y
  <2>1. x \in Nat /\ y \in Nat
    OBVIOUS
  <2>2. ASSUME y < x PROVE <<y, x>> \in Less
    <3>1. <<y, x>> \in Nat \X Nat /\ <<y, x>>[1] < <<y, x>>[2]
      BY <2>1, <2>2
    <3> QED BY <3>1, Zenon DEF Less
  <2> QED BY <1>2, <2>1, <2>2
<1> QED BY <1>3 DEF Min

KeyOf(t, l) == <<t, l>>

LEMMA KeyFacts ==
  ASSUME NEW k \in Keys
  PROVE  k[1] \in Textures /\ k[2] \in {0, 1} /\ k = <<k[1], k[2]>>
BY DEF Keys, Level

\* What the operators on a chain amount to.
LEMMA ChainFacts ==
  ASSUME Typed, NEW t \in Textures, NEW base \in Level, NEW levels \in 1..2, levels = 2 => base = 0
  PROVE  LET chain == Chain(t, base, levels)
         IN  /\ Len(chain) = levels /\ chain[1] = <<t, base>> /\ chain[1] \in Keys
             /\ levels = 2 => chain[2] = <<t, 1>> /\ chain[2] \in Keys
             /\ Need(chain) = image[<<t, base>>].width + (IF levels = 2 THEN image[<<t, 1>>].width ELSE 0)
             /\ Need(chain) \in Nat
<1> DEFINE chain == Chain(t, base, levels)
<1>1. chain \in Seq(Textures \X {0, 1}) /\ DOMAIN chain = 1..levels
  <2>1. \A i \in 1..levels : base + i - 1 \in {0, 1}
    BY DEF Level
  <2> QED BY <2>1 DEF Chain
<1>2. Len(chain) = levels
  BY <1>1
<1>3. chain[1] = <<t, base>> /\ chain[1] \in Keys
  BY DEF Chain, Keys, Level
<1>4. levels = 2 => chain[2] = <<t, 1>> /\ chain[2] \in Keys
  BY DEF Chain, Keys, Level
<1> HIDE DEF chain
<1>5. Need(chain) = image[<<t, base>>].width + (IF levels = 2 THEN image[<<t, 1>>].width ELSE 0)
  <2>1. CASE levels = 1
    <3>1. Need(chain) = 0 + image[<<t, base>>].width /\ image[<<t, base>>].width \in Nat
      BY <1>2, <1>3, <2>1 DEF Need, Offset, Typed
    <3> QED BY <3>1, <2>1
  <2>2. CASE levels = 2
    BY <1>2, <1>3, <1>4, <2>2 DEF Need, Offset
  <2> QED BY <2>1, <2>2
<1>6. Need(chain) \in Nat
  BY <1>5, <1>3, <1>4 DEF Typed
<1> QED BY <1>2, <1>3, <1>4, <1>5, <1>6 DEF chain

LEMMA WantedDomain == \A chain : DOMAIN Wanted(chain) = 0..(Need(chain) - 1)
BY DEF Wanted

\* A chain's texels depend on nothing but the images of its keys.
LEMMA WantedStands ==
  ASSUME Typed, Typed', NEW t \in Textures, NEW base \in Level, NEW levels \in 1..2, levels = 2 => base = 0,
         image'[<<t, base>>] = image[<<t, base>>],
         levels = 2 => image'[<<t, 1>>] = image[<<t, 1>>]
  PROVE  LET chain == Chain(t, base, levels)
         IN  Wanted(chain)' = Wanted(chain) /\ Need(chain)' = Need(chain) /\ (Usable(chain) => Usable(chain)')
<1> DEFINE chain == Chain(t, base, levels)
<1>1. /\ Len(chain) = levels /\ chain[1] = <<t, base>> /\ chain[1] \in Keys
      /\ levels = 2 => chain[2] = <<t, 1>> /\ chain[2] \in Keys
      /\ Need(chain) = image[<<t, base>>].width + (IF levels = 2 THEN image[<<t, 1>>].width ELSE 0)
  BY ChainFacts
<1>2. chain' = chain
  BY DEF Chain
<1> HIDE DEF chain
<1>3. \A i \in 1..levels : image'[chain[i]] = image[chain[i]]
  BY <1>1
<1>4. Need(chain)' = Need(chain)
  BY <1>1, <1>2, <1>3 DEF Need, Offset
<1>5. Usable(chain)' <=> Usable(chain)
  BY <1>1, <1>2, <1>3 DEF Usable
<1>6. Wanted(chain)' = Wanted(chain)
  <2> DEFINE At(c) == LET i == IF c < image[chain[1]].width THEN 1 ELSE 2
                      IN  Texel(chain[i], image[chain[i]].version, c - Offset(chain, i))
  <2>1. Wanted(chain) = [c \in 0..(Need(chain) - 1) |-> At(c)]
    BY DEF Wanted
  <2>2. Wanted(chain)' = [c \in 0..(Need(chain) - 1) |-> At(c)']
    BY <1>4 DEF Wanted
  <2>3. ASSUME NEW c \in 0..(Need(chain) - 1) PROVE At(c)' = At(c)
    <3>1. image'[chain[1]] = image[chain[1]]
      BY <1>1, <1>3
    <3>2. CASE c < image[chain[1]].width
      BY <1>2, <3>1, <3>2 DEF Offset
    <3>3. CASE ~(c < image[chain[1]].width)
      <4>1. levels = 2
        <5>1. CASE levels = 1
          <6>1. Need(chain) = image[chain[1]].width /\ image[chain[1]].width \in Nat
            BY <1>1, <5>1 DEF Typed
          <6> QED BY <6>1, <3>3
        <5> QED BY <5>1
      <4>2. image'[chain[2]] = image[chain[2]]
        BY <4>1, <1>3
      <4> QED BY <1>2, <3>1, <3>3, <4>2 DEF Offset
    <3> QED BY <3>2, <3>3
  <2> HIDE DEF At
  <2> QED BY <2>1, <2>2, <2>3
<1> QED BY <1>4, <1>5, <1>6 DEF chain

-----------------------------------------------------------------------------
(* The arena.                                                              *)

Dropped(a, r, K) ==
  [a EXCEPT !.blocks = IF ~a.live THEN @ ELSE
     {b \in @ : ~\E k \in K : r[k].made /\ r[k].epoch = a.epoch /\ r[k].origin = b.origin}]
Cleared(r, K) == [k \in Keys |-> IF k \in K THEN None ELSE r[k]]

LEMMA NoneIsRecord == None \in RecordType /\ ~None.made
BY DEF None, RecordType

\* Two blocks of a tidy arena that start at one place are one block.
LEMMA OneBlockAnOrigin ==
  ASSUME NEW a \in ArenaType, Tidy(a), NEW b \in a.blocks, NEW d \in a.blocks, b.origin = d.origin
  PROVE  b = d
<1>1. b \in [origin : Nat, bytes : Nat] /\ d \in [origin : Nat, bytes : Nat]
  BY DEF ArenaType
<1> QED BY <1>1 DEF Tidy

\* Giving back the blocks of some records, and the records, leaves the rest
\* matched one to one.
LEMMA DropKeeps ==
  ASSUME NEW a \in ArenaType, NEW r \in RecordsType, NEW K \in SUBSET Keys, Tidy(a), Owned(a, r)
  PROVE  /\ Dropped(a, r, K) \in ArenaType /\ Cleared(r, K) \in RecordsType
         /\ Tidy(Dropped(a, r, K)) /\ Owned(Dropped(a, r, K), Cleared(r, K))
<1> DEFINE A == Dropped(a, r, K)
           R == Cleared(r, K)
           Gone(b) == \E k \in K : r[k].made /\ r[k].epoch = a.epoch /\ r[k].origin = b.origin
<1>1. A \in ArenaType /\ A.live = a.live /\ A.origin = a.origin /\ A.bytes = a.bytes /\ A.epoch = a.epoch
  BY DEF ArenaType, Dropped
<1>2. A.blocks \subseteq a.blocks /\ (a.live => A.blocks = {b \in a.blocks : ~Gone(b)})
  BY DEF ArenaType, Dropped
<1>3. R \in RecordsType /\ \A k \in Keys : R[k] = (IF k \in K THEN None ELSE r[k])
  BY NoneIsRecord DEF Cleared, RecordsType
<1>4. Tidy(A)
  BY <1>1, <1>2 DEF Tidy
<1>5. Mine(A, R) = Mine(a, r) \ K
  BY <1>1, <1>3, NoneIsRecord DEF Mine
<1> HIDE DEF A, R
<1>6. \A k \in Mine(A, R) : R[k] = r[k]
  BY <1>3, <1>5 DEF Mine
<1>7. ASSUME NEW b \in A.blocks PROVE \E k \in Mine(A, R) : R[k].origin = b.origin
  <2>1. PICK k \in Mine(a, r) : r[k].origin = b.origin
    BY <1>2 DEF Owned
  <2>2. ~Gone(b) /\ r[k].made /\ r[k].epoch = a.epoch
    BY <1>2, <2>1 DEF Mine
  <2>3. k \notin K
    BY <2>1, <2>2
  <2> QED BY <2>1, <2>3, <1>5, <1>6
<1>8. ASSUME NEW k \in Mine(A, R)
      PROVE  \E b \in A.blocks : b.origin = R[k].origin /\ b.bytes = SizeOf(R[k])
  <2>1. k \in Mine(a, r) /\ k \notin K /\ a.live
    BY <1>5 DEF Mine
  <2>2. PICK b \in a.blocks : b.origin = r[k].origin /\ b.bytes = SizeOf(r[k])
    BY <2>1 DEF Owned
  <2>3. ASSUME Gone(b) PROVE FALSE
    <3>1. PICK j \in K : r[j].made /\ r[j].epoch = a.epoch /\ r[j].origin = b.origin
      BY <2>3
    <3>2. j \in Mine(a, r)
      BY <3>1, <2>1 DEF Mine
    <3> QED BY <3>1, <3>2, <2>1, <2>2 DEF Owned
  <2> QED BY <2>1, <2>2, <2>3, <1>2, <1>6
<1>9. \A j, k \in Mine(A, R) : R[j].origin = R[k].origin => j = k
  BY <1>5, <1>6 DEF Owned
<1> QED BY <1>1, <1>3, <1>4, <1>7, <1>8, <1>9 DEF Owned, A, R

\* TexFree of one record is the dropping of it.
LEMMA FreeIsDrop ==
  ASSUME NEW a \in ArenaType, NEW r \in RecordsType, NEW key \in Keys
  PROVE  TexFree(a, r[key]) = Dropped(a, r, {key})
BY DEF TexFree, Dropped, ArenaType, RecordsType, RecordType

\* A new block in a gap, and the record that names it.
LEMMA AllocKeeps ==
  ASSUME NEW a \in ArenaType, NEW r \in RecordsType, NEW want \in Nat, NEW key \in Keys,
         NEW new \in RecordType, Tidy(a), Owned(a, r), CanAlloc(a, want), key \notin Mine(a, r),
         new.made, new.epoch = a.epoch, new.origin = Min(Fits(a, want)), SizeOf(new) = want
  PROVE  LET A == TexAlloc(a, want)
             R == [r EXCEPT ![key] = new]
         IN  /\ A \in ArenaType /\ Tidy(A) /\ Owned(A, R)
             /\ A.live = a.live /\ A.origin = a.origin /\ A.bytes = a.bytes /\ A.epoch = a.epoch
<1> DEFINE A == TexAlloc(a, want)
           R == [r EXCEPT ![key] = new]
           at == Min(Fits(a, want))
           block == [origin |-> at, bytes |-> want]
<1>1. a.live /\ want > 0 /\ Fits(a, want) # {}
  BY DEF CanAlloc
<1>2. Fits(a, want) \subseteq Nat
  BY DEF Fits, ArenaType
<1>3. at \in Fits(a, want) /\ at \in Nat
  BY <1>1, <1>2, MinIsLeast
<1> HIDE DEF at
<1>4. /\ a.origin <= at /\ at + want <= a.origin + a.bytes
      /\ Extent(block) \cap Taken(a) = {}
  BY <1>3 DEF Fits, ArenaType
<1>5. A \in ArenaType /\ A.live = a.live /\ A.origin = a.origin /\ A.bytes = a.bytes /\ A.epoch = a.epoch
      /\ A.blocks = a.blocks \cup {block}
  BY <1>3 DEF TexAlloc, ArenaType, at
<1>6. ASSUME NEW b \in a.blocks
      PROVE  at + want <= b.origin \/ b.origin + b.bytes <= at
  <2>1. b.origin \in Nat /\ b.bytes \in Nat /\ b.bytes > 0
    BY DEF ArenaType, Tidy
  <2>2. Extent(block) \cap Extent(b) = {}
    BY <1>4 DEF Taken
  <2>3. \A c \in Int : ~(at <= c /\ c < at + want /\ b.origin <= c /\ c < b.origin + b.bytes)
    <3>1. ASSUME NEW c \in Int, at <= c, c < at + want, b.origin <= c, c < b.origin + b.bytes
          PROVE  FALSE
      <4>1. c \in Extent(block) /\ c \in Extent(b)
        BY <3>1, <2>1, <1>3 DEF Extent
      <4> QED BY <4>1, <2>2
    <3> QED BY <3>1
  <2> QED BY <2>1, <2>3, <1>1, <1>3
<1>7. Tidy(A)
  <2>1. \A b \in A.blocks : b.bytes > 0 /\ A.origin <= b.origin /\ b.origin + b.bytes <= A.origin + A.bytes
    BY <1>1, <1>4, <1>5 DEF Tidy
  <2>2. \A b, d \in A.blocks : b # d => b.origin + b.bytes <= d.origin \/ d.origin + d.bytes <= b.origin
    BY <1>5, <1>6 DEF Tidy
  <2> QED BY <2>1, <2>2, <1>5 DEF Tidy
<1>8. R \in RecordsType /\ R[key] = new /\ \A k \in Keys \ {key} : R[k] = r[k]
  BY DEF RecordsType
<1> HIDE DEF A, R
<1>9. Mine(A, R) = Mine(a, r) \cup {key}
  BY <1>1, <1>5, <1>8 DEF Mine
<1>10. \A k \in Mine(a, r) : k # key /\ R[k] = r[k]
  BY <1>8 DEF Mine
<1>11. \A b \in A.blocks : \E k \in Mine(A, R) : R[k].origin = b.origin
  <2>1. R[key].origin = block.origin
    BY <1>8 DEF at
  <2> QED BY <2>1, <1>5, <1>9, <1>10 DEF Owned
<1>12. \A k \in Mine(A, R) : \E b \in A.blocks : b.origin = R[k].origin /\ b.bytes = SizeOf(R[k])
  <2>1. block.origin = R[key].origin /\ block.bytes = SizeOf(R[key]) /\ block \in A.blocks
    BY <1>5, <1>8 DEF at
  <2>2. ASSUME NEW k \in Mine(a, r)
        PROVE  \E b \in A.blocks : b.origin = R[k].origin /\ b.bytes = SizeOf(R[k])
    <3>1. PICK b \in a.blocks : b.origin = r[k].origin /\ b.bytes = SizeOf(r[k])
      BY DEF Owned
    <3> QED BY <3>1, <1>5, <1>10
  <2> HIDE DEF block
  <2> QED BY <2>1, <2>2, <1>9
<1>13. ASSUME NEW k \in Mine(a, r) PROVE R[k].origin # R[key].origin
  <2>1. PICK b \in a.blocks : b.origin = r[k].origin
    BY DEF Owned
  <2>2. b.origin \in Nat /\ b.bytes \in Nat /\ b.bytes > 0
    BY DEF ArenaType, Tidy
  <2>3. b.origin # at
    BY <2>2, <1>1, <1>3, <1>6
  <2> QED BY <2>1, <2>3, <1>8, <1>10 DEF at
<1>14. \A j, k \in Mine(A, R) : R[j].origin = R[k].origin => j = k
  BY <1>9, <1>10, <1>13 DEF Owned
<1> QED BY <1>5, <1>7, <1>11, <1>12, <1>14 DEF Owned, A, R

-----------------------------------------------------------------------------
(* What the records hold.                                                  *)

\* The chain of a record, and the cells it needs.
LEMMA RecordChain ==
  ASSUME Typed, Shaped, NEW k \in Keys, rec[k].made
  PROVE  /\ k[1] \in Textures /\ k[2] \in Level /\ k = <<k[1], k[2]>> /\ rec[k].levels \in 1..2
         /\ rec[k].levels = 2 => k[2] = 0 /\ <<k[1], 1>> \in Keys
         /\ Need(Chained(k)) \in Nat /\ DOMAIN Wanted(Chained(k)) = 0..(Need(Chained(k)) - 1)
         /\ FreshAt(k) => Need(Chained(k)) = SizeOf(rec[k])
<1>1. k[1] \in Textures /\ k[2] \in Level /\ k = <<k[1], k[2]>>
  BY DEF Keys, Level
<1>2. rec[k].levels \in 1..2 /\ (rec[k].levels = 2 => k[2] = 0)
  BY DEF Shaped
<1>3. <<k[1], 1>> \in Keys
  BY <1>1 DEF Keys, Level
<1> DEFINE chain == Chained(k)
<1>4. /\ Len(chain) = rec[k].levels /\ chain[1] = k
      /\ rec[k].levels = 2 => chain[2] = <<k[1], 1>>
      /\ Need(chain) = image[k].width + (IF rec[k].levels = 2 THEN image[<<k[1], 1>>].width ELSE 0)
      /\ Need(chain) \in Nat /\ DOMAIN Wanted(chain) = 0..(Need(chain) - 1)
  <2> DEFINE c == Chain(k[1], k[2], rec[k].levels)
  <2>1. /\ Len(c) = rec[k].levels /\ c[1] = <<k[1], k[2]>>
        /\ rec[k].levels = 2 => c[2] = <<k[1], 1>>
        /\ Need(c) = image[<<k[1], k[2]>>].width + (IF rec[k].levels = 2 THEN image[<<k[1], 1>>].width ELSE 0)
        /\ Need(c) \in Nat
    BY ONLY <1>1, <1>2, Typed, ChainFacts
  <2> QED BY <2>1, <1>1, WantedDomain DEF Chained
<1> HIDE DEF chain
<1>5. ASSUME rec[k].width = image[k].width, Usable(chain) PROVE Need(chain) = SizeOf(rec[k])
  BY <1>2, <1>4, <1>5 DEF Usable, SizeOf
<1> QED BY <1>1, <1>2, <1>3, <1>4, <1>5 DEF chain, FreshAt

\* A record stays true while its images and its cells stay.
LEMMA FreshStands ==
  ASSUME Typed, Typed', Shaped, NEW k \in Keys, rec[k].made, FreshAt(k),
         rec'[k] = rec[k], image'[k] = image[k],
         rec[k].levels = 2 => image'[<<k[1], 1>>] = image[<<k[1], 1>>],
         \A c \in 0..(Need(Chained(k)) - 1) : vram'[rec[k].origin + c] = vram[rec[k].origin + c]
  PROVE  FreshAt(k)'
<1>1. /\ k[1] \in Textures /\ k[2] \in Level /\ k = <<k[1], k[2]>> /\ rec[k].levels \in 1..2
      /\ rec[k].levels = 2 => k[2] = 0
      /\ DOMAIN Wanted(Chained(k)) = 0..(Need(Chained(k)) - 1)
  BY RecordChain
<1> DEFINE chain == Chain(k[1], k[2], rec[k].levels)
<1>2. Wanted(chain)' = Wanted(chain) /\ (Usable(chain) => Usable(chain)')
  BY <1>1, WantedStands
<1>3. Chained(k)' = chain' /\ chain' = chain /\ Chained(k) = chain
  BY DEF Chained, Chain
<1> HIDE DEF chain
<1>4. Holds(vram, rec[k].origin, chain)'
  BY <1>1, <1>2, <1>3 DEF FreshAt, Holds
<1> QED BY <1>2, <1>3, <1>4 DEF FreshAt

\* An upload puts the texels where the record says, and nowhere else.
LEMMA CopyHolds ==
  ASSUME Typed, NEW t \in Textures, NEW base \in Level, NEW levels \in 1..2, levels = 2 => base = 0,
         NEW origin \in Nat, origin + Need(Chain(t, base, levels)) <= Window
  PROVE  LET chain == Chain(t, base, levels)
             v == Copied(vram, origin, chain)
         IN  /\ Holds(v, origin, chain) /\ v = [c \in Cells |-> v[c]]
             /\ \A c \in Cells : c < origin \/ origin + Need(chain) <= c => v[c] = vram[c]
<1> DEFINE chain == Chain(t, base, levels)
           v == Copied(vram, origin, chain)
<1>1. Need(chain) \in Nat /\ DOMAIN Wanted(chain) = 0..(Need(chain) - 1)
  BY ChainFacts, WantedDomain
<1> HIDE DEF chain
<1>2. v = [c \in Cells |-> v[c]]
  BY DEF Copied
<1>3. \A c \in Cells : v[c] = IF c - origin \in DOMAIN Wanted(chain) THEN Wanted(chain)[c - origin] ELSE vram[c]
  BY DEF Copied
<1> HIDE DEF v
<1>4. ASSUME NEW c \in 0..(Need(chain) - 1) PROVE v[origin + c] = Wanted(chain)[c]
  <2>1. origin + c \in Cells /\ (origin + c) - origin = c
    BY <1>1, WindowAssumption DEF Cells, chain
  <2> QED BY <1>1, <1>3, <2>1
<1>5. Holds(v, origin, chain)
  BY <1>1, <1>4 DEF Holds
<1>6. ASSUME NEW c \in Cells, c < origin \/ origin + Need(chain) <= c PROVE v[c] = vram[c]
  <2>1. c - origin \notin 0..(Need(chain) - 1)
    BY <1>1, <1>6, WindowAssumption DEF Cells
  <2> QED BY <1>1, <1>3, <2>1
<1> QED BY <1>2, <1>5, <1>6 DEF chain, v

\* The cells of a live record are a block's, within the arena.
LEMMA RecordBlock ==
  ASSUME Typed, Tidy(arena), Owned(arena, rec), NEW k \in Mine(arena, rec)
  PROVE  /\ rec[k].origin \in Nat /\ SizeOf(rec[k]) \in Nat
         /\ arena.origin <= rec[k].origin /\ rec[k].origin + SizeOf(rec[k]) <= Window
<1>1. PICK b \in arena.blocks : b.origin = rec[k].origin /\ b.bytes = SizeOf(rec[k])
  BY DEF Owned
<1>2. b.origin \in Nat /\ b.bytes \in Nat
  BY DEF Typed, ArenaType
<1> QED BY <1>1, <1>2 DEF Tidy, Mine

\* Two live records share no cell.
LEMMA RecordsApart ==
  ASSUME Typed, Tidy(arena), Owned(arena, rec), NEW j \in Mine(arena, rec), NEW k \in Mine(arena, rec), j # k
  PROVE  \/ rec[j].origin + SizeOf(rec[j]) <= rec[k].origin
         \/ rec[k].origin + SizeOf(rec[k]) <= rec[j].origin
<1>1. PICK b \in arena.blocks : b.origin = rec[j].origin /\ b.bytes = SizeOf(rec[j])
  BY DEF Owned
<1>2. PICK d \in arena.blocks : d.origin = rec[k].origin /\ d.bytes = SizeOf(rec[k])
  BY DEF Owned
<1>3. b # d
  BY <1>1, <1>2 DEF Owned
<1> QED BY <1>1, <1>2, <1>3 DEF Tidy

-----------------------------------------------------------------------------
(* The images change: records are dropped or marked stale.                 *)

\* Records are dropped, and every image that changes has its record and its
\* base's among them.
LEMMA DropStep ==
  ASSUME IInv, NEW K \in SUBSET Keys, Drop(K), UNCHANGED <<hw, surface, vram, pend>>,
         image' \in [Keys -> [width : Nat, version : Nat]], changes' \in Nat,
         \A k \in Keys : image'[k] # image[k] => k \in K /\ <<k[1], 0>> \in K
  PROVE  IInv'
<1> USE DEF IInv
<1>1. arena' = Dropped(arena, rec, K) /\ rec' = Cleared(rec, K)
  BY DEF Drop, Dropped, Cleared, Typed, ArenaType
<1>2. /\ arena' \in ArenaType /\ rec' \in RecordsType /\ Tidy(arena') /\ Owned(arena', rec')
      /\ arena'.live = arena.live /\ arena'.origin = arena.origin /\ arena'.epoch = arena.epoch
  <2>1. arena \in ArenaType /\ rec \in RecordsType
    BY DEF Typed
  <2>2. Dropped(arena, rec, K).live = arena.live /\ Dropped(arena, rec, K).origin = arena.origin
        /\ Dropped(arena, rec, K).epoch = arena.epoch
    BY <2>1 DEF Dropped, ArenaType
  <2> QED BY <1>1, <2>1, <2>2, DropKeeps
<1>3. Typed'
  BY <1>2 DEF Typed, Cells
<1>4. \A k \in Keys : rec'[k].made => k \notin K /\ rec'[k] = rec[k]
  BY <1>1, NoneIsRecord DEF Cleared
<1>5. Shaped' /\ Current'
  BY <1>2, <1>4 DEF Shaped, Current, TexStart
<1>6. ASSUME NEW k \in Keys, rec'[k].made, rec'[k].valid, rec'[k].epoch = surface'.epoch
      PROVE  FreshAt(k)'
  <2>1. k \notin K /\ rec'[k] = rec[k] /\ rec[k].made /\ FreshAt(k)
    BY <1>4, <1>6 DEF Fresh
  <2>2. image'[k] = image[k]
    BY <2>1
  <2>3. ASSUME rec[k].levels = 2 PROVE image'[<<k[1], 1>>] = image[<<k[1], 1>>]
    <3>1. k = <<k[1], 0>> /\ <<k[1], 1>> \in Keys
      BY <2>1, <2>3, RecordChain
    <3> DEFINE j == <<k[1], 1>>
    <3>2. j[1] = k[1]
      OBVIOUS
    <3> HIDE DEF j
    <3>3. image'[j] # image[j] => <<j[1], 0>> \in K
      BY <3>1 DEF j
    <3> QED BY <2>1, <3>1, <3>2, <3>3 DEF j
  <2> QED BY <1>3, <2>1, <2>2, <2>3, FreshStands
<1>7. PendingSamplesItsTexels' /\ SurfacesUntouched'
  BY DEF PendingSamplesItsTexels, SurfacesUntouched, TexStart, Cells, Picture
<1>8. Fresh'
  BY <1>6 DEF Fresh
<1> QED BY <1>2, <1>3, <1>5, <1>7, <1>8

\* An image changes under a block that stays: the record is stale.
LEMMA SubImageStep ==
  ASSUME IInv, NEW k \in Keys, TexSubImage(k)
  PROVE  IInv'
<1> USE DEF IInv
<1>1. /\ UNCHANGED <<hw, surface, vram, pend, arena>> /\ changes' \in Nat
      /\ image' = [image EXCEPT ![k].version = changes']
      /\ rec' = [j \in Keys |-> IF j \in WithBase(k) THEN [rec[j] EXCEPT !.valid = FALSE] ELSE rec[j]]
  BY DEF TexSubImage, Elsewhere, Changing, Typed
<1>2. /\ rec' \in RecordsType
      /\ \A j \in Keys : /\ rec'[j].made = rec[j].made /\ rec'[j].epoch = rec[j].epoch
                         /\ rec'[j].width = rec[j].width /\ rec'[j].levels = rec[j].levels
                         /\ rec'[j].origin = rec[j].origin
                         /\ rec'[j].valid => j \notin WithBase(k) /\ rec'[j] = rec[j]
  BY <1>1 DEF Typed, RecordsType, RecordType
<1>3. Typed'
  BY <1>1, <1>2 DEF Typed, Cells
<1>4. Owned(arena', rec')
  <2>1. Mine(arena', rec') = Mine(arena, rec)
    BY <1>1, <1>2 DEF Mine
  <2>2. \A j \in Mine(arena, rec) : rec'[j].origin = rec[j].origin /\ SizeOf(rec'[j]) = SizeOf(rec[j])
    BY <1>2 DEF Mine, SizeOf
  <2>3. \A b \in arena.blocks : \E j \in Mine(arena, rec) : rec'[j].origin = b.origin
    BY <2>2 DEF Owned
  <2>4. \A j \in Mine(arena, rec) : \E b \in arena.blocks : b.origin = rec'[j].origin /\ b.bytes = SizeOf(rec'[j])
    BY <2>2 DEF Owned
  <2>5. \A i, j \in Mine(arena, rec) : rec'[i].origin = rec'[j].origin => i = j
    BY <2>2 DEF Owned
  <2>6. arena' = arena
    BY <1>1
  <2>7. Mine(arena, rec') = Mine(arena, rec)
    BY <2>1, <2>6
  <2>8. Owned(arena, rec')
    BY <2>3, <2>4, <2>5, <2>7 DEF Owned
  <2> QED BY <2>6, <2>8
<1>5. Shaped' /\ Current'
  BY <1>1, <1>2 DEF Shaped, Current, TexStart
<1>6. ASSUME NEW j \in Keys, rec'[j].made, rec'[j].valid, rec'[j].epoch = surface'.epoch
      PROVE  FreshAt(j)'
  <2>1. j \notin WithBase(k) /\ rec'[j] = rec[j] /\ rec[j].made /\ FreshAt(j)
    BY <1>1, <1>2, <1>6 DEF Fresh
  <2>2. image'[j] = image[j]
    BY <1>1, <2>1 DEF WithBase, Typed
  <2>3. ASSUME rec[j].levels = 2 PROVE image'[<<j[1], 1>>] = image[<<j[1], 1>>]
    <3>1. j = <<j[1], 0>> /\ <<j[1], 1>> \in Keys
      BY <2>1, <2>3, RecordChain
    <3>2. <<j[1], 1>> # k
      <4>1. ASSUME k = <<j[1], 1>> PROVE FALSE
        <5>1. k[1] = j[1]
          BY <4>1
        <5> QED BY <2>1, <3>1, <5>1 DEF WithBase
      <4> QED BY <4>1
    <3> QED BY <1>1, <3>1, <3>2 DEF Typed
  <2> QED BY <1>3, <2>1, <2>2, <2>3, <1>1, FreshStands
<1>7. PendingSamplesItsTexels' /\ SurfacesUntouched'
  BY <1>1 DEF PendingSamplesItsTexels, SurfacesUntouched, TexStart, Cells, Picture
<1>8. Fresh'
  BY <1>6 DEF Fresh
<1> QED BY <1>1, <1>3, <1>4, <1>5, <1>7, <1>8

LEMMA DefineStep ==
  ASSUME IInv, Define
  PROVE  IInv'
<1>1. PICK k \in Keys : TexSubImage(k) \/ \E width \in Widths : TexImage(k, width)
  BY DEF Define
<1>2. CASE TexSubImage(k)
  BY <1>2, SubImageStep
<1>3. ASSUME NEW width \in Widths, TexImage(k, width) PROVE IInv'
  <2>1. /\ Drop(WithBase(k)) /\ UNCHANGED <<hw, surface, vram, pend>> /\ changes' \in Nat
        /\ image' = [image EXCEPT ![k] = [width |-> width, version |-> changes']]
    BY <1>3 DEF TexImage, Elsewhere, Changing, IInv, Typed
  <2>2. image' \in [Keys -> [width : Nat, version : Nat]]
    BY <2>1, WidthAssumption DEF IInv, Typed
  <2>3. \A j \in Keys : image'[j] # image[j] => j \in WithBase(k) /\ <<j[1], 0>> \in WithBase(k)
    BY <2>1 DEF IInv, Typed, WithBase
  <2>4. WithBase(k) \in SUBSET Keys
    BY KeyFacts DEF WithBase, Keys, Level
  <2> QED BY <2>1, <2>2, <2>3, <2>4, DropStep
<1> QED BY <1>1, <1>2, <1>3

LEMMA DeleteStep ==
  ASSUME IInv, Delete
  PROVE  IInv'
<1>1. PICK t \in Textures : DeleteTexture(t)
  BY DEF Delete
<1>2. /\ Drop({t} \X Level) /\ UNCHANGED <<hw, surface, vram, pend>> /\ changes' \in Nat
      /\ image' = [k \in Keys |-> IF k[1] = t THEN [width |-> 0, version |-> 0] ELSE image[k]]
  BY <1>1 DEF DeleteTexture, Elsewhere, IInv, Typed
<1>3. image' \in [Keys -> [width : Nat, version : Nat]]
  BY <1>2 DEF IInv, Typed
<1>4. ASSUME NEW k \in Keys, image'[k] # image[k]
      PROVE  k \in {t} \X Level /\ <<k[1], 0>> \in {t} \X Level
  <2>1. k[1] = t
    BY <1>2, <1>4
  <2> QED BY <2>1, KeyFacts DEF Level
<1>5. {t} \X Level \in SUBSET Keys
  BY DEF Keys
<1> QED BY <1>2, <1>3, <1>4, <1>5, DropStep

-----------------------------------------------------------------------------
(* A triangle asks for its texture.                                        *)

\* What the question leaves, whoever answers: the arena is the one of the
\* surface, as it was or freshly laid out.
LEMMA ArenaIsSet ==
  ASSUME IInv, ArenaOffered
  PROVE  LET start == TexStart(surface.size)
             set == ArenaSet(arena, start, Window - start, surface.epoch)
         IN  /\ set \in ArenaType /\ Tidy(set) /\ Owned(set, rec)
             /\ set.live /\ set.epoch = surface.epoch /\ set.origin = start
<1> DEFINE start == TexStart(surface.size)
           set == ArenaSet(arena, start, Window - start, surface.epoch)
<1>1. start \in Nat /\ Window - start \in Nat /\ Window - start # 0 /\ surface.epoch \in Nat /\ surface.mapped
  BY WindowAssumption DEF IInv, Typed, TexStart, ArenaOffered
<1>2. CASE arena.live /\ arena.origin = start /\ arena.bytes = Window - start /\ arena.epoch = surface.epoch
  BY <1>2 DEF IInv, Typed, ArenaSet
<1>3. CASE ~(arena.live /\ arena.origin = start /\ arena.bytes = Window - start /\ arena.epoch = surface.epoch)
  <2>1. set = [live |-> TRUE, origin |-> start, bytes |-> Window - start, epoch |-> surface.epoch, blocks |-> {}]
    BY <1>1, <1>3 DEF ArenaSet
  <2>2. ~(arena.live /\ arena.epoch = surface.epoch)
    <3>1. ASSUME arena.live, arena.epoch = surface.epoch PROVE FALSE
      <4>1. arena.origin = start /\ arena.origin + arena.bytes = Window
        BY <3>1 DEF IInv, Current, Tidy
      <4> QED BY <1>3, <3>1, <4>1, <1>1, WindowAssumption DEF IInv, Typed, ArenaType
    <3> QED BY <3>1
  <2>3. \A k \in Keys : rec[k].made => rec[k].epoch # surface.epoch
    BY <2>2 DEF IInv, Current
  <2> HIDE DEF start, set
  <2>4. set \in ArenaType /\ set.live /\ set.epoch = surface.epoch /\ set.origin = start /\ set.blocks = {}
        /\ set.origin + set.bytes = Window
    <3>1. start + (Window - start) = Window /\ {} \in SUBSET [origin : Nat, bytes : Nat]
      BY <1>1, WindowAssumption
    <3> QED BY <2>1, <3>1, <1>1 DEF ArenaType
  <2>5. Mine(set, rec) = {}
    BY <2>3, <2>4 DEF Mine
  <2>6. Tidy(set) /\ Owned(set, rec)
    BY <2>4, <2>5 DEF Tidy, Owned
  <2> QED BY <2>4, <2>6 DEF start, set
<1> QED BY <1>2, <1>3

\* A live record, new or kept, whose block is in the arena: answering it
\* leaves every valid record true and no triangle waiting over stale cells.
LEMMA AnsweredStep ==
  ASSUME IInv, NEW t \in Textures, NEW base \in Level, NEW levels \in 1..2, levels = 2 => base = 0,
         Usable(Chain(t, base, levels)), surface.mapped,
         NEW r \in RecordType, r.made, r.epoch = surface.epoch, r.levels = levels,
         r.width = image[<<t, base>>].width, r.valid => r = rec[<<t, base>>],
         rec' = [rec EXCEPT ![<<t, base>>] = [r EXCEPT !.valid = TRUE]],
         arena' \in ArenaType, Tidy(arena'), Owned(arena', rec'),
         arena'.live, arena'.epoch = surface.epoch, arena'.origin = TexStart(surface.size),
         Answered(r, Chain(t, base, levels)), UNCHANGED <<hw, surface, image, changes>>
  PROVE  IInv'
<1> DEFINE key == <<t, base>>
           chain == Chain(t, base, levels)
<1>0. Typed /\ t \in Textures /\ base \in Level /\ levels \in 1..2 /\ (levels = 2 => base = 0)
  BY DEF IInv
<1>1. key \in Keys /\ key[1] = t /\ key[2] = base
  BY DEF Keys
<1>2. Need(chain) \in Nat /\ Need(chain) = SizeOf(r) /\ DOMAIN Wanted(chain) = 0..(Need(chain) - 1)
  <2>1. /\ Len(chain) = levels /\ chain[1] = key
        /\ levels = 2 => chain[2] = <<t, 1>>
        /\ Need(chain) = image[key].width + (IF levels = 2 THEN image[<<t, 1>>].width ELSE 0)
        /\ Need(chain) \in Nat
    <3>1. /\ Len(chain) = levels /\ chain[1] = <<t, base>> /\ chain[1] \in Keys
          /\ levels = 2 => chain[2] = <<t, 1>> /\ chain[2] \in Keys
          /\ Need(chain) = image[<<t, base>>].width + (IF levels = 2 THEN image[<<t, 1>>].width ELSE 0)
          /\ Need(chain) \in Nat
      BY ONLY <1>0, ChainFacts
    <3> QED BY <3>1
  <2> HIDE DEF chain, key
  <2> QED BY <2>1, WantedDomain DEF SizeOf, Usable, chain, key
<1>3. PICK b \in arena'.blocks : b.origin = r.origin /\ b.bytes = Need(chain)
  <2>1. rec'[key].made /\ rec'[key].epoch = surface.epoch /\ rec'[key].origin = r.origin
        /\ SizeOf(rec'[key]) = SizeOf(r)
    BY <1>1 DEF IInv, Typed, RecordsType, RecordType, SizeOf
  <2>2. key \in Mine(arena', rec')
    BY <1>1, <2>1 DEF Mine
  <2> HIDE DEF key
  <2>3. \E b \in arena'.blocks : b.origin = rec'[key].origin /\ b.bytes = SizeOf(rec'[key])
    BY <2>2 DEF Owned
  <2> QED BY <1>2, <2>1, <2>3
<1> HIDE DEF key
<1>4. r.origin \in Nat /\ TexStart(surface.size) <= r.origin /\ r.origin + Need(chain) <= Window
  BY <1>3 DEF Tidy, ArenaType
<1> DEFINE v == Copied(vram, r.origin, chain)
<1>5. /\ Holds(v, r.origin, chain) /\ v = [c \in Cells |-> v[c]]
      /\ \A c \in Cells : c < r.origin \/ r.origin + Need(chain) <= c => v[c] = vram[c]
  BY <1>4, CopyHolds DEF IInv
<1> HIDE DEF v
<1>6. vram' = vram \/ vram' = v
  BY DEF Answered, v
<1>7. ~r.valid => vram' = v
  BY DEF Answered, v
<1>8. Typed'
  <2>1. [r EXCEPT !.valid = TRUE] \in RecordType
    BY DEF RecordType
  <2>2. rec' \in RecordsType
    BY <2>1 DEF IInv, Typed, RecordsType, key
  <2>3. vram' = [c \in Cells |-> vram'[c]]
    BY <1>5, <1>6 DEF IInv, Typed
  <2> QED BY <2>2, <2>3 DEF IInv, Typed, Cells
<1>9. rec'[key] = [r EXCEPT !.valid = TRUE] /\ \A k \in Keys \ {key} : rec'[k] = rec[k]
  BY <1>1 DEF IInv, Typed, RecordsType, key
<1>10. Shaped'
  <2>1. rec'[key].made /\ rec'[key].levels = levels /\ rec'[key].epoch = surface.epoch
    BY <1>9 DEF RecordType
  <2>2. surface' = surface /\ surface.epoch \in Nat
    BY DEF IInv, Typed
  <2> QED BY <1>1, <1>9, <2>1, <2>2 DEF IInv, Shaped
<1>11. Current'
  BY <1>9 DEF IInv, Current, Typed, TexStart
<1>12. \A k \in Keys : rec'[k].made /\ rec'[k].epoch = surface.epoch => k \in Mine(arena', rec')
  BY DEF Mine
<1>13. key \in Mine(arena', rec') /\ rec'[key].origin = r.origin /\ SizeOf(rec'[key]) = Need(chain)
  <2>1. /\ rec'[key].made /\ rec'[key].epoch = surface.epoch /\ rec'[key].origin = r.origin
        /\ rec'[key].width = r.width /\ rec'[key].levels = r.levels
    BY <1>9 DEF RecordType
  <2>2. SizeOf(rec'[key]) = SizeOf(r)
    BY <2>1 DEF SizeOf
  <2> QED BY <1>1, <1>2, <1>12, <2>1, <2>2
<1>14. Holds(vram', r.origin, chain)
  <2>1. CASE r.valid
    <3>1. r = rec[key] /\ vram' = vram /\ FreshAt(key)
      BY <2>1, <1>1 DEF Answered, IInv, Fresh, key
    <3>2. Chained(key) = chain
      BY <1>1, <3>1 DEF Chained
    <3> QED BY <3>1, <3>2 DEF FreshAt
  <2> QED BY <2>1, <1>5, <1>7
<1>15. FreshAt(key)'
  <2>1. Chained(key)' = chain /\ image' = image
    BY <1>1, <1>9 DEF Chained, Chain, RecordType
  <2>2. Usable(chain)' /\ Holds(vram, r.origin, chain)'
    <3>1. Wanted(chain)' = Wanted(chain) /\ Usable(chain)'
      BY <1>0, <1>8, <2>1, WantedStands
    <3> QED BY <3>1, <1>14 DEF Holds
  <2>3. rec'[key].width = image[key].width /\ rec'[key].origin = r.origin
    BY <1>9 DEF RecordType, key
  <2> QED BY <2>1, <2>2, <2>3 DEF FreshAt
<1>16. ASSUME NEW k \in Keys, k # key, rec'[k].made, rec'[k].valid, rec'[k].epoch = surface'.epoch
       PROVE  FreshAt(k)'
  <2>1. rec'[k] = rec[k] /\ FreshAt(k) /\ rec[k].made
    BY <1>9, <1>16 DEF IInv, Fresh
  <2>2. Need(Chained(k)) = SizeOf(rec[k]) /\ Need(Chained(k)) \in Nat
    BY <2>1, RecordChain DEF IInv
  <2>3. k \in Mine(arena', rec')
    BY <1>12, <1>16
  <2>4. /\ rec'[k].origin \in Nat /\ rec'[k].origin + SizeOf(rec'[k]) <= Window
        /\ \/ rec'[k].origin + SizeOf(rec'[k]) <= r.origin
           \/ r.origin + Need(chain) <= rec'[k].origin
    <3>1. PICK d \in arena'.blocks : d.origin = rec'[k].origin /\ d.bytes = SizeOf(rec'[k])
      BY <2>3 DEF Owned
    <3>2. rec'[k].origin # rec'[key].origin
      BY <1>13, <2>3, <1>16 DEF Owned
    <3>3. d # b
      BY <3>1, <3>2, <1>3, <1>13
    <3> QED BY <3>1, <3>3, <1>3 DEF Tidy, ArenaType
  <2>5. ASSUME NEW c \in 0..(Need(Chained(k)) - 1) PROVE vram'[rec[k].origin + c] = vram[rec[k].origin + c]
    <3> DEFINE at == rec[k].origin
               n == Need(Chained(k))
               m == Need(chain)
    <3>0. at \in Nat /\ at + n <= Window /\ (at + n <= r.origin \/ r.origin + m <= at)
      BY <2>1, <2>2, <2>4
    <3>1. n \in Nat /\ m \in Nat /\ r.origin \in Nat /\ c \in 0..(n - 1)
      BY <2>2, <1>2, <1>4
    <3> HIDE DEF at, n, m
    <3>2. at + c \in Cells /\ (at + c < r.origin \/ r.origin + m <= at + c)
      BY <3>0, <3>1, WindowAssumption DEF Cells
    <3>3. v[at + c] = vram[at + c]
      BY <3>2, <1>5 DEF m
    <3> QED BY <3>3, <1>6 DEF at
  <2> QED BY <1>8, <2>1, <2>5, FreshStands DEF IInv
<1>17. Fresh'
  BY <1>15, <1>16 DEF Fresh
<1>18. PendingSamplesItsTexels'
  <2> DEFINE s == Sampler(r.origin, chain)
  <2>1. \A c \in DOMAIN s.texels : vram'[s.origin + c] = s.texels[c]
    BY <1>14 DEF Sampler, Holds
  <2>2. r.valid => vram' = vram /\ pend' = pend \cup {s}
    BY DEF Answered
  <2>3. ~r.valid => pend' = {s}
    BY DEF Answered
  <2> HIDE DEF s
  <2> QED BY <2>1, <2>2, <2>3 DEF IInv, PendingSamplesItsTexels
<1>19. SurfacesUntouched'
  <2>1. ASSUME NEW c \in Cells, c < TexStart(surface.size) PROVE v[c] = vram[c]
    <3>1. TexStart(surface.size) \in Nat
      BY <1>0 DEF Typed, TexStart
    <3>2. c < r.origin
      BY <2>1, <3>1, <1>4, WindowAssumption DEF Cells
    <3> QED BY <3>2, <1>5
  <2>2. TexStart(surface.size)' = TexStart(surface.size) /\ surface' = surface
    BY DEF TexStart
  <2> QED BY <2>1, <2>2, <1>6 DEF IInv, SurfacesUntouched, Cells, Picture
<1> QED BY <1>8, <1>10, <1>11, <1>17, <1>18, <1>19 DEF IInv

\* A triangle asks: the copy is kept, a block is found, or none is.
LEMMA ResidentStep ==
  ASSUME IInv, NEW t \in Textures, NEW base \in Level, NEW levels \in 1..2, NEW memory \in BOOLEAN,
         Resident(t, base, levels, memory)
  PROVE  IInv'
<1> DEFINE chain == Chain(t, base, levels)
           key == <<t, base>>
           start == TexStart(surface.size)
           set == ArenaSet(arena, start, Window - start, surface.epoch)
           old == rec[key]
           kept == Suits(old, chain)
           freed == TexFree(set, old)
           new == [made |-> TRUE, epoch |-> surface.epoch, width |-> image[key].width,
                   levels |-> levels, origin |-> Min(Fits(freed, Need(chain))), valid |-> FALSE]
           found == memory /\ CanAlloc(freed, Need(chain))
<1>1. Typed /\ t \in Textures /\ base \in Level /\ levels \in 1..2 /\ (levels = 2 => base = 0)
  BY DEF IInv, Resident
<1>2. /\ Len(chain) = levels /\ chain[1] = <<t, base>> /\ chain[1] \in Keys
      /\ levels = 2 => chain[2] = <<t, 1>> /\ chain[2] \in Keys
      /\ Need(chain) = image[<<t, base>>].width + (IF levels = 2 THEN image[<<t, 1>>].width ELSE 0)
      /\ Need(chain) \in Nat
  BY ONLY <1>1, ChainFacts
<1>3. key \in Keys /\ chain[1] = key
  BY <1>2
<1>4. /\ Usable(chain) /\ ArenaOffered /\ surface.mapped
      /\ UNCHANGED <<hw, surface, image, changes>>
      /\ kept => /\ arena' = set /\ rec' = [rec EXCEPT ![key] = [old EXCEPT !.valid = TRUE]]
                 /\ Answered(old, chain)
      /\ ~kept /\ found => /\ arena' = TexAlloc(freed, Need(chain))
                           /\ rec' = [rec EXCEPT ![key] = [new EXCEPT !.valid = TRUE]]
                           /\ Answered(new, chain)
      /\ ~kept /\ ~found => /\ arena' = freed /\ rec' = [rec EXCEPT ![key] = None]
                            /\ UNCHANGED <<vram, pend>>
  <2> HIDE DEF chain
  <2>1. chain[1] = key
    BY <1>3
  <2> QED BY <2>1 DEF Resident, ArenaOffered, chain
<1>5. /\ set \in ArenaType /\ Tidy(set) /\ Owned(set, rec)
      /\ set.live /\ set.epoch = surface.epoch /\ set.origin = start
  BY <1>4, ArenaIsSet
<1>6. old \in RecordType /\ rec \in RecordsType /\ surface.epoch \in Nat
  BY <1>1, <1>3 DEF Typed, RecordsType
<1>7. kept => old.made /\ old.epoch = surface.epoch /\ old.width = image[key].width /\ old.levels = levels
  BY <1>2 DEF Suits
<1> HIDE DEF set, chain, key, start
<1>8. CASE kept
  <2> DEFINE R == [rec EXCEPT ![key] = [old EXCEPT !.valid = TRUE]]
  <2>1. R \in RecordsType /\ \A k \in Keys :
          /\ R[k].made = rec[k].made /\ R[k].epoch = rec[k].epoch /\ R[k].origin = rec[k].origin
          /\ R[k].width = rec[k].width /\ R[k].levels = rec[k].levels
    BY <1>3, <1>6 DEF RecordsType, RecordType
  <2> HIDE DEF R
  <2>2. Mine(set, R) = Mine(set, rec)
    BY <2>1 DEF Mine
  <2>3. \A k \in Mine(set, rec) : R[k].origin = rec[k].origin /\ SizeOf(R[k]) = SizeOf(rec[k])
    BY <2>1 DEF Mine, SizeOf
  <2>4. \A b \in set.blocks : \E k \in Mine(set, rec) : R[k].origin = b.origin
    BY <1>5, <2>3 DEF Owned
  <2>5. \A k \in Mine(set, rec) : \E b \in set.blocks : b.origin = R[k].origin /\ b.bytes = SizeOf(R[k])
    BY <1>5, <2>3 DEF Owned
  <2>6. \A j, k \in Mine(set, rec) : R[j].origin = R[k].origin => j = k
    BY <1>5, <2>3 DEF Owned
  <2>7. Owned(set, R)
    BY <2>2, <2>4, <2>5, <2>6 DEF Owned
  <2>8. arena' = set /\ rec' = R
    BY <1>4, <1>8 DEF R
  <2>9. rec' = [rec EXCEPT ![<<t, base>>] = [old EXCEPT !.valid = TRUE]] /\ old = rec[<<t, base>>]
        /\ old.width = image[<<t, base>>].width /\ Answered(old, Chain(t, base, levels))
        /\ Usable(Chain(t, base, levels))
    BY <1>4, <1>7, <1>8 DEF key, chain
  <2> QED BY <1>1, <1>4, <1>5, <1>6, <1>7, <1>8, <2>7, <2>8, <2>9, AnsweredStep DEF start
<1>9. /\ freed \in ArenaType /\ Cleared(rec, {key}) \in RecordsType
      /\ Tidy(freed) /\ Owned(freed, Cleared(rec, {key}))
      /\ freed.live /\ freed.epoch = surface.epoch /\ freed.origin = start
  <2>1. freed = Dropped(set, rec, {key})
    BY <1>3, <1>5, <1>6, FreeIsDrop
  <2>2. freed.live = set.live /\ freed.epoch = set.epoch /\ freed.origin = set.origin
    BY <1>5 DEF TexFree, ArenaType
  <2> QED BY <1>3, <1>5, <1>6, <2>1, <2>2, DropKeeps
<1>10. /\ ~Cleared(rec, {key})[key].made
       /\ \A x \in RecordType : [Cleared(rec, {key}) EXCEPT ![key] = x] = [rec EXCEPT ![key] = x]
       /\ Cleared(rec, {key}) = [rec EXCEPT ![key] = None]
  BY <1>3, <1>6 DEF Cleared, RecordsType, None
<1>11. CASE ~kept /\ found
  <2> DEFINE made == [new EXCEPT !.valid = TRUE]
             at == Min(Fits(freed, Need(chain)))
  <2>1. at \in Nat /\ CanAlloc(freed, Need(chain)) /\ Need(chain) \in Nat
    <3>1. CanAlloc(freed, Need(chain)) /\ Need(chain) \in Nat
      BY <1>2, <1>11 DEF chain
    <3>2. Fits(freed, Need(chain)) \subseteq Nat /\ Fits(freed, Need(chain)) # {}
      BY <1>9, <3>1 DEF Fits, ArenaType, CanAlloc
    <3> QED BY <3>1, <3>2, MinIsLeast
  <2> HIDE DEF at
  <2>2. image[key].width \in Nat
    BY <1>1, <1>3 DEF Typed
  <2>3. new \in RecordType /\ made \in RecordType /\ new.made /\ made.made /\ new.epoch = surface.epoch
        /\ made.epoch = surface.epoch /\ new.levels = levels /\ made.levels = levels
        /\ new.width = image[key].width /\ made.width = image[key].width
        /\ made.origin = at /\ ~new.valid
    <3>1. new = [made |-> TRUE, epoch |-> surface.epoch, width |-> image[key].width,
                 levels |-> levels, origin |-> at, valid |-> FALSE]
      BY DEF at
    <3>2. surface.epoch \in Nat /\ image[key].width \in Nat /\ levels \in Nat /\ at \in Nat
      BY <1>1, <1>6, <2>1, <2>2
    <3> HIDE DEF new
    <3>3. new \in RecordType
      BY ONLY <3>1, <3>2 DEF RecordType
    <3>4. new.made /\ new.epoch = surface.epoch /\ new.levels = levels
          /\ new.width = image[key].width /\ new.origin = at /\ ~new.valid
      BY ONLY <3>1
    <3>5. made \in RecordType /\ made.made = new.made /\ made.epoch = new.epoch
          /\ made.levels = new.levels /\ made.width = new.width /\ made.origin = new.origin
      BY ONLY <3>3 DEF RecordType
    <3> QED BY ONLY <3>3, <3>4, <3>5
  <2> HIDE DEF new, made
  <2>4. SizeOf(made) = Need(chain)
    <3>1. Usable(chain) /\ Len(chain) = levels /\ chain[1] = key /\ (levels = 2 => chain[2] = <<t, 1>>)
          /\ Need(chain) = image[key].width + (IF levels = 2 THEN image[<<t, 1>>].width ELSE 0)
      BY <1>2, <1>4 DEF chain, key
    <3> QED BY <3>1, <1>1, <2>2, <2>3 DEF Usable, SizeOf
  <2>5. key \notin Mine(freed, Cleared(rec, {key}))
    BY <1>10 DEF Mine
  <2>6. LET A == TexAlloc(freed, Need(chain))
            R == [Cleared(rec, {key}) EXCEPT ![key] = made]
        IN  /\ A \in ArenaType /\ Tidy(A) /\ Owned(A, R)
            /\ A.live = freed.live /\ A.origin = freed.origin /\ A.epoch = freed.epoch
    <3>1. /\ freed \in ArenaType /\ Cleared(rec, {key}) \in RecordsType
          /\ Need(chain) \in Nat /\ key \in Keys /\ made \in RecordType
      BY <1>3, <1>9, <2>1, <2>3
    <3>2. /\ Tidy(freed) /\ Owned(freed, Cleared(rec, {key})) /\ CanAlloc(freed, Need(chain))
          /\ key \notin Mine(freed, Cleared(rec, {key})) /\ made.made
          /\ made.epoch = freed.epoch /\ SizeOf(made) = Need(chain)
      BY <1>9, <2>1, <2>3, <2>4, <2>5
    <3>3. made.origin = Min(Fits(freed, Need(chain)))
      BY <2>3 DEF at
    <3> HIDE DEF freed
    <3> QED BY ONLY <3>1, <3>2, <3>3, AllocKeeps
  <2>7. arena' = TexAlloc(freed, Need(chain)) /\ rec' = [Cleared(rec, {key}) EXCEPT ![key] = made]
    BY <1>4, <1>10, <1>11, <2>3 DEF made
  <2>8. /\ arena' \in ArenaType /\ Tidy(arena') /\ Owned(arena', rec')
        /\ arena'.live /\ arena'.epoch = surface.epoch /\ arena'.origin = TexStart(surface.size)
    BY <1>9, <2>6, <2>7 DEF start
  <2>9. rec' = [rec EXCEPT ![<<t, base>>] = [new EXCEPT !.valid = TRUE]]
        /\ new.width = image[<<t, base>>].width /\ Answered(new, Chain(t, base, levels))
        /\ Usable(Chain(t, base, levels))
    BY <1>4, <1>11, <2>3 DEF key, chain
  <2> QED BY <1>1, <1>4, <2>3, <2>8, <2>9, AnsweredStep
<1>12. CASE ~kept /\ ~found
  <2>1. arena' = freed /\ rec' = Cleared(rec, {key}) /\ UNCHANGED <<vram, pend>>
    BY <1>4, <1>10, <1>12
  <2>2. \A k \in Keys : rec'[k].made => rec'[k] = rec[k]
    BY <2>1, NoneIsRecord DEF Cleared
  <2>3. Typed'
    BY <1>4, <1>9, <2>1 DEF IInv, Typed, Cells
  <2>4. Shaped' /\ Current'
    <3>1. /\ surface' = surface /\ arena'.live /\ arena'.epoch = surface.epoch
          /\ arena'.origin = TexStart(surface.size) /\ surface.mapped
          /\ surface.epoch \in Nat /\ (surface.bound => surface.mapped)
      BY <1>4, <1>6, <1>9, <2>1 DEF start
    <3>2. Shaped'
      BY <2>2, <3>1 DEF IInv, Shaped
    <3>3. Current'
      BY ONLY <3>1 DEF Current, TexStart
    <3> QED BY <3>2, <3>3
  <2>5. ASSUME NEW k \in Keys, rec'[k].made, rec'[k].valid, rec'[k].epoch = surface'.epoch
        PROVE  FreshAt(k)'
    <3>1. rec'[k] = rec[k] /\ rec[k].made /\ FreshAt(k)
      BY <2>2, <2>5, <1>4 DEF IInv, Fresh
    <3> QED BY <3>1, <2>1, <2>3, <1>4, FreshStands DEF IInv
  <2>6. Fresh'
    BY <2>5 DEF Fresh
  <2>7. PendingSamplesItsTexels' /\ SurfacesUntouched'
    BY <1>4, <2>1 DEF IInv, PendingSamplesItsTexels, SurfacesUntouched, TexStart, Cells, Picture
  <2> QED BY <1>9, <2>1, <2>3, <2>4, <2>6, <2>7 DEF IInv
<1> QED BY <1>8, <1>11, <1>12

-----------------------------------------------------------------------------
(* The surface.                                                            *)

\* A step that leaves images, records, arena and pixels leaves every record
\* true, whatever it does to the surface and to who waits.
LEMMA FreshThrough ==
  ASSUME IInv, Typed', UNCHANGED <<arena, image, rec>>,
         \A k \in Keys : rec[k].made /\ rec[k].epoch = surface'.epoch =>
           rec[k].epoch = surface.epoch /\ vram' = vram
  PROVE  Fresh'
<1>1. ASSUME NEW k \in Keys, rec'[k].made, rec'[k].valid, rec'[k].epoch = surface'.epoch
      PROVE  FreshAt(k)'
  <2>1. rec'[k] = rec[k] /\ rec[k].made /\ rec[k].epoch = surface.epoch /\ vram' = vram
    BY <1>1
  <2>2. FreshAt(k)
    BY <1>1, <2>1 DEF IInv, Fresh
  <2> QED BY <2>1, <2>2, FreshStands DEF IInv
<1> QED BY <1>1 DEF Fresh

LEMMA BindStep ==
  ASSUME IInv, NEW size \in Surfaces, Bind(size)
  PROVE  IInv'
<1>1. /\ UNCHANGED <<hw, arena, image, rec, pend>> /\ pend = {} /\ changes' \in Nat /\ size \in Nat
      /\ surface'.epoch = surface.epoch /\ surface'.mapped
      /\ surface' \in [mapped : BOOLEAN, bound : BOOLEAN, size : Nat, epoch : Nat]
  <2>1. surface \in [mapped : BOOLEAN, bound : BOOLEAN, size : Nat, epoch : Nat] /\ changes \in Nat
        /\ size \in Nat
    BY WindowAssumption DEF IInv, Typed
  <2>2. UNCHANGED <<hw, arena, image, rec, pend>> /\ pend = {} /\ changes' = changes + 1
    BY DEF Bind, Changing
  <2>3. \/ surface.mapped /\ surface' = [surface EXCEPT !.bound = (surface.size = size)]
        \/ surface' = [surface EXCEPT !.mapped = TRUE, !.bound = TRUE, !.size = size]
    BY DEF Bind
  <2>4. (surface.size = size) \in BOOLEAN
    OBVIOUS
  <2>5. surface'.epoch = surface.epoch /\ surface'.mapped
        /\ surface' \in [mapped : BOOLEAN, bound : BOOLEAN, size : Nat, epoch : Nat]
    BY ONLY <2>1, <2>3, <2>4
  <2> QED BY <2>1, <2>2, <2>5
<1>2. CASE surface.mapped
  <2>1. vram' = vram /\ surface'.size = surface.size
    BY <1>2 DEF Bind, IInv, Typed
  <2>2. Typed'
    BY <1>1, <2>1 DEF IInv, Typed, Cells
  <2>3. Shaped' /\ Current'
    BY <1>1, <1>2, <2>1 DEF IInv, Shaped, Current, TexStart
  <2>4. Fresh'
    BY <1>1, <2>1, <2>2, FreshThrough
  <2>5. PendingSamplesItsTexels' /\ SurfacesUntouched'
    BY <1>1, <1>2, <2>1 DEF IInv, PendingSamplesItsTexels, SurfacesUntouched, TexStart, Cells, Picture
  <2> QED BY <1>1, <2>2, <2>3, <2>4, <2>5 DEF IInv
<1>3. CASE ~surface.mapped
  <2>1. vram' = Drawn(vram, size) /\ surface'.size = size
    BY <1>3 DEF Bind, IInv, Typed
  <2>2. Typed'
    BY <1>1, <2>1 DEF IInv, Typed, Cells, Drawn
  <2>3. \A k \in Keys : rec[k].made => rec[k].epoch # surface.epoch
    BY <1>3 DEF IInv, Current
  <2>4. Shaped' /\ Current'
    BY <1>1, <1>3, <2>3 DEF IInv, Shaped, Current
  <2>5. Fresh'
    BY <1>1, <2>2, <2>3, FreshThrough
  <2>6. PendingSamplesItsTexels' /\ SurfacesUntouched'
    BY <1>1, <2>1 DEF IInv, PendingSamplesItsTexels, SurfacesUntouched, Drawn, Cells, Picture
  <2> QED BY <1>1, <2>2, <2>4, <2>5, <2>6 DEF IInv
<1> QED BY <1>2, <1>3

LEMMA ReleaseStep ==
  ASSUME IInv, Release
  PROVE  IInv'
<1>1. /\ UNCHANGED <<hw, arena, image, rec, vram, pend, changes>>
      /\ surface' = [mapped |-> FALSE, bound |-> FALSE, size |-> 0, epoch |-> surface.epoch + 1]
  BY DEF Release
<1>2. surface.epoch \in Nat /\ Typed'
  BY <1>1 DEF IInv, Typed, Cells
<1>3. Shaped'
  BY <1>1, <1>2 DEF IInv, Shaped, Typed, RecordsType, RecordType
<1>4. \A k \in Keys : rec[k].made => rec[k].epoch # surface'.epoch
  BY <1>1, <1>2 DEF IInv, Shaped, Typed, RecordsType, RecordType
<1>5. Current'
  BY <1>1, <1>2, <1>4 DEF IInv, Current, Typed, ArenaType
<1>6. Fresh'
  BY <1>1, <1>2, <1>4, FreshThrough
<1>7. PendingSamplesItsTexels' /\ SurfacesUntouched'
  BY <1>1 DEF IInv, PendingSamplesItsTexels, SurfacesUntouched, Cells, Picture
<1> QED BY <1>1, <1>2, <1>3, <1>5, <1>6, <1>7 DEF IInv

LEMMA QuietStep ==
  ASSUME IInv, Flush \/ Revoke \/ UNCHANGED vars
  PROVE  IInv'
<1>1. /\ UNCHANGED <<surface, arena, image, rec, vram, changes>> /\ hw' \in BOOLEAN
      /\ pend' = pend \/ pend' = {}
  BY DEF Flush, Revoke, vars, IInv, Typed
<1>2. Typed'
  BY <1>1 DEF IInv, Typed, Cells
<1>3. Shaped' /\ Current'
  BY <1>1 DEF IInv, Shaped, Current, TexStart
<1>4. Fresh'
  BY <1>1, <1>2, FreshThrough
<1>5. PendingSamplesItsTexels' /\ SurfacesUntouched'
  BY <1>1 DEF IInv, PendingSamplesItsTexels, SurfacesUntouched, TexStart, Cells, Picture
<1> QED BY <1>1, <1>2, <1>3, <1>4, <1>5 DEF IInv

-----------------------------------------------------------------------------
LEMMA InitHolds == Init => IInv
<1> SUFFICES ASSUME Init PROVE IInv
  OBVIOUS
<1>1. \A k \in Keys : ~rec[k].made
  BY DEF Init, None
<1>2. Typed
  BY NoneIsRecord DEF Init, Typed, ArenaType, NoArena, RecordsType
<1>3. Mine(arena, rec) = {} /\ arena.blocks = {} /\ ~arena.live /\ arena.epoch = 0
  BY <1>1 DEF Mine, Init, NoArena
<1>4. Tidy(arena) /\ Owned(arena, rec)
  BY <1>3 DEF Tidy, Owned
<1>5. Shaped /\ Fresh
  BY <1>1 DEF Shaped, Fresh
<1>6. Current
  BY <1>1, <1>3 DEF Init, Current
<1>7. PendingSamplesItsTexels /\ SurfacesUntouched
  BY DEF Init, PendingSamplesItsTexels, SurfacesUntouched
<1> QED BY <1>2, <1>4, <1>5, <1>6, <1>7 DEF IInv

LEMMA Inductive == Spec => []IInv
<1>1. IInv /\ [Next]_vars => IInv'
  <2> SUFFICES ASSUME IInv, [Next]_vars PROVE IInv'
    OBVIOUS
  <2>1. CASE Draw
    <3>1. PICK t \in Textures, base \in Level, levels \in 1..2, memory \in BOOLEAN :
            Resident(t, base, levels, memory)
      BY <2>1 DEF Draw
    <3> QED BY <3>1, ResidentStep
  <2>2. CASE Rebind
    BY <2>2, BindStep DEF Rebind
  <2> QED BY <2>1, <2>2, DefineStep, DeleteStep, ReleaseStep, QuietStep DEF Next
<1> QED BY <1>1, InitHolds, PTL DEF Spec

(* A waiting triangle finds the texels its texture had when it was drawn,  *)
(* for any textures, window, surfaces and table: no block a triangle waits *)
(* on is uploaded into without the flush before it (osmgaTexResidentN).    *)
THEOREM WaitingTrianglesKeepTheirTexels == Spec => []PendingSamplesItsTexels
<1>1. IInv => PendingSamplesItsTexels
  BY DEF IInv
<1> QED BY <1>1, Inductive, PTL

(* Blocks never share a cell and never reach past the window, with however *)
(* many allocations, refusals and frees between them: first fit over the   *)
(* gaps is right (OSMGATexAlloc).                                          *)
THEOREM BlocksStayApart == Spec => []Tidy(arena)
<1>1. IInv => Tidy(arena)
  BY DEF IInv
<1> QED BY <1>1, Inductive, PTL

(* Every block has one record and every live record its block: no order of *)
(* definitions, deletions, refusals and new surfaces leaks a block or frees*)
(* one under another image (OpenStepMGAMesaTexArena.c, osmgaTexDrop).      *)
THEOREM BlocksHaveOneOwner == Spec => []OneOwner
<1>1. IInv => OneOwner
  BY DEF IInv, OneOwner, Owned, Mine
<1> QED BY <1>1, Inductive, PTL

(* No upload writes below the arena of the surface that is mapped, whatever*)
(* records outlived the surface they were made for.                        *)
THEOREM UploadsSpareTheSurface == Spec => []SurfacesUntouched
<1>1. IInv => SurfacesUntouched
  BY DEF IInv
<1> QED BY <1>1, Inductive, PTL
=============================================================================
