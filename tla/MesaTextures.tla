----------------------------- MODULE MesaTextures -----------------------------
(***************************************************************************)
(* Texture images in video memory: mesa/OpenStepMGAMesaTexture.c keeps a   *)
(* residency record on each image, OpenStepMGAMesaTexArena.c hands out the *)
(* blocks, and OpenStepMGAMesaBuffer.c says where behind the colour and    *)
(* depth surfaces the arena starts, and counts the epochs.                 *)
(*                                                                         *)
(* Memory is a row of cells, and a cell holds a texel of one version of    *)
(* one image, or the picture.  The triangles of the pending batch are what *)
(* they sample: the batch may still wait when an image changes, which is   *)
(* what the flush before an upload is for.                                 *)
(***************************************************************************)
EXTENDS Integers, FiniteSets, Sequences, FiniteSetsExt

CONSTANTS
  Textures, NoTexture,
  Widths,            \* cells of an image; 0 is one osmgaTexUsable refuses
  Surfaces,          \* sizes of a surface
  Window,            \* cells of the window
  MaxBlocks,         \* OSMGA_TEX_BLOCKS
  MaxPending,        \* bound: triangles waiting
  MaxChanges         \* bound: images defined, changed and surfaces bound

ASSUME WindowAssumption == Window \in Nat /\ Surfaces \subseteq Nat
ASSUME NoTextureAssumption == NoTexture \notin Textures
ASSUME WidthAssumption == Widths \subseteq Nat

VARIABLES
  hw,        \* the probe says hardware
  surface,   \* [mapped, bound, size, epoch]: bufMapped, bufBound, bufWidth.., texEpoch
  arena,     \* [live, origin, bytes, epoch, blocks]
  image,     \* [Keys -> [width, version]]: what Mesa keeps
  rec,       \* [Keys -> record]: DriverData
  vram,
  pend,      \* the waiting triangles: where they sample and what they must find
  changes

vars == <<hw, surface, arena, image, rec, vram, pend, changes>>

Level == 0..1
Keys == Textures \X Level
Cells == 0..(Window - 1)
Texel(k, version, i) == [of |-> k[1], level |-> k[2], version |-> version, at |-> i]
Picture == [of |-> NoTexture, level |-> 0, version |-> 0, at |-> 0]
None == [made |-> FALSE, epoch |-> 0, width |-> 0, levels |-> 0, origin |-> 0, valid |-> FALSE]
NoArena == [live |-> FALSE, origin |-> 0, bytes |-> 0, epoch |-> 0, blocks |-> {}]

Init ==
  /\ hw = TRUE
  /\ surface = [mapped |-> FALSE, bound |-> FALSE, size |-> 0, epoch |-> 0]
  /\ arena = NoArena
  /\ image = [k \in Keys |-> [width |-> 0, version |-> 0]]
  /\ rec = [k \in Keys |-> None]
  /\ vram = [c \in Cells |-> Picture] /\ pend = {} /\ changes = 0

(* OSMGAMesaBufferTextureArena: behind the colour rows and the depth rows, *)
(* half as large; none when they leave nothing.                            *)
TexStart(size) == 3 * size
ArenaOffered == hw /\ surface.mapped /\ surface.bound /\ TexStart(surface.size) < Window

-----------------------------------------------------------------------------
(* OpenStepMGAMesaTexArena.c.                                              *)

ArenaSet(a, origin, bytes, epoch) ==
  IF a.live /\ a.origin = origin /\ a.bytes = bytes /\ a.epoch = epoch THEN a
  ELSE [live |-> bytes # 0, origin |-> origin, bytes |-> bytes, epoch |-> epoch, blocks |-> {}]

Extent(b) == b.origin..(b.origin + b.bytes - 1)
Taken(a) == UNION {Extent(b) : b \in a.blocks}
(* The gaps that fit; the first is taken.                                  *)
Fits(a, want) ==
  {at \in a.origin..(a.origin + a.bytes - want) :
     Extent([origin |-> at, bytes |-> want]) \cap Taken(a) = {}}
CanAlloc(a, want) ==
  a.live /\ want # 0 /\ Cardinality(a.blocks) < MaxBlocks /\ Fits(a, want) # {}
TexAlloc(a, want) ==
  [a EXCEPT !.blocks = @ \cup {[origin |-> Min(Fits(a, want)), bytes |-> want]}]
TexFree(a, r) ==
  IF r.made /\ a.live /\ r.epoch = a.epoch
  THEN [a EXCEPT !.blocks = {b \in @ : b.origin # r.origin}] ELSE a

-----------------------------------------------------------------------------
(* OpenStepMGAMesaTexture.c.                                               *)

(* osmgaTexDrop for a set of images.                                       *)
Drop(keys) ==
  /\ arena' = [arena EXCEPT !.blocks = IF ~arena.live THEN @ ELSE
                 {b \in @ : ~\E k \in keys : rec[k].made /\ rec[k].epoch = arena.epoch
                                             /\ rec[k].origin = b.origin}]
  /\ rec' = [k \in Keys |-> IF k \in keys THEN None ELSE rec[k]]

WithBase(k) == {k, <<k[1], 0>>}
Changing == changes < MaxChanges /\ changes' = changes + 1
Elsewhere == <<hw, surface, vram, pend>>

(* glTexImage: the record goes, and the base's, which holds the chain.     *)
TexImage(k, width) ==
  /\ Changing
  /\ image' = [image EXCEPT ![k] = [width |-> width, version |-> changes']]
  /\ Drop(WithBase(k))
  /\ UNCHANGED Elsewhere

(* glTexSubImage: the block stays and its copy is stale.                   *)
TexSubImage(k) ==
  /\ Changing /\ image[k].width # 0
  /\ image' = [image EXCEPT ![k].version = changes']
  /\ rec' = [j \in Keys |-> IF j \in WithBase(k) THEN [rec[j] EXCEPT !.valid = FALSE] ELSE rec[j]]
  /\ UNCHANGED <<Elsewhere, arena>>

DeleteTextureBase(t) ==                      \* mutant: only level zero is dropped
  /\ \E l \in Level : image[<<t, l>>].width # 0
  /\ image' = [k \in Keys |-> IF k[1] = t THEN [width |-> 0, version |-> 0] ELSE image[k]]
  /\ arena' = TexFree(arena, rec[<<t, 0>>])
  /\ rec' = [k \in Keys |-> IF k[1] = t THEN None ELSE rec[k]]
  /\ UNCHANGED <<Elsewhere, changes>>
DeleteTexture(t) ==
  /\ \E l \in Level : image[<<t, l>>].width # 0
  /\ image' = [k \in Keys |-> IF k[1] = t THEN [width |-> 0, version |-> 0] ELSE image[k]]
  /\ Drop({t} \X Level)
  /\ UNCHANGED <<Elsewhere, changes>>

(* The chain a texture is asked for: from its base level, down to a level  *)
(* of half the width if there is one to be had; only base zero has one.    *)
Chain(t, base, levels) == [i \in 1..levels |-> <<t, base + i - 1>>]
Usable(chain) ==
  /\ image[chain[1]].width # 0
  /\ Len(chain) = 2 => image[chain[2]].width # 0
                       /\ image[chain[2]].width = image[chain[1]].width \div 2
Offset(chain, i) == IF i = 1 THEN 0 ELSE image[chain[1]].width
Need(chain) == Offset(chain, Len(chain)) + image[chain[Len(chain)]].width
(* What GL says a triangle that samples the chain now must find.           *)
Wanted(chain) ==
  [c \in 0..(Need(chain) - 1) |->
     LET i == IF c < image[chain[1]].width THEN 1 ELSE 2
     IN  Texel(chain[i], image[chain[i]].version, c - Offset(chain, i))]

SuitsAnyEpoch(r, chain) ==                   \* mutant: the surface may have moved
  r.made /\ r.width = image[chain[1]].width /\ r.levels = Len(chain)
Suits(r, chain) ==
  /\ r.made /\ r.epoch = surface.epoch
  /\ r.width = image[chain[1]].width /\ r.levels = Len(chain)
Copied(v, origin, chain) ==                            \* osmgaTexCopy, every level
  [c \in Cells |-> IF c - origin \in DOMAIN Wanted(chain) THEN Wanted(chain)[c - origin] ELSE v[c]]
Sampler(origin, chain) == [origin |-> origin, texels |-> Wanted(chain)]

AnsweredEarly(r, chain) ==                   \* mutant: the batch is not shipped first
  /\ vram' = IF r.valid THEN vram ELSE Copied(vram, r.origin, chain)
  /\ pend' = pend \cup {Sampler(r.origin, chain)}
(* The block is there; texels are copied if they are stale, and whoever    *)
(* waits is drawn before that.  The triangle asking joins the batch.       *)
Answered(r, chain) ==
  IF r.valid
  THEN vram' = vram /\ pend' = pend \cup {Sampler(r.origin, chain)}
  ELSE vram' = Copied(vram, r.origin, chain) /\ pend' = {Sampler(r.origin, chain)}

(* osmgaTexResidentN, for a triangle; memory: MALLOC gives a record.       *)
Resident(t, base, levels, memory) ==
  LET chain == Chain(t, base, levels)
      key == chain[1]
      old == rec[key]
      start == TexStart(surface.size)
      set == ArenaSet(arena, start, Window - start, surface.epoch)
      kept == Suits(old, chain)
      freed == IF kept THEN set ELSE TexFree(set, old)
      new == [made |-> TRUE, epoch |-> surface.epoch, width |-> image[key].width,
              levels |-> levels, origin |-> Min(Fits(freed, Need(chain))), valid |-> FALSE]
      r == IF kept THEN old ELSE new
  IN  /\ levels = 2 => base = 0
      /\ Usable(chain) /\ ArenaOffered /\ Cardinality(pend) < MaxPending
      /\ IF kept \/ (memory /\ CanAlloc(freed, Need(chain)))
         THEN /\ arena' = IF kept THEN set ELSE TexAlloc(freed, Need(chain))
              /\ rec' = [rec EXCEPT ![key] = [r EXCEPT !.valid = TRUE]]
              /\ Answered(r, chain)
         ELSE /\ arena' = freed /\ rec' = [rec EXCEPT ![key] = None]
              /\ UNCHANGED <<vram, pend>>
      /\ UNCHANGED <<hw, surface, image, changes>>

Flush == pend # {} /\ pend' = {} /\ UNCHANGED <<hw, surface, arena, image, rec, vram, changes>>

-----------------------------------------------------------------------------
(* The surface.  A bracket that drew has been flushed before the context   *)
(* is bound elsewhere.                                                     *)

Drawn(v, size) == [c \in Cells |-> IF c < TexStart(size) THEN Picture ELSE v[c]]
Bind(size) ==                                          \* OpenStepMesaAccelBuffer
  /\ Changing /\ hw /\ pend = {} /\ TexStart(size) <= Window
  /\ IF surface.mapped
     THEN /\ surface' = [surface EXCEPT !.bound = (surface.size = size)]
          /\ UNCHANGED vram
     ELSE /\ surface' = [surface EXCEPT !.mapped = TRUE, !.bound = TRUE, !.size = size]
          /\ vram' = Drawn(vram, size)
  /\ UNCHANGED <<hw, arena, image, rec, pend>>

Release ==                                             \* OpenStepMesaAccelReleaseBuffer
  /\ surface.mapped /\ pend = {}
  /\ surface' = [mapped |-> FALSE, bound |-> FALSE, size |-> 0, epoch |-> surface.epoch + 1]
  /\ UNCHANGED <<hw, arena, image, rec, vram, pend, changes>>

Revoke == hw /\ hw' = FALSE /\ UNCHANGED <<surface, arena, image, rec, vram, pend, changes>>

Define == \E k \in Keys : TexSubImage(k) \/ \E width \in Widths : TexImage(k, width)
Delete == \E t \in Textures : DeleteTexture(t)
Draw == \E t \in Textures, base \in Level, levels \in 1..2, memory \in BOOLEAN :
          Resident(t, base, levels, memory)
Rebind == \E size \in Surfaces : Bind(size)

Next == Define \/ Delete \/ Draw \/ Flush \/ Rebind \/ Release \/ Revoke
Spec == Init /\ [][Next]_vars

-----------------------------------------------------------------------------
(* Blocks lie within the arena and never share a cell.                     *)
TypeOK ==
  /\ surface.bound => surface.mapped
  /\ \A b \in arena.blocks : Extent(b) \subseteq arena.origin..(arena.origin + arena.bytes - 1)
  /\ \A a, b \in arena.blocks : a # b => Extent(a) \cap Extent(b) = {}
  /\ \A k \in Keys : rec[k].made => rec[k].origin \in Cells

(* A triangle samples the texels its texture had when it was drawn, though *)
(* the image changed, was deleted or its block was given to another while  *)
(* the triangle waited.                                                    *)
PendingSamplesItsTexels ==
  \A p \in pend : \A c \in DOMAIN p.texels : vram[p.origin + c] = p.texels[c]

(* Every block of the live arena belongs to exactly one record, and every  *)
(* record of its epoch has its block: nothing leaks, nothing is freed under*)
(* another image, whatever was deleted, redefined, refused or bound anew.  *)
OneOwner ==
  LET mine == {k \in Keys : rec[k].made /\ arena.live /\ rec[k].epoch = arena.epoch}
  IN  /\ \A b \in arena.blocks : \E k \in mine : rec[k].origin = b.origin
      /\ \A k \in mine : \E b \in arena.blocks : b.origin = rec[k].origin
      /\ \A j, k \in mine : rec[j].origin = rec[k].origin => j = k

(* A texel is never written over the colour or the depth of the surface,   *)
(* by a record made when the surface was another one least of all.         *)
SurfacesUntouched ==
  surface.mapped => \A c \in Cells : c < TexStart(surface.size) => vram[c] = Picture
=============================================================================
