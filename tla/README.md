# A verification model of the OPENSTEP Matrox display driver

The repository replaces the display driver of OPENSTEP 4.2 for the Matrox G450
and gives Mesa 3.4 a hardware back end on the same card.  This directory holds
TLA+ models of its control logic, the TLC instances that check them, and proofs
that TLAPS checks.  Paths below are relative to `src/`; `D/` stands for
`OSMGADisplay/OSMGADisplay_reloc.tproj/`, and `.m` alone is
`D/OpenStepMGAReplacementDisplay.m`.

1. [The system](#1-the-system)
2. [Modules and how they correspond to the code](#2-modules-and-how-they-correspond-to-the-code)
3. [Runs, bounds and fairness](#3-runs-bounds-and-fairness)
4. [What is proved](#4-what-is-proved)
5. [Where the code and its text disagree](#5-where-the-code-and-its-text-disagree)
6. [What is not modelled](#6-what-is-not-modelled)
7. [Plan](#7-plan)
8. [Running it](#8-running-it)

## 1. The system

Three kernel pieces share a card: the display driver (a DriverKit instance with a
character device beside it), a read-only probe and a small lease server.  In user
space a Mesa 3.4 back end opens the character device, maps the command batch and
the offscreen window, writes batches of primitives and submits them by `ioctl`.

| Component | State | Operations | Interacts with | Hard behaviour | Correct means |
|---|---|---|---|---|---|
| **Engine arbitration** (`.m`) | `stormBusy`, `stormBlitFailed`, `osmgaModeEpoch`, `linearModeActive`, the `osmgaHW3D*` answer words | submit v9 and v10, present, blit, fill, WARP harness, mode enter and revert, re-arm, inject | ioctl callers, window server, card | several threads; a flag claimed under a lock and used outside it; bounded polls; late completions; a claim taken by force after one second | one user of the engine at a time; an engine still writing is never handed on; answers are about the right batch |
| **Offscreen window and its device** (`.m`, `D/OpenStepMGAWindowMath.c`) | `windowStart`, `windowEnd`, `windowState`, registration gate, the words saved by probe and proof | declaration, registration, probe, staged proof, cleaning, publication, `open`, `close`, `mmap` | mode setting (runs inside it), clients, survey (supplies the gate) | memory that aliases or is absent; a mapping failing in any pass; clients arriving between two steps | an open window is memory of its own, clean, stable, never written by the driver again |
| **PCI aperture survey** (`D/OpenStepMGAPciSurvey.c`, `D/OpenStepMGAWindowMath.c`) | `todo` and `done` bus sets, verdict | walk buses, follow bridges, judge base registers, ROMs and forwarding windows | window (its verdict gates the third stage) | bridges that lead back, pairs of registers, edges of the range, 32-bit sums | clear only if nobody else answers in the range; refused only for a reason |
| **Lease service** (`OSMGAService/.../OpenStepMGAService.m`) | one lease: token, generation, port; the counters | acquire, release, port death, load and unload | Mach clients, the kernel's port-death notices | death at any moment; queued requests of the dead; counters that wrap; send rights | one lease at a time, ended only by its credentials or its holder's death |
| **Batch validation and submission** (`hw3d/OpenStepMGAHW3D.c`, `.m:6510-7190`) | a batch in memory a client writes; the kernel's copy; the rows the engine walks | check the destination, validate, clip, encode | engine arbitration, Mesa hook, which asks the same validator first | the check is a closed form, the engine a walk in integers; sums that leave a word; alignments, reaches and pitches at their ends | no accepted batch touches memory outside the window; client and driver give one verdict |
| **WARP submission path** (`.m:11280-11480`, `hw3d/`) | runs, vertices as floats, mip levels | fill the limits, validate v10, load the pipe, encode | as above | runs that overlap, gap or overrun; floats that are no number; levels that leave the window | as above |
| **Mode programming and VGA restore** (`.m`) | CRTC, DAC and PLL registers; a saved VGA image | enter, revert, restore | engine claim, window | a PLL that does not lock; a revert without the claim | the belief `linearModeActive` matches the registers |
| **Boot self-tests, qualification harness** (`.m`) | reports | opt-in tests at boot; WARP harness | engine claim | keeps the claim after a timeout | never runs beside another user |
| **Mesa hook: state** (`mesa/OpenStepMGAMesaHook.c`) | the driver function chosen at the last state update; the words built for a triangle | gate the GL state, translate it | conversion, validator | one decision made in three places: per state, per triangle, per batch | what the gate admits the engine draws as GL says |
| **Mesa hook: batch** (`mesa/OpenStepMGAMesaHook.c`) | the pending batch (`pendTraps`, `pendVerts`, `pendMode`), source triangles for replay, refusal counts | choose a triangle function, add, flush, narrow, replay in software | probe, textures, kernel | state captured when a primitive was queued and used at flush; refusals; revocation in mid-batch; a fork | every triangle drawn once, in order, with its own state |
| **Mesa buffers, and the hook's brackets** (`mesa/OpenStepMGAMesaBuffer.c`, `...MesaHook.c`) | the frame in video memory and the application's array; soiled flag, spans, boxes, the uniform clear | bind, import, soil, mirror, fill, present, release | hook, kernel present | two copies, each newer at times; a mirror narrowed to what was reported | the application reads, and the screen shows, the newest picture |
| **Texture arena and residency** (`mesa/OpenStepMGAMesaTexArena.c`, `...MesaTexture.c`) | arena blocks and epoch; per-image origin, shape and epoch | allocate, free, make resident, upload, drop | hook, buffers | triangles that still wait on a block; a record older than its surface | a triangle samples the texels of its call |
| **Mesa probe, admission, back end** (`mesa/OpenStepMGAMesaProbe.c`, `...Admission.c`, `...Backend.c`) | device descriptor, mapped batch, revoked flag | run, revoke, submit | kernel device | revocation is for good, and a fork inherits it | no submission after revocation |
| **Mesa triangle and WARP conversion** (`mesa/OpenStepMGAMesaTriangle.c`, `...Warp.c`) | none (WARP: the batch being assembled) | vertices to edges, planes and register values; or to runs of floats | hook, validator | centres on an edge, edges to the left, reduced precision, rows off the surface | the pixels of GL's fill rule, each once, with its own values |
| **Protocol prototypes** (`protocol/*.c`) | a mode transaction with its plans and its poll; a ledger of offscreen surfaces | begin, sample the lock, compare the readback, enter, roll back; initialise, allocate, release, admit a clear or a copy | planners; a caller that touches the hardware and reports; clients that keep records | calls in any order; a lock that dips; a roll-back owed twice; records kept past their release | each state reached only through its evidence; what is admitted is owned and inside |
| **Profile planners** (`profile/`) and `OSMGAModeFitsLinearMemory` of `edid/` | none | validate reviews; plan ranges, geometry, CRTC bytes and PLL; render budget | the transaction, the Mesa admission | a number spread over three registers; windows and sums at their ends | the bytes say the mode, the PLL is the nearest there is |
| **EDID decoding, manual configuration** (`edid/`, `D/OpenStepMGAManualConfig.c`) | none | parsing | tools, mode programming | - | - |
| **Read-only probe** (`OSMGAProbe/`) | none | logs configuration space | - | - | - |
| **CPU reference, WARP microcode, tools, tests, packaging** | none | - | - | - | - |

`PROJECT.json` lists each with what is modelled of it, and under `hazards` the
lines at which this code can go wrong in ways its tests would hardly reach.

How the modelled parts meet:

- A mode set is one thread.  It takes the claim as `EngineClaim`'s mode thread
  does, programs the card, and inside that same call runs the probe, the proof and
  the publication that `OffscreenWindow` spells out.
- `PciSurvey`'s verdict, together with the alignment of the framebuffer base, is
  `osmgaSurveyGate32` (`.m:3964`), and decides how much memory a boot may attempt.
  `OffscreenWindow` alone takes any limit; `Aperture` puts the survey before it.  What the
  window module says of boards does not rest on the survey being right; what needs it is
  that the higher stage, which writes where a neighbour might answer, is tried only in a
  range nobody else claims (`NeighboursAreSpared`).
- A window must be open before a client has a batch to submit: `osmgaDevOpen` is
  the common door of `OffscreenWindow` and `EngineClaim`.
- The lease service shares no state with the driver in this commit.  The driver
  does not ask it for anything.
- A triangle goes down a chain.  `MesaState` says whether the hook may have it and
  what words it gets; `MesaTriangle` or `MesaWarp` makes geometry of it; `HW3D` is
  the validator, one text compiled into the client and into the driver; `BatchPath`
  composes them: build, ask the validator, check the destination, validate again,
  clip, walk.  `HookPath` composes that with `MesaState`: a state of GL passes the gate,
  triangles are built under its words, the next state asks the gate again.  What the engine then does with an accepted batch in time (claim,
  timeout, verdict) is `EngineClaim`, where a batch is only an outcome.
- The transaction, the ledger and the planners are a design track beside the driver,
  which does not link them.  They meet in `ModeProtocol`: the same reviews feed a
  transaction and the admission of a Mesa back end, and a 2D request needs both the
  transaction's linear mode and a live surface of the ledger.
- Around that chain stand the three things the hook keeps between triangles:
  `MesaBatch` has the order of what waits and what becomes of it when the kernel
  refuses, fails or goes away; `MesaPictures` the two pictures it is drawn on;
  `MesaTextures` the memory it samples.  Each takes the other two for arbitrary:
  in `MesaBatch` a texture is resident or not as it likes, in `MesaPictures` a
  bracket draws any tiles, in `MesaTextures` a batch is flushed at any time.

## 2. Modules and how they correspond to the code

`PROJECT.json` `map` gives the lines of every definition.

### EngineClaim

State is the driver's static variables and, for each request, its position in its
handler (`pc`), the locals it sampled (`epoch`, `inject`) and its return code.
`hwMode` is what the CRTC and DAC really hold, against `linearModeActive`, what
the driver believes.  `engine` and `softrap` are the card: what is still running,
and whether a list end waits to be acknowledged.  Three history variables
(`rearmed`, `disturbed`, `retained`) only serve properties or name a fact about
the past; `retained` is the claim the harness never gives back.

The handlers are split exactly where another thread can run:

| Action | Code |
|---|---|
| `Gate` | the checks on entry; for a submission they clear the shared verdict first |
| `Claim`, `ClaimRefused` | the section under `stormLock` |
| `RefuseModeMoved`, `RefuseRequest`, `Admit` | what is looked at under the claim before any register is written.  v9 reads the mode again, the others do not |
| `PrepareFails`, `NothingToDraw`, `Prepared`, `Doorbell` | bounded waits, FIFO room, acknowledging an old trap, `PRIMEND` or `EXEC` |
| `PollDone`, `PollTimeout*`, `Recover*` | completion.  v9 has a second, longer poll whose success still counts |
| `Settled`, `SettleFails` | the last look at a list that was seen to complete: v9 waits for an idle engine, v10 and the harness for the fence and for WARP to stop.  It may fail; a submission then latches and answers RESOURCE, the harness keeps the claim |
| `Release`, `Reply` | the claim given back with the epoch compared; then, outside any lock, the words copied to the caller |
| `ModeCall` .. `ModeRelease` | `-claimEngineForMode`, the programming, `-releaseEngineAfterMode:`.  `ModeGiveUp` is "the engine stayed busy for a second; changing mode anyway" |
| `Rearm`, `SetInject` | the two parameters of `setIntValues:` that look at no claim |
| `EngineDone` | the card, external and without fairness |

Batch contents appear only as the outcomes a handler can produce
(`RefusalOutcomes`), so the same module serves all six kinds of request; where the
kinds differ the difference is a guard named for it (`HonoursLatch`, `GateCode`).

### Lease and LeaseService

`Lease` is the promise: a holder, a count of leases granted, who is alive, and
which leases each client knows the credentials of.  Four facts are built into it:
a grant needs a free lease; giving back needs a live client that knows the
credentials of *this* lease; expiry needs a dead holder; death makes a client
forget.

`LeaseService` is the server.  It has one message thread, so a request or a notice
is one action, and clients send, wait and die between any two of them.  Send
rights are counted per port, because `OSMGA_acquire` receives one that it must
give back on each refusal (`:119-143`) and keep on success.  A credential carries,
beside the two words that travel, the number of the lease they were issued for; no
handler reads that number, and the refinement mapping
(`known <- {k.lease : k \in known[c]}`) is what it is for.  Words are `0 ..
WordMax` and wrap.

### OffscreenWindow

Memory is counted in pages with one value to a page, and every signature names the
offset it was written at, as the code's own signatures do.  A board is a size and
whether it wraps beyond it; `Decode` is the aperture.  `at` is the position of
`programLinearMode`: the probe's four passes, the plan, the proof's witnesses, two
pages, first look, rest, second look, then decision, cleaning, publication of the
end and of the state, and the clearing of the picture.  In every pass any one
mapping may fail where `MayFail` allows it, and a page that fails drops out of the
later passes as `held = 0` does in the code.  The proof has its two stages one after the
other, and a stage that would end where it begins is refused (`from >= to`, `.m:16312`).

### PciSurvey

Configuration space is a constant function from the places present to what is read
there.  One step judges one base register, ROM or bridge.  What only the hardware
knows (how far a neighbour's claim reaches) is carried as `size`, which no step
reads, so that `ClearMeansOurs` can speak of addresses rather than of registers.
Addresses count megabytes, since bridge windows have that grain; `EndOf` keeps the
32-bit wrap of `limit + 0x100000UL`.

What `Sane` takes for granted of a machine, and the property rests on:

- function 0 is present and multi-function where another function is
  (`:196-230` reads it to know);
- the upper half of a pair follows its lower half;
- no other decoder covers the *first* address of the aperture: the picture is
  shown from there, and the comment at `D/OpenStepMGAWindowMath.h:395-400` argues
  from the same fact that a base below the range need not be looked at;
- a bridge without bus numbers forwards nothing;
- there is one host bridge: the walk starts at bus 0 and cannot know of another.

### Aperture

`Aperture` is `-initFromDeviceDescription:` and all mode sets after it.  `Survey` is one
step of the walk; `Drive` is one step of the window's module, which begins when the walk
has ended, under a limit that this walk's verdict and the alignment of the base allow for
a declaration (`GateDecides`).  Both modules have the range at the same address; the survey
counts megabytes, the window pages.

### MesaBatch

A source triangle is a *shape* (does WARP take it, how many trapezoids does the
builder make of it, what texture, was it clipped, which side's state does it need)
and an order number.  `job` is the one inside `osmgaMesaTriangle`, at a stage:

| Stage | Code |
|---|---|
| `texture` | residency: absent, resident, or uploaded after a flush |
| `warp` | `osmgaMesaWarpTriangle`: take, decline, or flush first because the batch is of the other mode, of another key, or full |
| `trap`, `join`, `check` | build; flush what cannot share a batch with it; ask for the window again; the local validator |
| `append`, `clip` | into the batch; a clipped source flushes at once, because its vertices are temporaries |
| `soft` | the saved software triangle, after what waits |

`flush` is a flush in progress: `ask` submits and the kernel answers what it likes.
It may take the batch, refuse it whole, name a trapezoid (truly or not), or fail
after the engine had part of it.  From a named trapezoid on the flush narrows:
the prefix before it, then the named source alone, then the rest again.  `canvas`
is the set of strokes painted, each with its source, who drew it, whether with its own
state, and when (`clock` is the time of the last one); `gone` is what never will be
drawn and why, which no code keeps; `dropped` is `hookDropped`, moved where the code
moves it and nowhere else.  `fault` is set when a trapezoid is written through a pointer to a window no longer mapped.

`probe` and `device` are the process's side and the other side of `/dev/osmga`;
`Fork` replaces the process by its child, which inherits the descriptor, the
window and the verdict.

### MesaPictures

Pictures are never drawn: `same[a][t]` says that tile `t` of array `a` holds what
the surface holds, and each action says what it does to that.  A bracket opens
(`RenderStart`), writes by engine (`Triangle`, `Clear`), by Mesa's spans (`Spans`,
`ReadSpans`) or by Mesa's own triangles, which report nothing (`GatedTriangle`), and
closes with `RenderFinish`, which delivers: nothing, a mirror of the whole, of the
reported box, or a constant fill when all the bracket did was one clear.  The triangle
function is chosen before a bracket and stays for its length, so a bracket is of one
kind: `draw`, `gated`, `clear` or `read`.  The flags are the code's (`buf.dirty` is
`bufDirty`, `buf.full` is `bufFullNext`, `span`, `area`, `uniform`, `narrow`); the box is
kept all the time, as under `OSMGA_MESA_INST_AREA`.  Present mode and the narrowed mirror
are switched on and off between any two brackets.  `readInto` (what a read put into the
array), `unreported` (what a gated triangle drew under a narrowed mirror) and `shown`
(whether the surface was presented since it was bound, and whether a mirror was
narrowed after) are history.

### MesaTextures

Memory is a row of cells.  A cell holds the picture or one texel of one *version*
of one image, so that stale texels can be told from fresh ones.  A waiting triangle
is its origin and what GL says it must find there.  `Resident` is
`osmgaTexResidentN` from the first test to the last copy: keep the record if it
suits, else free, allocate first fit, copy every level if the copy is stale, and
flush whoever waits before any texel is written.  Epochs count releases of the
surface, as `texEpoch` does.

### HW3D, MesaTriangle, MesaWarp and BatchPath

`HW3D` is the validator as operators, in its order, each refusal named after
`OSMGA_HW3D_E_*`; `FirstRefusal` is its chain of early returns.  `MesaTriangle` and
`MesaWarp` are the two builders.  `BatchPath` is the path as a state machine:

| Action | Code |
|---|---|
| `AskTriangle` | `OSMGAMesaBuildTriangleTex` for a triangle with its state |
| `AskBatch`, `AskWarp` | any words at all in the shared ring: the driver may not assume that its own client wrote them |
| `AskMesh`, `AddTriangle`, `EndMesh` | the WARP assembler, one source at a time: weights, vertices, runs, capacities |
| `Prevalidate` | the client's own question to the validator (`osmgaMesaPrevalidate`) |
| `Submit`, `SubmitWarp` | the driver: destination and limits, verdict, clip box |
| `Row`, `Continue` | the engine: it steps the edges of a row with their error terms and writes what lies between them and in the clip box |

Numbers keep their shape at a smaller scale.  The code's coordinate arithmetic is
divided by 2^13: a word of 19 bits instead of 32, a homogeneous one of 8 instead of
2^16, texture space of 1,024 instead of 2^23, and the ladder of biases alike.  The
edge budget and the register fields are narrowed until edges of a surface of four
pixels reach them.  A pixel has four subpixels instead of 256, a float one sign,
three exponent and two mantissa bits instead of 1, 8 and 23.  What the code
carries in a `double` is a rational, and a conversion to an integer or a float
rounds as the code does.  All of these are `CONSTANTS`; the proofs are for every
value of them.

Left out of the geometry: three of four colour channels (one stands for all), the
packing of the diffuse colour, the perspective texture plane of the trapezoid tier
(its validation is there, its construction not), and the magic and version words.

### MesaState

`UpdateState` is the gate of `osmgaMesaChooseTriangle`; `DrawWarp` and
`DrawTrapezoid` translate the same GL state into words and put them before the
validator.  What words do is stated apart: `EngineFragment` and `EngineSampling`
(external: what the code and its tables take the engine to do) against
`GLFragment` and `GLSampling`.  Products are exact, since the one level between
the engine's and Mesa's is accepted by the code (`mesa/OpenStepMGAMesaHook.c:3249`).
Flat shading and polygon offset are left to `MesaTriangle`, and the distance at
which magnification becomes minification is not modelled.  The states are numbers and
names of GL, on a surface that lies where `OpenStepMesaAccelBuffer` and
`OpenStepMesaAccelDepthBuffer` would have put it (`StatesAssumption`); a texture that is
translated is one the arena had room for (`Resident`).

### HookPath

`HookPath` is the hook from GL's state to the engine's last row.  `State` is a step of
`MesaState`; `DrawBuilt` hands a triangle of `Shapes` to the builder of `BatchPath` under
the words of the state, which say too whether its texture repeats; `Path` is a step of
`BatchPath` on the batch in hand; with `Anew` the next state is set and the gate asked
again.  Batches, meshes and triangles of `BatchPath`'s own families are asked for as long
as no state is set.  The two modules have one window (`OneWindow`), a bound surface's rows
are no longer than the display's (`mesa/OpenStepMGAMesaBuffer.c:1022-1041`) and a batch
takes two trapezoids (`SurfaceAssumption`).

### ModeProfile, ModeTransaction, OffscreenLedger and ModeProtocol

`ModeProfile` has the validators and planners of `profile/` as operators.  A mask of
evidence is the set of what was verified, and the reason for a refusal is left out:
what matters is that it is refused, and in the transaction at which stage.
`CRTCImage` and `PLLBytes` are the bytes; numbers keep their real size.

`ModeTransaction` is `protocol/OpenStepMGAModeTransaction.c`, one action to a call, in
any order, since nothing but `state` keeps a caller from any of them.  `Begin` takes
the reviews with or without a slip of the caller (`Alter`) and leaves the plans of
every stage it got through, as the code does when a late stage fails.  The four
roll-back stages are a set.  `history` is what happened: the slip and the stage of the
last `Begin`, the slip that was approved, the samples since, what was read back.  Only
properties read it, except that two of its counters bound the instance.

`OffscreenLedger` is the allocator: `held` is every record a client was ever given,
across releases and new ledgers, `issued` and `returned` those of the present one.
`ModeProtocol` puts the two side by side and states what a 2D request must satisfy,
for any record a client may present, kept or changed.  `starts` is where in
the arena each record's bytes begin, which the code computes and does not keep.

## 3. Runs, bounds and fairness

| Run | Distinct states | Shows | Bounds |
|---|---|---|---|
| `engine_requests` | 1,285,606 | two threads, five kinds: the claim is exclusive, a running engine is covered, nothing starts after the latch, a completed list is reported | 2 interchangeable threads, 1 spin, 2 mode changes, 1 injected timeout |
| `engine_progress` | 75,026 | all six kinds, one caller, a card that may never finish: every request returns | 1 caller, 2 spins |
| `engine_shared_answer` | - | finding: a submission refused as busy is answered with another client's verdict | 2 threads, 1 spin, 1 mode change, no injected timeout |
| `lease_service` | 73,195 | rights, refinement of `Lease`, death of the holder, reloads of the server | 2 clients, words up to 4, 4 leases, 2 reloads |
| `aperture` | 193,430 | survey: clear is right, refusal is justified; window behind it, with one failing mapping and two clients across two mode sets: backed, clean, unused while proved, drawings stay, an honest board opens its whole window, nothing is written beyond sixteen megabytes where a neighbour answers | 3 buses, 2 devices, 2 functions, 16 megabytes; 6 boards, 4 declarations, 2 modes, 2 mode sets, 1 failure, 1 client offset |
| `mesa_batch` | 401,220 | order, losses counted but for one batch, state and half-drawn batches under any answer of the kernel, revocation, a fork; every call returns | 3 sources of 6 shapes, 2 state updates, 1 fork, batches of 3, 2 refusals to revoke, 1 narrowing |
| `mesa_stale_window` | - | finding: trapezoids written through an unmapped window | 1 state update, no fork |
| `mesa_pictures` | 2,353,344 | but for what section 5 has, the array agrees with the frame after every bracket and a clean mark means delivered; a read's result is kept, a presented frame is left alone | 2 contexts, 2 arrays, 2 sizes, 2 tiles, 2 brackets; symmetric in contexts and in arrays |
| `mesa_present_left` | - | finding: what was presented is not delivered after present mode | 1 context, 1 array, 1 size, 4 brackets |
| `mesa_textures` | 550,702 | a waiting triangle finds its texels, blocks have one owner, the surface is not written | 2 textures of 2 levels, widths 0 to 2, 2 surface sizes, 8 cells, 2 blocks, 2 waiting, 4 changes; symmetric in textures |
| `hook_path` | 173,323 | what the gate admits is drawn, and fragments, sampling and scissor come out as GL has them; accepted batches stay inside, one verdict, the fill rule, interpolation, runs, weights | 9 families of states around a plain one, 3 shapes under each; batches see below |
| `mode_protocol` | 53,197 | states are earned, plans are the mode, admitted requests are owned and inside | see below |

Why the bounds are enough to see what they should:

- *Engine.*  The claim is one flag, so two threads and the mode thread already
  give three contenders; a third request adds no new pair.  Two mode changes let
  the mode be left and entered again under a stale reading, and one spin is enough
  for `ModeGiveUp`.  One injected timeout gives the recovery poll with a late
  completion.  The fill is a blit in every guard and is left to `engine_progress`.
- *Lease.*  Four leases among two clients include regaining a lease after
  another's, which is what a stale credential needs; two reloads let credentials
  of a load outlive two servers.
- *Window.*  Sizes keep the order and the divisibility of the real ones: a
  megabyte is two pages and a witness's stride two, so that a stage has pages
  with no witness on them and an alias lands both on and beside one.  Declarations
  include one that is not of the three allowed.  The large mode starts its window
  above the seven megabytes taken as proven.
- *Survey.*  Bases stand just below, on, inside, on the last megabyte of and just
  above the range; windows likewise; a neighbour may sit on bus 0, beside the
  card, behind a foreign bridge or behind two bridges that lead to each other.
- *Both.*  The window's steps look at the survey through the gate's answer only, so two
  machines, one cleared and one refused, boot in front of every board and declaration; each
  other machine boots in front of the largest board with all that may be declared, where a
  wrong verdict would be written over.
- *Mesa batch.*  Three sources are what narrowing needs: one before the named
  one, the named one, one after.  The shapes take every way through the triangle
  function, among them two trapezoids for one source (so that a name may fall on
  the second), none, two texture keys, and clipped sources with another side's
  state.  Two updates let a gate open, close and open again between brackets.
- *Pictures.*  Two tiles tell a box from the whole, two sizes a rebind at another
  shape, two arrays and contexts an import of the wrong picture.  The second
  bracket inherits everything the first left owed.  Present mode and narrowing cost no
  bracket, so they change as often as they like in between.
- *Textures.*  The arena is five cells behind the small surface, two behind the
  large: images of one chain fill it, a second texture does not fit beside a
  two-level one, a freed gap lies below a taken block, and the table of two is
  full before the memory is.
- *Batch path.*  Every three points of a grid of 36 subpixels that reaches off the
  surface and stands on pixel centres and beside them; every register field at its
  edge and one past it; every pattern of a six-bit float in every field; depth,
  scissors, textures and offsets in families of their own, among them perspective planes
  whose numerators pass the range their quotients keep, with and without a request for a
  bias; meshes with weights around their window and lowered capacities, moved by up to
  2^12 either way, further than any of them needs (`MeshAssumption`).  Origins, pitches and dimensions sit
  at the window's ends, at the alignments and at the word's wrap.
- *GL's state.*  Every value of each field beside plain ones of the others, and the pairs
  that share a word (blend with alpha test and texture, filters with levels and wraps).
  The three shapes lie on the surface, hang over its edges, and have a texture coordinate
  repeats away, so that the builder and the client's question refuse some and pass others.
- *Mode protocol.*  Three kinds of machine, so that no one of them multiplies the
  others.  The reviewed mode of the host tests (1600 by 1200, 60 Hz) has two
  transactions, eleven slips (a wrong field for each stage of `Begin` but the encoder's,
  and a second mode, with and without a valid poll) and four samples: two ready ones in
  a row after a dip.  The modes at the edges of every register (widths around 2048 and
  4096, heights around 256, 512, 1024 and 2048, pulses longer than their field) only
  go through `Begin`; the encoder refuses three of them.  The ledger has two slots,
  three identifiers before the word wraps, and three arenas: a large one, a small one the
  ledger may be initialised with again, and one whose alignment is not a power of two;
  the other machines offer an arena nobody verified, which must be refused.

`CHECK_DEADLOCK FALSE` is set where a bounded run may have nothing left to do: mode
sets, state updates, brackets, image changes, transactions and samples are counted.
`engine_requests`, `engine_progress`, `lease_service` and `hook_path` are checked for deadlock.

Fairness is weak fairness of code that runs once called:

- `EngineClaim`: each request's own steps and the mode thread's.  A poll in this
  driver is a loop with a count, so its thread gets to the end of it.  Nothing is
  assumed of the card: `EngineDone` has no fairness, and requests return because
  their polls give up.  Callers need never call.
- `LeaseService`: serving a request that has arrived, and a death notice.  Clients
  may stop at any point.
- `MesaBatch`: a call of the hook runs to its end (`FlushStep`, `TriangleStep`), and
  Mesa closes every bracket it opens (`RenderFinish`): it is one thread of straight
  code.  The kernel's answers are unconstrained, the client need not draw.
- The other modules state safety only.

Each module's `TypeOK` holds in the instance of its run (replace the properties of
the configuration by `INVARIANT TypeOK`); those of `EngineClaim`, `PciSurvey`,
`MesaPictures` and `MesaBatch` are proved.

## 4. What is proved

For all values of the constants, from the `ASSUME`s in each module and the
conditions named here:

| Module | Theorem | Condition |
|---|---|---|
| `Sharing_proofs` | `EngineTyped`, `ClaimIsExclusive`, `RunningEngineIsCovered`, `LatchHoldsBatchesBack`, `CompletedListsCount` | - |
| `Sharing_proofs` | `RightsBalance`, `StaleCredentialsRefused`, `ServiceImplementsLease` | `OneLoad` |
| `Sharing_proofs` | `LeaseEndsOnRequest` | - |
| `Aperture_proofs` | `ProofIsUndisturbed`, `OpenWindowIsBacked`, `DrawingsStay` | `WitnessesAreMapped` |
| `Aperture_proofs` | `ClientsGetCleanMemory` | `WitnessesAreMapped`, `RestoresAreMapped` |
| `Aperture_proofs` | `TypeCorrect`, `RefusalsAreJustified` | - |
| `Aperture_proofs` | `ClearIsOurs`, `BeyondIsOursAlways` | `NoForeignWindowAtTheTop` |
| `MesaBatch_proofs` | `TypeCorrect`, `PaintedInOrder`, `LossesButOneBatchCounted`, `DrawnWithOwnState`, `RevokedIsSoftware` | - |
| `MesaPictures_proofs` | `PicturesTyped`, `DepthBelongsToTheSurface`, `PresentingCopiesNothing`, `ArrayIsThePicture`, `CleanIsDelivered`, `ReadResultsStay` | - |
| `MesaTextures_proofs` | `WaitingTrianglesKeepTheirTexels`, `BlocksHaveOneOwner`, `BlocksStayApart`, `UploadsSpareTheSurface` | - |
| `BatchPath_proofs` | `AcceptedStaysInsideAlways`, `EngineWalksWhatWasChecked`, `SamplesStayInRange`, `OneVerdictForAll`, `MeshIsDrawnAsGivenAlways` | - |
| `BatchPath_proofs` | `DrawnAsGLAlways` | - |
| `TrianglePath_proofs` | `PaintsTheTriangleAlways`, `InterpolatesAlways`, `BuiltIsAcceptedAlways` | - |
| `TrianglePath_proofs` | `AdmittedIsDrawnAlways`, `HookKeepsPromises` | - |
| `ModeProtocol_proofs` | `StatesAreEarnedAlways`, `PlansShowTheModeAlways`, `DrawnSafelyAlways`, `AdmittedIsLiveAlways` | - |

`Sharing_proofs` holds both programs that hand one thing to one user at a time, the
engine's claim and the lease; the two have no state in common.  `Aperture_proofs` holds the
two about the card's aperture, its survey and its mapping, and their composition.
`TrianglePath_proofs` extends `BatchPath_proofs` and holds the composed path.

A component's theorems are about its own specification (`Spec`, `SurveySpec`, `StateSpec`);
`BeyondIsOursAlways`, `AdmittedIsDrawnAlways` and `HookKeepsPromises` are about the composed
ones (`ApertureSpec`, `HookSpec`).  A step of `Aperture` is a step of the survey or of the
window, so what is proved of each holds there.  In `HookPath` a triangle under GL's words is
one more triangle to ask for, typed as `BatchPath` wants it (`WordsAreState`).

**Engine.**  `ClaimExclusive` is inductive once types are known.  Coverage of a
running engine is not: "if nobody has the engine" says nothing of why it is
still running when somebody does.  `RunningIsWatched` adds that a running engine
has a request still polling it, the wedged harness, the latch, or a latch cleared
over it; `LatchQuiet` adds that a request between its claim and its doorbell that
honours the latch has a clear latch.  That stays true because only
the holder of the claim sets the latch, and there is one holder (`ClaimExclusive`).
A poll leaves with a failure only past an engine that runs, and the last look after it
takes an answer back only together with the latch, so a list that completed is reported
as such.

**Lease.**  `OneLoad` says that the server is not reloaded and that no counter has
come round.  Both are needed: the reload starts the words over, and so does 2^32
leases (section 5).  The inductive invariant says that watched port and rights
follow the lease (`LeaseIsWatched`), that the two words count the leases
(`WordsCountLeases`), so that an equal pair is an equal lease, and that
credentials are honest (`CredentialsAreHonest`): every copy, at a client or in a
message, belongs to the lease it names, and those of the present lease are at its
holder only.  Refinement then goes action by action: a refusal, a send, the
stale release and a notice for a port with no lease are stutters.

**Window.**  `WitnessesAreMapped` says that the mapping of a witness does not
fail.  With it page 0 carries one, and a board that wraps has its own first
address answer for the first page beyond its end; a stage that reaches beyond the
board therefore either damages that witness or does not read back.  The invariant
is `RegionIsAbove` (what is proved is memory, the region in hand starts where that
ends and the first witness is kept), `Unopened` (nobody has a descriptor or a
mapping of a window that is not open, and it is not open during a proof),
`InsideWindow` (mapped and drawn pages are in the window, and no saved word is a
client's) and a bound on what is kept.  TLC runs `aperture` with failing
witnesses as well, where sizes are multiples of each other as on real boards.

That a window opens clean is a second invariant (`Spotless`): until the window is decided,
a signature is found only where the probe or the stage in hand put it, the words put aside
carry none, and what is cleaned grows from the bottom up.  A stage that passes zeroes its
region and restores its witnesses, each of which answers at its own address since the
region below is memory; a stage that fails sets `anyFailed`, and then the whole window is
zeroed.  It needs what was put aside to be put back (`RestoresAreMapped`), which the run
assumes too and section 5 says what happens otherwise.

**Survey.**  The invariant follows the walk: where it stands (`WalkStands`), that
the secondary bus of every bridge already examined is queued (`Queued`), that the
range fits (`RequestFits`), and that as long as the verdict is clear, everything
behind the walk is harmless (`Behind`), with the registers of the function in hand
judged up to `reg`.  At the end the buses done contain bus 0 and are closed under
`Follows`, so every reachable function is behind the walk.
`NoForeignWindowAtTheTop` excludes exactly the machine of section 5.
That a refusal is justified needs the other half: every bus queued is reached from bus 0
through bridges that are there (`Led`), so a refusal names a function the machine has,
whose register or window does claim an address of the range, or which is malformed
(`Justified`).  It holds on every machine.

**Survey and window.**  A region beyond sixteen megabytes is reached only under a limit
beyond sixteen (`Reach`), and past the boot a limit is one that the finished survey's gate
allowed (`Allowed`); with `ClearMeansOurs` that is `NeighboursAreSpared`.

**Batch.**  Who waits stands in one line, oldest first: the prefix sent alone before a
named trapezoid, what is to be sent after it, the pending batch, the triangle being
called (`Line`).  The invariant says that the line's order numbers increase, and that
what is on the canvas was painted in the order of its numbers and lies, like what was
half drawn, before everyone in the line (`InOrder`); that each source called was painted,
is counted as gone, or waits (`Accounted`); that whoever waits holds the state Mesa had
installed for it and the texture of the batch, while the context holds that of the
triangle being called, or the flush has it put by (`OwnInLine`); and that a batch is with
the engine only while the window is there (`Armed`).  An answer of the kernel moves the
head of the line to the canvas or to `gone`; the lemmas on taking a prefix of an
increasing sequence do the rest, for any capacity, shapes, refusals and answers.

What is counted needs two more.  `Tally`: `hookDropped` is the number of sources gone for
a reason the code counts, since whoever goes for one was not gone before: it stood in the
line.  What went with a failed trapezoid batch is no more than a batch, and then the device
is revoked.  `Room`: a flush holds no more than a batch, however it was narrowed.  A
revoked device gets no batch (`Armed`), so at most one is given up without being counted
in the life of a process.

**Batch path.**  The validator asks a closed form about an edge (`Columns`: how far
it is after `k` rows), the engine steps it with an error term.  The invariant says
that on every row the walk stands at the closed form: the column is the start plus
`Columns`, and the error is what the division left (`WalkHolds`).  One step then is
arithmetic on quotients, from three lemmas about division.  With it, a row's pixels lie
between bounds the validator checked, rows and surface lie in what `DestFits` reached,
and `DestFits` lies in the window, for any word size: its sums are proved not to wrap
(`BatchHolds`).

For textures the validator looks at the ends of each row and at the corners of a box,
the engine samples at every pixel (`SamplesHold`).  A plane that is at least nought at
the corners of a box is so within it, and a quotient is in range where two such planes
say so; the sums on the way stay in a word because the anchor is within the coordinate
range, a slope times the box within `SlopeRoom` and the denominator within `Budget`;
and a bias asked for is granted only down to the last rung that keeps the farthest
coordinate in range, while every rung above that one takes off at least as much.  An
attempt to prove the property as it first stood failed for a good reason: under
perspective a numerator past the coordinate range is legal, since only its quotient is
looked at, and such a one a bias leaves where it was.  The property says that now, and the run has such batches.

That the two verdicts agree (`OneVerdictForAll`) is that the client's limits enter the
verdict on a trapezoid only through the extent, and that a batch in the driver's hands
was rehearsed (`Verdicts`).

All this is said of batches out of the shared ring, where anything of the right C types
may stand (`IsState`, `IsTri`), and of batches the builder made: `BuiltIs` follows a
triangle with integer corners through sorting, edges, halves, planes and clamps, and
shows that what comes out is of the same types.  Assumed are: the window is a pair of
words (`WindowAssumption`); the largest texture row's bytes are a word (`TexAssumption`);
what the headers fix about the scaled numbers, each with its line in the module: the
largest product of a denominator fits a word (`CoordAssumption`), the ladder has six rungs,
each worth no more than the one before (`LadderAssumption`), a pixel has one to eight bits
of subpixels (`SubBitsAssumption`), the largest column of a corner with a pitch beside it
fits the trapezoid's 16 bits (`ColumnAssumption`; 8192 and 1600 in the headers), a channel's
and an edge's largest value fit their fields (`FieldAssumption`), and a triangle given to
the builder has integers in its three corners and unsigned channels up to the largest
(`IsTriangle`, part of `BatchAssumption`; a `GLubyte` in the hook).

*Fill rule* (`PaintsTheTriangleAlways`).  Four steps lead from the words to the reference
`Covered`.  (1) A built edge stands on each of its rows at the first column whose centre
is not left of the line: a ceiling in closed form, which the start column, the step and
the error of the edge walk keep.  (2) Between two corners in order of `y` that makes the
pixels of a row those of `Covered`: a centre is on the inner side of three lines just if it is
between the long edge and the short one of its half, by the balance of the three areas
and the rule for centres on a line.  (3) The halves take up the rows whose centres lie
between their corners, disjoint and in order, and a half without a row is no trapezoid.
(4) The columns the builder wrote stand in their 16 bits, because a batch that passed has
its rows on a surface no wider than the pitch, and so does the clip, an axis at a time.
The invariant (`Fills`) then is an induction over the rows drawn: what has been hit is what
of `Covered` lies in the clip box above the row in hand, each once, and what remains is
the rest of this trapezoid and those behind it.

*Fill values* (`InterpolatesAlways`).  A start and a slope are each rounded by half a unit
at most (`StartNear`, `SlopeNear`), so what was walked over so many columns and rows is off
by half a unit of each step and of the start (`ErrorsAdd`).  What could be worse is a
clamp, and a proof has to say why it does nothing: a trapezoid begins at a pixel the
triangle covers (`BeginsCovered`), where the plane is a mean of the corners' values, with
the areas for weights (`Weighted`, `PlaneAtCovered`), and hence in its range
(`MeanBetween`).  Of a texture coordinate a number of whole repeats was taken off, the same
for the three corners, and it is one of those that bring them into range
(`RebasedIs`).  That a field holds what the rounding makes of a channel is
`FieldAssumption` (24 bits for 255 in 15 bits of fraction).

*Shape* (`BuiltIsAcceptedAlways`).  That the builder's trapezoids pass the validator is eight
tests, and the invariant (`Shaping`) carries the reason for each to the two places a verdict
is given.  An edge whose precision was kept is no longer than a walk may be, and so are its
error and slope, and all fit their fields (`ExactShort`, `ErrorIs`, `ModestFits`).  In a row
between its ends an edge stands between their columns (`ColumnBetween`), so with corners on
the surface every row of it does (`OnColumns`).  The two edges of a half do not cross
because what is behind the right one is behind the left one (`SidesAgree`, `SidesHold`):
on the rows of the half the one sign of the doubled area orders them.  A half begins at
a row with a pixel, so that it is not empty.  The proof found the property too strong as it
first stood: a triangle that leaves the surface without covering a pixel there can be
refused, since the validator looks at the edges of its empty rows too.  A small grid has
no such sliver, so the run did not show it; the property asks for the corners on the
surface now.

*WARP batches* (the other half of `AcceptedStaysInsideAlways`).  `WarpInv` holds the batch
at hand to its types, and, once a verdict stands, to that verdict.  The validator looks at
the words of floats as numbers; that larger words of positive floats are larger floats
(`SizeOrder`), that zero, one and the limits are where they are, and that a word below
infinity is a number turns its tests on words into ranges of values (`NumbersInRange`).  The
clip box, the depth's rows and each level of a texture then lie in the window as the
trapezoids' do.  A float's exponent is a power of two.  `MesaWarp` has these as a function,
`Twos`, so that what it is at each step is a fact the provers can use (`DoublesAll`).

*Meshes* (`MeshIsDrawnAsGivenAlways`).  Two arguments meet here.

- *Weights.*  The nearest float is off by half the distance to its neighbour at most
  (`NearestErr`), which for a number in full precision is its last bit.  The three weights
  are moved by one power of two, which no ratio notices, and so their ratios hold to that bit
  (`WeightsHold`).  The slide brings the largest to the upper half of the window; when the
  least then is below it, a power up takes the largest out above and a power down the least
  further below (`SlideFurther`), so nothing that fits was declined.
- *Runs.*  `MeshInv` relates the batch being assembled to the triangles taken: three
  vertices for each, in order (`VtxFor`), and runs that follow one another without a gap, in
  whole triangles, each triangle within a run of its own words (`RunsFor`).  A triangle
  either opens a run at the end (`RunOpened`) or lengthens the last (`RunLonger`); a full
  batch is submitted and begins afresh (`MeshContinued`).  That the driver accepts it
  (`MeshAccepted`) needs that what the assembler writes is what the validator asks of each
  vertex (`VertexSane`), run and state.

Assumed are: a float has two to eight bits of exponent, and the limits are positive numbers,
the weight's in full precision (`FloatAssumption`); the slides looked at go as far as
any weight of a mesh needs, since `frexp` knows no end (`SlideAssumption`, `IsAsk`);
and a mesh's states and words are ones the hook's policy let through (`Drawable`, part of
`MeshAssumption`): that the gate admits only such states is the first half of
`AdmittedIsDrawnAlways`.

**GL's state.**  `BatchPath_proofs` also holds what `MesaState` promises, since both rest
on the validator's operators.  Its invariant, `Translated`, is that the words at hand are
the translation of a state the gate let through, whose texture is resident.  Both
properties are then about the translation alone, for any family of states:

- *Drawn as GL has it.*  One lemma for each stage of the pipeline: the texture stage
  (`StageAgrees`), which alpha the tests and factors look at (`AlphaIs`: the selector
  differs from the stage's alpha only where both are the same), the tests
  (`TestAgrees`, `DepthAgrees`) and the factors (`FactorsAgree`), put together by
  `FragmentIs`; the clip box an axis at a time (`AxisKeeps`); filters, levels and wraps
  (`FiltersAgree`, `LevelsAre`, `WrapsAgree`).  The gate is used wherever a table has
  a hole: it is what keeps `NEVER`, unequal alpha factors, mirrored wraps and a LOD
  window that cuts the chain away from the translation.
- *Admitted is taken.*  The primitive's codes lie in their fields (`PrimTaken`); eight
  texels after as many halvings as there are levels make a side whose logarithm the WARP
  tier asks for (`SideIsLong`); and rows placed in the window are rows the driver
  reaches without a word wrapping (`RowsReached`, `StateTaken`).  Assumed are
  what the allocators ensure: `ApertureAssumption` (the window is in a word's reach, the
  texture arena is aligned and in it, a pitch is a dimension) and `StatesAssumption` (a
  surface called placed has rows no longer than its stride, is aligned and lies in the
  window, and so does its depth).  TLC evaluates both.
- *And drawn.*  `AdmittedIsDrawnAlways` follows an admitted state through `HookPath`.  Its
  words are words the driver can read (`WordsAreState`); the batch built under them differs
  from them in the slopes of the texture only (`OfWords`), at which no check of the state
  looks (`CommonStands`); a placed surface no wider than the display passes the destination
  (`PlacedIsTaken`); and what then could be refused names a trapezoid, which the client's dry
  run would have named (`DryRunDecides`).  That is the induction of `Carried`, beside the
  invariants of both parts, which the composed steps keep (`HookHolds`).  Added are
  `OneWindow` and `SurfaceAssumption`.

**Pictures.**  That present mode copies nothing is an action property and follows
each writer's guard; it needs types.  That a depth mapping belongs to the surface
it was made for needs more than itself: binding, rebinding, failing to map and
releasing each must keep `depth` at the context and size of `buf`.  The agreement of the
two pictures needs to know what an open bracket owes (`Agreement`).  `Owing` is the
tiles in which the bound array differs from the surface, but for those a read wrote and
those nobody reported.  Between brackets a surface that was never presented owes nothing,
and an unmarked one neither unless a mirror was narrowed since it was presented
(`Settled`); a reading bracket owes what was owed when it opened (`Reading`); a
clear reports no box, and the constant it arms is the picture (`Clearing`); under a
narrowed mirror all that was drawn by those who report, on the surface or still with the
engine, lies in the reported box within the scissor (`Drawing`).  A surface that was
presented while the mirror is narrow is never called `after` (`ModesOK`).  Each writer adds
to the debt and to its mark at once, and each way of delivering settles what its marks cover.

**Textures.**  The invariant has four parts.  *Tidy*: blocks lie in the arena and
apart.  *Owned*: records of the arena's epoch and blocks match one to one, with the
size the record says.  *Current*: an arena or a record of the present epoch stands
behind the surface that is mapped now, so its blocks are not on the picture.
*Fresh*: a valid record's cells hold what Mesa holds.  A copy writes one block, so by
*Tidy* and *Owned* it leaves every other record fresh; whoever waits was flushed
before it, or no cell was written.  That first fit returns a gap is a least-member
argument (`MinIsLeast`).

**Mode protocol.**  That a state is earned needs two facts about what comes before
it: while the lock is awaited, the poll's count is a number of ready samples at the
end of those taken, and none came late (`PollCounts`); and up to the readback the image
in the transaction is the one approved, unless a `Begin` came near it (`ImageHeld`).
A roll-back's marks are what was restored since it was owed (`RestoredSince`).  What
the planners compute plays no part in this.  For the ledger, every
identifier in use is below the next one, or the next one is nought and nobody gets it,
so no two records share one (`IssuedOnce`), and what is live is owned (`LiveIsOwned`).
`DrawnSafelyAlways` joins both with a little arithmetic on rectangles; it quantifies
over every record, not only those a client was given.  For copies, triangles and the
arena itself (`AdmittedIsLiveAlways`) the invariant has `Placed`: whatever was given out
since the ledger was initialised lies below its front, and of two such surfaces one ends
before the other begins, whatever the alignment.

**Planners.**  `PlansShowTheModeAlways` holds for every review whose numbers are
unsigned and every word that holds 1.3 GHz in kilohertz (`MachineAssumption`,
`VcoAssumption`).  Its invariant, `PlansHeld`, is that what the last `Begin` was given
passes every stage it got through and the plans of those stages are what their planners
say of it; only a `Begin` changes either.  The rest is arithmetic on one review.

- *Image.*  A counter that fits its register is its low byte and its high bits
  (`NineBits`, `ElevenBits`, `TwelveBits`), and each byte that carries several fields
  falls apart into them (`Apart`).
- *PLL.*  The plan exists, since the settings looked at have a least one in the order of
  preference (`LeastKeyIsPreferred`).  None of the hardware's settings is nearer, also
  those not looked at: for a post and a reference divider in the window the rounded
  feedback divider is the best one (`NearestBelow`, `NearestAbove`).  Both divisions round down,
  so a divider above the exact one may gain a kilohertz; by the divisors of
  54,000 that never matters (`LuckyAt`) except for reference 7 with post divider 2 or 4,
  and there reference 10 is as near (`Coarse`).  With another post divider the clock asked
  for puts the VCO below its window, and then a greater one makes the same clock
  (`Scaled`), or above it, and then no VCO the hardware has is fast enough to come
  near (`RivalIsBeaten`).
- *Backend.*  A candidate was attested, and pitches rounded up hold their rows
  (`RowsFit`), so what the budget counts is no less than what the surfaces take.

Model-checked only: everything temporal under fairness (`RequestsReturn`,
`DeadHolderLosesLease`, `EveryCallReturns`), which is out of reach of the installed
prover, and `HonestBoardOpensWhole`, which speaks of a board without failures.  Every other
invariant and every action property of a run that passes is a theorem.

## 5. Where the code and its text disagree

Three of these are runs that must find their violation; `PROJECT.json` `findings` quotes
the lines.

- `mesa_stale_window`: the pointer to the command window is taken on entry of
  `osmgaMesaTriangle` (`mesa/OpenStepMGAMesaHook.c:2529`) and asked for again only if
  something is pending (`:3122`).  A flush made by the WARP attempt, or by a texture
  upload, may have revoked the device and left nothing pending; the trapezoids are
  then written through an address that is no longer mapped.
- `engine_shared_answer`: the four answer words are one array of the driver, cleared before
  the claim and copied to the caller after it is given back (`.m:6545`).  A submission that
  is refused as busy can carry the verdict of another client's batch, against the comments
  at `.m:3157` and `.m:6538`.  It takes two threads; a single caller's words are its own.
- `mesa_present_left`: a narrowed mirror rests on the array having been equal before
  (`mesa/OpenStepMGAMesaBuffer.c:43-45`), and leaving present mode does not set
  `bufFullNext` (`:757`), so the next bracket delivers its own box, gives up the mark, and
  the rest of what was presented is owed by nobody.  `ArrayAgrees` is stated for surfaces
  never presented since they were bound, and `CleanMeansDelivered` also for those after
  which no mirror was narrowed.

Six more have a property in their module that the code does not keep, and can be
reproduced by a configuration of a few lines:

| Property | Instance | What happens |
|---|---|---|
| `InFlightIsToldItFailed` (an action property) | `MCEngineClaim`, `Threads = {c1}`, `Kinds <- BatchKinds`, `ClaimSpins = 1`, `MaxEpoch = 2`, `MaxInject = 1` | `osmgaModeEpoch` moves when a mode change *ends*, so a batch that finishes during an unclaimed change is reported as drawn, although the log says that any batch in flight will be told it failed |
| `WorkStartsInLinearMode` (an action property) | the same | only v9 reads `linearModeActive` again under the claim (`.m:6378`, `.m:11294`) |
| `NothingLostUncounted` (an invariant) | `MCMesaBatch` with the constants of `mesa_stale_window` | a trapezoid batch that fails after the engine had it leaves its sources undrawn, and with a narrowed batch those that never reached the engine, without moving `hookDropped` (`mesa/OpenStepMGAMesaHook.c:1909-1914`, `:2025-2028`), which `:971` says answers whether the picture lost anything.  `LostButOneBatchCounted` is what is left of that: one such batch, and the device is given up |
| `EveryWriterIsReported` (an invariant) | `MCMesaPictures` with the constants of `mesa_present_left`, `MaxBrackets = 2` | a gated triangle of Mesa's writes rows itself and reports no box (`mesa/OpenStepMGAMesaHook.c:4443-4450`), so in a bracket that also draws something reported a narrowed mirror misses it, against `:449-450`.  `ArrayAgrees` and `CleanMeansDelivered` leave those rows out (`unreported`) |
| `ProbePutsBack` (an invariant) | `MCOffscreenWindow`, `SPECIFICATION Spec`, the window's constants of `aperture`, `MayFail = {"probe_read"}`, `MaxModeSets = 1` | a page whose mapping fails in the readback pass is skipped by the restore pass (`.m:16533`), against the comment above it |
| `ClearMeansOurs` (an invariant) | `MCPciSurvey`, `SPECIFICATION SurveySpec`, the survey's constants of `aperture`, `Topologies <- MachinesWithTopWindow` | the exclusive end of a foreign window that reaches four gigabytes is zero, and the window is taken for a disabled one (`D/OpenStepMGAPciSurvey.c:130`) |

Observed while modelling and stated here rather than run:

- Blits and fills look at the latch on entry, not when they claim, so they may
  start after a timeout latched in between; `NothingAfterTheLatch` therefore
  speaks of the kinds that honour it (`HonoursLatch`).
- A lease of a reloaded server has the credentials (1, 1) that the first lease of
  the previous load had, and the pair repeats after 2^32 - 1 leases; the promise
  of `docs/P2_PROTOCOL.md:70-73` holds within one load.
- The first look after two pages cannot see every board that wraps; the comment
  at `.m:16339-16341` expects it to.  The second look does, and `WindowIsBacked`
  holds.
- A witness that cannot be put back is logged and the window opens over it;
  `WindowOpensClean` is checked with the restoring mappings not failing.
- A child of a fork draws through the window it shares with its parent until its
  first state update: only `OSMGAMesaProbeRun` looks at the process.
- The comment at `mesa/OpenStepMGAMesaHook.c:1816` says that a release leaves
  `bufOrigin` set; `mesa/OpenStepMGAMesaBuffer.c:868` clears it.
- A WARP triangle is declined iff no one power of two brings its weights into the
  window; some that span less than the window are declined too, against
  "span more than the window".
- The chooser of an edge's precision (`mesa/OpenStepMGAMesaTriangle.c:1517-1536`)
  truncates where the edge registers floor, so at reduced precision an edge may
  exceed the budget by a little; the validator refuses it and Mesa draws it.
- `DestFits` forms the pitch in bytes in a word; a pitch of 2^30 pixels gives rows of
  nought bytes and a division by it.  The trapezoid path has a bound on the pitch
  before it, the WARP path has not.  The model names the outcome `UNDEFINED`.
- A `Begin` that fails after the CRTC image was made (`protocol/OpenStepMGAModeTransaction.c:111`)
  leaves the image of another mode in a transaction that goes on; the readback is then
  compared with that.  `StatesAreEarned` says so (`history.intact`).
- A `Begin` that succeeds looks at no state: in the linear mode, or while a roll-back is
  owed, it starts over and the roll-back is forgotten.
- The poll's policy is handed in with each sample and need not be the one `Begin`
  checked; the run hands in an invalid one as well.
- The PLL planner wants the clock asked for times its divider in the VCO's window, the
  encoder wants the VCO settled for there.  Clocks of 81,169 to 81,250 kHz, and the like
  at other dividers, are planned with a VCO of 1,301,400 kHz and then refused.
- The CRTC image has eleven bits for the end of the display and the check before it
  allows twelve (`profile/OpenStepMGAG450PrimaryCRTCImage.c:70-76`, `:86-90`); the ends of
  the pulses have five and four bits; the row offset is made of the width, so a pitch
  wider than the picture is not shown.
- Neither the range plan nor its review asks whether the framebuffer's range overlaps
  the other two or the end of the address space.
- The ledger starts its identifiers over when it is initialised again, so a record of
  before is live again if its shape is; released bytes are never handed out again.
- Comments that say less than the code admits: `hw3d/OpenStepMGAHW3D.h:985-989` and
  the note on repeat and blending in `hw3d/OpenStepMGAHW3D.c` beside 1606-1617;
  `mesa/OpenStepMGAMesaHook.c:2727-2729`, `:3526-3560` and
  `mesa/OpenStepMGAMesaTriangle.h:121-122`, which describe an older and narrower gate;
  `:3288-3290` against `:3296` and `:3422`.

## 6. What is not modelled

- The driver's register sequences and its PLL and timing tables, microcode, the order of
  register writes inside one command, and what the self-tests measure: data, and
  hardware behaviour no model would know.
- The kernel reading a batch *while* its client writes it: `Submit` takes a batch as
  one value.  The code copies header and body once before it looks at them; that
  each word is read once is not checked here.
- `profile/OpenStepMGAG450RecoveryConfig.c`, which compares six strings with constants, the
  reasons that `profile/` and `protocol/` return with a refusal, the strings of both, and
  the PLL's error in parts per million, which is only reported.
- The decoding of `edid/`, `D/OpenStepMGAManualConfig.c`, `reference/`: pure functions of
  their arguments, without state.  `osmgaHW3DSecRange` of `hw3d/` is called by its host
  test only.
- `-free` and unloading the display driver: ruled out by the project itself, though
  it would unmap the registers without a claim (`.m:7662`).  The soft-reset and
  memory-reset commands are not compiled in.
- The lease service's `protocol_info` and `query_capabilities`, which return
  constants and change nothing.
- The survey's log events and counters, and a second host bridge.
- The engine's opt-in tests that write fixed offsets of an open window at the end
  of a mode set (`.m:7378`).
- A PLL that does not lock (`.m:4689`): the registers behind `hwMode` are one value.
- Of the hook: its plumbing into Mesa, counters, and environment switches for
  measurement.  Of the conversion: the perspective plane and the packed colour.

## 7. Plan

Done: the driver's arbitration, window and survey, and the lease service; then
everything from GL's state to the engine's rows, and what the hook keeps between
triangles; then the mode transaction, its planners and the ledger of surfaces.  The
order was by what a mistake costs: first who may write to the card, then who may write
to its memory, then what that memory is and what is drawn in it.

Next, in this order:

1. The snapshot: split `Submit` into the header read once, the copy, the checks and
   the encoding, with a client that writes in between.  Abstract specification: an
   atomic submission of one value; `BatchPath` with the snapshot refines it.
2. The perspective plane of the trapezoid builder, mip chains in a mesh, and the rest of
   the policy that chooses between the tiers.

Properties stay named parts, parameters stay constants with named assumptions, and
no module with a theorem uses a `RECURSIVE` operator.

## 8. Running it

    tlc -workers 2 -config engine_requests.cfg MCEngineClaim
    tlc -workers 2 -config hook_path.cfg MCHookPath
    tlapm Sharing_proofs.tla

Each run's module and configuration are in `PROJECT.json` `runs`; each property's
mutant, a plausible mistake in the code that the run must notice, is under
`mutants`.  The longest runs (`mesa_pictures`, `aperture`) take one to
three minutes, the longest proofs (`BatchPath_proofs`, `TrianglePath_proofs`) about ten each.
