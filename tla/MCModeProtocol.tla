--------------------------- MODULE MCModeProtocol ---------------------------
(* An instance of ModeProtocol: the reviewed mode of the code's tests,      *)
(* 1600 by 1200 at 60 Hz, and modes made at the edges of the registers.     *)
EXTENDS ModeProtocol

Axis(front, sync, back) == [front |-> front, sync |-> sync, back |-> back]

(* The reviews of a mode, all evidence given, with the board's full memory. *)
Board(ramdac) ==
  [evidence |-> ProfileEvidence,
   reference |-> [board |-> "B2", crosscheck |-> "B6", vram |-> "B4+B5", ramdac |-> "B5"],
   vramType |-> "DDR", vram |-> DeploymentBytes, ramdac |-> ramdac]

Review(width, height, refresh, clock, h, v, ramdac) ==
  LET mode == [width |-> width, height |-> height, refresh |-> refresh] IN
  [profile |-> Board(ramdac), configured |-> DeploymentBytes, evidence |-> ModeEvidence,
   mode |-> mode,
   timing |-> [mode |-> mode, clock |-> clock, h |-> h, v |-> v, hPositive |-> 1, vPositive |-> 1],
   bpp |-> 32, pitch |-> 4 * width, alignment |-> 8, clock |-> clock,
   mapping |-> DeploymentBytes]

Inputs(review, required) ==
  [mapping |-> [mode |-> review, verified |-> MappingEvidence, ranges |-> 3, index |-> 0,
                bytes |-> DeploymentBytes, cache |-> "write_through"],
   matrix |-> [original |-> [originals |-> 1, replacements |-> 0, evidence |-> SnapshotEvidence],
               recovery |-> [originals |-> 0, replacements |-> 1, evidence |-> SnapshotEvidence],
               failure |-> [originals |-> 1, replacements |-> 0, evidence |-> SnapshotEvidence],
               verified |-> MatrixEvidence],
   pll |-> [mode |-> review, sourceVerified |-> TRUE, headVerified |-> TRUE, head |-> "PRIMARY"],
   base |-> [page |-> 983040, offset |-> 0],
   policy |-> [timeout |-> 2, required |-> required]]

Reviewed ==
  Review(1600, 1200, 60000, 162000, Axis(64, 192, 304), Axis(1, 3, 46), 300000)
Another == Review(1024, 768, 125000, 138432, Axis(24, 136, 160), Axis(3, 6, 47), 300000)

(* What callers get wrong: one field of one review.                         *)
AsGiven(in, slip) ==
  LET both(review) == [in EXCEPT !.mapping.mode = review, !.pll.mode = review] IN
  CASE slip = "none" -> in
    [] slip = "another" -> both(Another)
    [] slip = "another_unpolled" -> [both(Another) EXCEPT !.policy.required = 0]
    [] slip = "no_owner" -> [in EXCEPT !.mapping.verified = @ \ {"sole_owner"}]
    [] slip = "both_drivers" -> [in EXCEPT !.matrix.failure.replacements = 1]
    [] slip = "other_pll_mode" -> [in EXCEPT !.pll.mode = Another]
    [] slip = "unaligned" -> [in EXCEPT !.base.offset = 1]
    [] slip = "sixteen_bits" -> both([in.mapping.mode EXCEPT !.bpp = 16])
    [] slip = "odd_front" ->
         both([in.mapping.mode EXCEPT !.timing.h = Axis(@.front + 4, @.sync, @.back - 4)])
    [] slip = "no_source" -> [in EXCEPT !.pll.sourceVerified = FALSE]
    [] slip = "no_poll" -> [in EXCEPT !.policy.required = 0]

(* The registers as they should be, a bit of the misc register nobody asks  *)
(* for set, and one thing wrong.                                            *)
SeenOf(image) ==
  IF image = NoPlan THEN {}
  ELSE {image, [image EXCEPT !.misc = @ + 1], [image EXCEPT !.misc = 4],
        [image EXCEPT !.crtc[7] = @ + 1], [image EXCEPT !.extended[2] = @ + 1]}

Early == 1
Late == 2
Times == {Early, Late}
-----------------------------------------------------------------------------
Arena(bytes, alignment, outside, turn) ==
  [bytes |-> bytes, alignment |-> alignment, outsideScanout |-> outside, turn |-> turn]
NoArena == {Arena(64, 16, FALSE, 1)}

Budget(reserved, scanout, buffers) ==
  [available |-> DeploymentBytes, scanout |-> scanout, reserved |-> reserved, width |-> 1024,
   height |-> 768, colorBits |-> 32, depthBits |-> 16, buffers |-> buffers, alignment |-> 8]
Spare == DeploymentBytes - 1600 * 1200 * 4 - 1024 * 768 * 10
Budgets ==
  {Budget(reserved, scanout, buffers) :
     reserved \in {0, Spare, Spare + 1, DeploymentBytes}, scanout \in {0, 1600 * 1200 * 4},
     buffers \in 1..2}

(* Modes whose numbers lie on either side of a register's bits.  A refresh  *)
(* of 125 Hz leaves the clock an eighth of the two totals' product.         *)
Swept(width, height, h, v) ==
  Review(width, height, 125000, (AxisTotal(width, h) \div 8) * AxisTotal(height, v), h, v, 700000)

Sweep ==
  {Swept(width, height, h, v) :
     width \in {640, 1016, 2040, 2048, 2056}, height \in {255, 256, 480, 513, 1023, 1025},
     h \in {Axis(8, 16, 24), Axis(64, 192, 304), Axis(8, 264, 8), Axis(16, 8, 8)},
     v \in {Axis(1, 3, 46), Axis(1, 16, 1), Axis(513, 1, 1)}}
  \cup {Swept(640, height, Axis(16, 96, 48), v) :
          height \in {762, 2047, 2048, 2049, 4000}, v \in {Axis(1, 3, 46), Axis(48, 2, 0)}}
  \cup {Swept(width, 768, Axis(8, 8, 8), Axis(1, 3, 46)) : width \in {4032, 4064, 4072, 4088, 4096}}

Machine(in, slips, arenas, budgets, begins, samples) ==
  [in |-> in, slips |-> slips, arenas |-> arenas, budgets |-> budgets, begins |-> begins,
   samples |-> samples]

Slips ==
  {"none", "another", "another_unpolled", "no_owner", "both_drivers", "other_pll_mode", "unaligned",
   "sixteen_bits", "odd_front", "no_source", "no_poll"}

AllMachines ==
  {Machine(Inputs(Reviewed, 2), Slips, NoArena, Budgets, 2, 4),
   Machine(Inputs([Reviewed EXCEPT !.alignment = 5], 1), {"no_owner"}, NoArena, Budgets, 1, 1),
   Machine(Inputs(Another, 1), {"none"},
           {Arena(64, 16, TRUE, 1), Arena(64, 12, TRUE, 1), Arena(32, 16, TRUE, 2)}, {}, 1, 1)}
  \cup {Machine(Inputs(m, 0), {"none"}, NoArena, {}, 2, 1) : m \in Sweep}
-----------------------------------------------------------------------------
SurfaceRequest(width, height, stride) == [width |-> width, height |-> height, stride |-> stride]
AllRequests ==
  {SurfaceRequest(2, 2, 3), SurfaceRequest(1, 2, 1), SurfaceRequest(3, 2, 2),
   SurfaceRequest(63, 1, 63), SurfaceRequest(1, 16, 4)}
AllRectangles == [x : {0, 1, 2}, y : {0, 1}, w : {0, 1, 2, 4}, h : {1, 2}]
AllCorners == {<<0, 0>>, <<1, 0>>, <<1, 1>>, <<3, 1>>, <<-1, 0>>, <<2, 2>>}
=============================================================================
