----------------------------- MODULE MCBatchPath -----------------------------
(* Values for BatchPath.  The coordinate arithmetic is the code's divided   *)
(* by 2^13 (a word of 19 bits), a pixel has four subpixels, a channel five  *)
(* bits and a float six, and the surface is four pixels a side.             *)
EXTENDS BatchPath

ScaledLadder == <<31, 30, 28, 24, 16, 0>>
ScaledBits == [ar |-> 8, ar1 |-> 9, dr |-> 6, alpha |-> 6]
CodeAlign == [pitch |-> 32, dst |-> 64, z |-> 128, tex |-> 32]
SmallFloat == [one |-> 12, coord |-> 20, rhwMin |-> 4, rhwMax |-> 16]
MmapWindow == [start |-> 128, end |-> 65536]

Blend == [src |-> 1, dst |-> 0, mode |-> 1, stipple |-> FALSE, test |-> 0]
Flat == [opcode |-> OpTrap, atype |-> AtypeI, zmode |-> 0, ac |-> Blend]
Deep == [Flat EXCEPT !.atype = AtypeZI, !.zmode = 4]
Skin == [Flat EXCEPT !.opcode = OpTex]
Prims == {Flat, Deep, Skin}
OddPrims ==
  {[Flat EXCEPT !.opcode = 5], [Flat EXCEPT !.zmode = 4], [Flat EXCEPT !.ac.test = 1],
   [Flat EXCEPT !.ac.mode = 2], [Flat EXCEPT !.ac.stipple = TRUE],
   [Flat EXCEPT !.ac.stipple = TRUE, !.ac.src = 5, !.ac.dst = 4]}

Surface ==
  [dstorg |-> 128, dstWidth |-> 4, dstHeight |-> 4, dstPitch |-> 32, zorg |-> 640,
   texorg |-> 896, texW |-> 8, texH |-> 8, texPitch |-> 8, tw32 |-> TRUE, biasU |-> 0, biasV |-> 0,
   minmode |-> 0, persp |-> FALSE, tmr |-> <<0, 0, 0, 0, 0, 0>>,
   scissorOn |-> FALSE, scissorX |-> 0, scissorY |-> 0, scissorW |-> 0, scissorH |-> 0]
Scissored(x, y, w, h) ==
  [Surface EXCEPT !.scissorOn = TRUE, !.scissorX = x, !.scissorY = y, !.scissorW = w, !.scissorH = h]
Scissors == {Scissored(1, 1, 2, 2), Scissored(-2, 0, 6, 3), Scissored(3, -1, 9, 2), Scissored(4, 0, 1, 4),
             Scissored(0, -3, 4, 3)}

-----------------------------------------------------------------------------
(* Triangles: every three points of a grid of subpixels; some with a       *)
(* scissor, a depth and its offset; some with a texture.                   *)
Points == {-3, 1, 2, 6, 11, 15} \X {0, 2, 6, 7, 9, 16}
Fewer == {1, 6, 15} \X {2, 9, 16}
Order(p) == p[1] * 100 + p[2]
Corner(p, c, u, z) == [x |-> p[1], y |-> p[2], c |-> c, u |-> u, z |-> z]
Corners3(p, q, r, u, v, w) == <<Corner(p, 3, u, 2), Corner(q, 0, v, 9), Corner(r, 2, w, 15)>>
From(ps, p) ==
  {Corners3(p, q, r, 0, 0, 0) : q \in {x \in ps : Order(x) > Order(p)}, r \in {x \in ps : Order(x) # Order(p)}}
Family(tris, prims, repeats, offsets, states) ==
  [tris |-> tris, prims |-> prims, repeats |-> repeats, offsets |-> offsets, states |-> states]
Us == {-200, 0, 300, 1000, 1500}
AllTriangles ==
  {Family(From(Points, p), {Flat}, {FALSE}, {0}, {Surface}) : p \in Points}
    \cup {Family(UNION {From(Fewer, p) : p \in Fewer}, {Deep}, {FALSE}, {0, 1}, Scissors),
          Family({Corners3(<<1, 2>>, <<14, 5>>, <<6, 15>>, u, v, w) : u \in Us, v \in Us, w \in Us},
                 {Skin}, BOOLEAN, {0}, {Surface}),
          Family({Corners3(<<1, 2>>, <<14, 15>>, <<40, 14>>, 0, 0, 0),
                  Corners3(<<1, 2>>, <<30, 3>>, <<3, 16>>, 0, 0, 0)}, {Flat}, {FALSE}, {0}, {Surface})}

-----------------------------------------------------------------------------
(* Batches nobody built: edges, rows, fields; places; coordinates.         *)
Trap(prim, y, h, left, right, l, r) ==
  [prim |-> prim, y |-> y, h |-> h, left |-> left, right |-> right, ar0 |-> l[1], ar1 |-> l[2],
   ar2 |-> l[3], ar6 |-> r[1], ar4 |-> r[2], ar5 |-> r[3],
   sgn |-> (IF l[4] THEN {"left"} ELSE {}) \cup (IF r[4] THEN {"right"} ELSE {}),
   dr |-> {0}, colour |-> <<0, 0, 0>>, depth |-> <<0, 0, 0>>, tu0 |-> 0, tv0 |-> 0, tq0 |-> QOne]
Upright == <<2, 0, 0, FALSE>>
Box(prim) == Trap(prim, 0, 2, 0, 4, Upright, Upright)
Edges == {Upright, <<2, -3, -3, TRUE>>, <<2, -1, -3, FALSE>>, <<5, 4, -7, FALSE>>, <<3, -8, 0, FALSE>>,
          <<3, -40, -2, TRUE>>, <<0, 0, 0, FALSE>>, <<2, 0, 1, FALSE>>, <<200, 0, 0, TRUE>>}
Walks(l) ==
  {<<Trap(Flat, y, h, left, right, l, r)>> :
     y \in {0, 2}, h \in {1, 3}, left \in {0, 2}, right \in {2, 4, 5}, r \in Edges}
Oddities ==
  {<<Trap(Flat, y, h, 0, 4, Upright, Upright)>> : y \in -1..5, h \in 0..5}
    \cup {<<[Box(p) EXCEPT !.dr = {d}]>> : p \in OddPrims, d \in {0, 31, 32}}
    \cup {<<[Box(Flat) EXCEPT !.sgn = {"other"}]>>, <<>>, <<Box(Flat), Box(Flat), Box(Deep)>>}

End == MmapWindow.end
Origins == {0, 128, 130, End - 512, End - 256, End - 1, 2^19 - 64}
Destinations(o, widths, depths) ==
  {[Surface EXCEPT !.dstorg = o, !.dstWidth = w, !.dstHeight = h, !.dstPitch = p, !.zorg = z] :
     w \in widths, h \in {0, 2, 4, 2^17 + 1}, p \in {0, 31, 32, 64, 2^17, 2^17 + 32}, z \in depths}
Textures ==
  {[Surface EXCEPT !.texorg = o, !.texW = w, !.texH = h, !.texPitch = p, !.minmode = m] :
     o \in {896, 900, End - 64}, w \in {0, 8, 65}, h \in {8, 16, 65}, p \in {4, 8, 16, 64}, m \in {0, 1, 8}}
Places == {Destinations(o, {4, 2^17 + 4}, {640, End - 64}) : o \in Origins}
            \cup {Destinations(128, {0, 32, 33}, {640, 642, End - 512, End - 256}), Textures}

Slants == {Trap(Skin, 0, 3, 1, 3, Upright, Upright), Trap(Skin, 1, 3, 2, 4, <<2, -3, -3, TRUE>>, Upright),
           Trap(Skin, 0, 3, 1, 1, Upright, <<2, -4, -4, FALSE>>), Trap(Skin, 0, 3, 3, 3, Upright, Upright)}
Sampled(us, v, qs) == {[t EXCEPT !.tu0 = u, !.tv0 = v, !.tq0 = q] : t \in Slants, u \in us, q \in qs}
Affine ==
  [states |-> {[Surface EXCEPT !.tmr = <<a, b, c, 0, 0, 0>>, !.biasU = bias] :
                 a \in {-100, 0, 60, 1025}, b \in {-512, 0, 30, 513}, c \in {0, 600}, bias \in {0, 6, 7}},
   tris |-> {<<t>> : t \in Sampled({-128, 0, 900, 1025}, 100, {8})}]
Projected ==
  [states |-> {[Surface EXCEPT !.persp = TRUE, !.tmr = <<a, 10, 0, 1, c, d>>, !.biasU = bias] :
                 a \in {-90, 40}, c \in {-65024, -32512, -1, 3, 500}, d \in {-32600, -1, 0, 500},
                 bias \in {0, 6}},
   tris |-> {<<t>> : t \in Sampled({-128, 500, 1000}, 8, {0, 1, 8, 1000})}]
Twice == [states |-> {[Surface EXCEPT !.tmr = <<a, 0, 0, 0, 0, 0>>] : a \in {0, 60}},
          tris |-> Sampled({0, 1000, 1025}, 0, {8}) \X Sampled({0, 1000, 1025}, 0, {8})]

AllBatches ==
  {[states |-> {Surface}, tris |-> s] : s \in {Walks(l) : l \in Edges} \cup {Oddities}}
    \cup {[states |-> s, tris |-> {<<Box(Skin)>>, <<Box(Deep)>>, <<[Box(Deep) EXCEPT !.y = 2]>>}]
             : s \in Places}
    \cup {Affine, Projected, Twice}

-----------------------------------------------------------------------------
(* WARP batches: runs, words, mip chains, places, and every float.         *)
Good == [x |-> 8, y |-> 12, z |-> 4, rhw |-> 12, tu0 |-> 0, tv0 |-> 40]
RunOf(first, count, prim) == [first |-> first, count |-> count, prim |-> prim]
Warp(runs, n) ==
  [mips |-> 0, mipOrg |-> <<1152, 1216, 1280, 1344, 1408>>, vtxCount |-> n, runs |-> runs,
   vtx |-> <<Good, Good, Good>>]
One(prim) == Warp(<<RunOf(0, 3, prim)>>, 3)
Firsts == {0, 3, 4}
Counts == {0, 2, 3, 6}
RunLists ==
  {Warp(<<RunOf(f, c, Flat)>>, n) : f \in Firsts, c \in Counts, n \in {0, 3, 6, 7, 9}} \cup {Warp(<<>>, 3)}
TwoRuns(n) ==
  {Warp(<<RunOf(f, c, Deep), RunOf(g, d, Flat)>>, n) : f \in Firsts, c \in Counts, g \in Firsts, d \in Counts}
Floats ==
  UNION {{[Good EXCEPT !.x = p], [Good EXCEPT !.y = p], [Good EXCEPT !.z = p], [Good EXCEPT !.rhw = p],
          [Good EXCEPT !.tu0 = p], [Good EXCEPT !.tv0 = p]} : p \in 0..63}
Chains ==
  [states |-> {[Surface EXCEPT !.texW = w, !.texPitch = p, !.texH = h, !.minmode = m] :
                 w \in {16, 24, 32}, p \in {16, 32}, h \in {16, 32}, m \in {0, 1, 8, 12}},
   shapes |-> {[One(prim) EXCEPT !.mips = n, !.mipOrg[1] = o] :
                 n \in {0, 1, 2, 4, 5}, o \in {1152, 1154, End - 32}, prim \in {Skin, Flat}}]
AllWarpBatches ==
  {[states |-> {Surface}, shapes |-> s] :
     s \in {RunLists, {[One(Skin) EXCEPT !.vtx[2] = v] : v \in Floats},
            {One(p) : p \in Prims \cup OddPrims}} \cup {TwoRuns(n) : n \in {3, 6, 7}}}
    \cup {[states |-> s, shapes |-> {One(Deep), One(Skin)}] : s \in Places}
    \cup {Chains, [states |-> Scissors, shapes |-> {One(Skin)}]}

-----------------------------------------------------------------------------
(* Meshes: weights around the window; coordinates, depths and texture      *)
(* coordinates at their ends; and every order of words, one of the         *)
(* triangles declined, with the capacities lowered.                        *)
Vertex == [x |-> 2, y |-> 6, z |-> 8, qw |-> 16, tq |-> 1, s |-> 0, t |-> 16]
Weighed(u, v, w, tq) ==
  <<[Vertex EXCEPT !.qw = u], [Vertex EXCEPT !.x = 14, !.qw = v], [Vertex EXCEPT !.y = 15, !.qw = w, !.tq = tq]>>
Even == Weighed(16, 16, 16, 1)
Behind == Weighed(16, 0, 16, 1)
Asked(tri, prim, offset) == [tri |-> tri, prim |-> prim, offset |-> offset]
Powers == {1, 3, 4, 8, 15, 32, 33, 64, 200, 256}
Extremes == {-40, -14, 0, 2, 18, 19, 60}
OddVertices ==
  UNION {{[Vertex EXCEPT !.x = p], [Vertex EXCEPT !.y = p], [Vertex EXCEPT !.z = p]} : p \in Extremes}
    \cup {[Vertex EXCEPT !.s = s, !.t = t, !.tq = q] : s \in {-224, 250, 300}, t \in {0, 1000}, q \in {0, 1, 2, -1}}
BlendedPrim == [Flat EXCEPT !.ac.src = 4, !.ac.dst = 5]
WordLists == {<<Asked(Even, p, 0), Asked(t, q, 0), Asked(Even, r, 0)>> :
                p \in {Flat, BlendedPrim}, q \in {Flat, BlendedPrim, Skin}, r \in {Flat, BlendedPrim}, t \in {Even, Behind}}
AllCaps == [vtx : {0, 2, 3, 99}, runs : {0, 1, 2}]
FullCaps == [vtx : {0}, runs : {0}]
MeshFamily(caps, jobs) == [states |-> {Surface}, caps |-> caps, jobs |-> jobs]
AllMeshes ==
  {MeshFamily(FullCaps, {<<Asked(Weighed(u, v, w, q), Flat, 0)>> : v \in Powers, w \in Powers, q \in {1, 2}})
     : u \in Powers}
    \cup {MeshFamily(FullCaps, {<<Asked([Even EXCEPT ![2] = v], p, o)>> :
                                 v \in OddVertices, p \in {Flat, Skin}, o \in {-3, 0, 1}}),
          MeshFamily(AllCaps, WordLists)}
=============================================================================
