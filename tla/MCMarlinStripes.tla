--------------------------- MODULE MCMarlinStripes ---------------------------
(***************************************************************************)
(* Small launch geometries for TLC.  Up to three or four CTAs and a         *)
(* handful of tiles reach every branch of the partition: fewer tiles than   *)
(* CTAs, as many, more; a remainder of at most and of more than a third of  *)
(* the grid; a column shared by two and by three CTAs; stripes that end at  *)
(* and inside a column.                                                     *)
(***************************************************************************)
EXTENDS MarlinStripes

Launches(grids, ks, ns, ps, groups, whole, atomic, fp32) ==
  [grid : grids, kTiles : ks, nTiles : ns, parallel : ps,
   groupTiles : groups, wholeK : whole, atomicAdd : atomic,
   fp32Reduce : fp32]

BarrierGeometries ==
  Launches({2, 3}, {2, 3}, {1, 2}, {1, 2}, {0}, {FALSE}, {FALSE}, {TRUE})
    \cup Launches({3}, {3}, {2}, {1, 2}, {0}, {FALSE}, {FALSE}, {FALSE})
    \cup Launches({2}, {6}, {1}, {1, 3}, {2}, {FALSE}, {FALSE}, {TRUE})
    \cup Launches({4}, {3}, {1}, {1, 3}, {0}, {FALSE}, {FALSE}, {TRUE})

AtomicGeometries ==
  Launches({2, 3}, {2, 3}, {1, 2}, {1, 2}, {0}, {FALSE}, {TRUE}, {TRUE})
    \cup Launches({4}, {3}, {1}, {1, 3}, {0}, {FALSE}, {TRUE}, {TRUE})

WholeKGeometries ==
  Launches({1, 2, 3}, {1, 3}, {1, 2}, {0, 1, 2, 3}, {0}, {TRUE}, {FALSE},
           {TRUE})
    \cup Launches({3}, {2}, {2}, {2}, {2}, {TRUE}, {FALSE, TRUE}, {FALSE})

AllGeometries == BarrierGeometries \cup AtomicGeometries \cup WholeKGeometries
=============================================================================
