--------------------------- MODULE MarlinSchedule ---------------------------
(***************************************************************************)
(* The work partition of the whole-K Marlin MoE kernel: how the thread     *)
(* blocks (CTAs) of one launch divide the output tiles, and the K          *)
(* reduction of each tile, among themselves.  Every operator is a pure     *)
(* function of the launch geometry g, of the CTA index b (blockIdx.x) and  *)
(* of the CTA's private slice state s; MarlinStripes adds the shared       *)
(* memory and the interleavings.                                           *)
(*                                                                         *)
(* A geometry is one launch of marlin_template.h's kernel:                 *)
(*   grid        gridDim.x, the number of CTAs                             *)
(*   kTiles      prob_k / 16 / thread_k_blocks                             *)
(*   nTiles      prob_n / 16 / thread_n_blocks                             *)
(*   parallel    number of valid MoE blocks (num_tokens_past_padded /      *)
(*               moe_block_size)                                           *)
(*   groupTiles  K tiles of one quantisation group when stripes are        *)
(*               rounded to groups, 0 when the kernel does not round       *)
(*   wholeK, atomicAdd, fp32Reduce    the launch flags                     *)
(***************************************************************************)
EXTENDS Integers

\* Every launch geometry the kernel can be given.
Geometry ==
  [grid : Nat \ {0}, kTiles : Nat \ {0}, nTiles : Nat \ {0}, parallel : Nat,
   groupTiles : Nat, wholeK : BOOLEAN, atomicAdd : BOOLEAN,
   fp32Reduce : BOOLEAN]

DivCeil(a, b) == (a + b - 1) \div b

-----------------------------------------------------------------------------
(* Two-tile stream-K partition: part 1 is data parallel (one CTA per tile), *)
(* part 2 is cut into one stripe of `Iters' K tiles per CTA.                *)

GlobalTiles(g) == g.parallel * g.nTiles

Part2Tiles(g) ==
  IF GlobalTiles(g) > g.grid
  THEN LET rest == GlobalTiles(g) % g.grid
       IN  IF rest * 3 <= g.grid THEN rest + g.grid ELSE rest
  ELSE GlobalTiles(g)

Part1Iters(g) ==
  IF GlobalTiles(g) > g.grid
  THEN (GlobalTiles(g) - Part2Tiles(g)) \div g.grid
  ELSE 0

Part1Tiles(g) == GlobalTiles(g) - Part2Tiles(g)

RoundUp(a, unit) == unit * DivCeil(a, unit)

\* An even share of part 2's K tiles, then rounded to quantisation groups.
EvenIters(g) == DivCeil(g.kTiles * Part2Tiles(g), g.grid)
GroupedIters(g) ==
  IF g.groupTiles > 0 THEN RoundUp(EvenIters(g), g.groupTiles) ELSE EvenIters(g)

ItersSplit(g) == GroupedIters(g)

\* Length of a CTA's stripe of part 2, in K tiles.
Iters(g) ==
  IF g.wholeK THEN RoundUp(GroupedIters(g), g.kTiles) ELSE GroupedIters(g)

-----------------------------------------------------------------------------
(* The slice state of a CTA: the locals slice_*, par_id, block_id,          *)
(* locks_off, in_part2, part1_mn_iters and first_init of the kernel.        *)

SliceState ==
  [inPart2 : BOOLEAN, part1 : Nat, colPar : Nat, row : Nat, col : Nat,
   par : Nat, block : Int, iters : Nat, count : Nat, idx : Int, lock : Int,
   firstInit : BOOLEAN]

\* The locals as the kernel declares them, before the first init_slice().
Prologue(g, b) ==
  [inPart2 |-> FALSE, part1 |-> Part1Iters(g), colPar |-> b, row |-> 0,
   col |-> 0, par |-> 0, block |-> -1, iters |-> g.kTiles, count |-> 1,
   idx |-> 0,
   lock |-> IF Part2Tiles(g) >= g.grid
            THEN b
            ELSE (Iters(g) * b) \div g.kTiles - 1,
   firstInit |-> TRUE]

\* update_next_moe_block_data: the routed rows of block par are loaded, unless
\* the CTA has run past the last valid block.
LoadBlock(g, s) ==
  IF s.par >= g.parallel THEN s ELSE [s EXCEPT !.block = s.par]

\* init_part1_slice: one whole tile.
InitPart1Slice(g, s) ==
  LoadBlock(g, [s EXCEPT !.part1 = @ - 1,
                         !.par   = s.colPar \div g.nTiles,
                         !.col   = s.colPar % g.nTiles,
                         !.iters = g.kTiles])

\* Where CTA b's stripe of part 2 begins.
EnterPart2(g, b, s) ==
  LET start == Iters(g) * b
      tile  == start \div g.kTiles + Part1Tiles(g)
  IN  LoadBlock(g, [s EXCEPT !.inPart2 = TRUE,
                             !.colPar  = start \div g.kTiles,
                             !.row     = start % g.kTiles,
                             !.col     = tile % g.nTiles,
                             !.par     = tile \div g.nTiles])

\* Faults: a stripe that ended inside the last column is not recognised; a slice
\* is not cut at the bottom of its column.
SliceItersUnguarded(g, b, s) ==
  LET left == Iters(g) * (b + 1) - (g.kTiles * s.colPar + s.row)
  IN  IF s.colPar >= Part2Tiles(g) THEN 0
      ELSE IF s.row + left > g.kTiles THEN g.kTiles - s.row ELSE left
SliceItersUnclipped(g, b, s) ==
  LET left == Iters(g) * (b + 1) - (g.kTiles * s.colPar + s.row)
  IN  IF left < 0 \/ s.colPar >= Part2Tiles(g) THEN 0 ELSE left

\* K tiles of the current column left to CTA b, 0 when its stripe is over.
SliceIters(g, b, s) ==
  LET left == Iters(g) * (b + 1) - (g.kTiles * s.colPar + s.row)
  IN  IF left < 0 \/ s.colPar >= Part2Tiles(g) THEN 0
      ELSE IF s.row + left > g.kTiles THEN g.kTiles - s.row ELSE left

\* The first stripe boundary at or after the top of column c, and its distance
\* from the top of the column.
ColFirst(g, c) == Iters(g) * DivCeil(g.kTiles * c, Iters(g))
ColOff(g, c)   == ColFirst(g, c) - g.kTiles * c

\* Does a stripe boundary fall inside column c (or at one of its ends)?
Divided(g, c) == ColFirst(g, c) <= g.kTiles * (c + 1)

\* Number of CTAs that share column c.
SliceCount(g, c) ==
  IF Divided(g, c)
  THEN DivCeil(g.kTiles - ColOff(g, c), Iters(g))
         + (IF ColOff(g, c) > 0 THEN 1 ELSE 0)
  ELSE 1

\* Position of CTA b among them, numbered from the bottom of K to the top.
SliceIdx(g, b, c) ==
  LET delta == Iters(g) * b - ColFirst(g, c)
  IN  IF ~Divided(g, c) THEN 0
      ELSE IF delta < 0 \/ (ColOff(g, c) = 0 /\ delta = 0)
      THEN SliceCount(g, c) - 1
      ELSE SliceCount(g, c) - 1 - delta \div Iters(g)
             - (IF ColOff(g, c) > 0 THEN 1 ELSE 0)

\* The column index runs over the end of a row of tiles: go to the next block.
WrapColumn(g, s) ==
  IF s.col = g.nTiles
  THEN LoadBlock(g, [s EXCEPT !.col = 0, !.par = @ + 1])
  ELSE s

\* Fault: the lock moves with every part of a shared slice.
NextLockEverySlice(g, s, count, idx) ==
  IF Part2Tiles(g) >= g.grid /\ count = 1 THEN s.lock ELSE s.lock + 1

\* locks_off moves on: per shared column when there are at least as many
\* columns as CTAs, with every column otherwise.
NextLock(g, s, count, idx) ==
  IF Part2Tiles(g) >= g.grid
  THEN IF count > 1 /\ idx = count - 1 THEN s.lock + 1 ELSE s.lock
  ELSE s.lock + 1

\* init_part2_slice, without its stores to C and to the lock.
InitPart2Slice(g, b, s) ==
  LET n     == SliceIters(g, b, s)
      count == SliceCount(g, s.colPar)
      idx   == SliceIdx(g, b, s.colPar)
  IN  IF n = 0
      THEN [s EXCEPT !.iters = 0]
      ELSE WrapColumn(g, [s EXCEPT !.iters = n, !.count = count, !.idx = idx,
                                   !.lock = NextLock(g, s, count, idx)])

\* Will init_part2_slice zero the output tile and arm the lock?
ZeroesTile(g, s, t) ==
  /\ t.inPart2 /\ t.iters > 0
  /\ s.firstInit /\ g.atomicAdd /\ t.count > 1 /\ t.idx = 0

\* init_slice: part 1 first, then this CTA's stripe of part 2.
InitSlice(g, b, s) ==
  IF ~s.inPart2 /\ s.part1 > 0
  THEN InitPart1Slice(g, s)
  ELSE [InitPart2Slice(g, b, IF s.inPart2 THEN s ELSE EnterPart2(g, b, s))
          EXCEPT !.firstInit = FALSE]

\* The step to the next tile at the end of the main loop's body.
StepColumn(g, s) ==
  IF s.inPart2
  THEN [s EXCEPT !.row = 0, !.colPar = @ + 1, !.col = @ + 1]
  ELSE [s EXCEPT !.row = 0, !.colPar = @ + g.grid]

Last(s) == s.idx = s.count - 1
=============================================================================
