--------------------------- MODULE SlicePipeline ---------------------------
(***************************************************************************)
(* Inside one slice of the Marlin kernel: the warps that share a tile of K  *)
(* copy A, B and scales asynchronously into a ring of stages, read stages   *)
(* ahead into two sets of registers and multiply.  The same shared memory   *)
(* then serves the reduction over the warps, the reordering of the result,  *)
(* and the number of valid rows of the next block.                          *)
(*                                                                         *)
(* A stage is what each warp copied into it; a copy lands at any time from  *)
(* its issue to the wait that covers it.  Reads are of every warp's part.   *)
(* The three walks over K (A by column and offset, B and scales by running  *)
(* pointers) are separate counters, as in the code.  16-bit activations, no *)
(* zero points; per-column scales and bias do not enter the ring.           *)
(***************************************************************************)
EXTENDS Integers, Sequences, SequencesExt

CONSTANTS
    Warps,      \* warps along K in a thread block, a power of two
    SubTiles,   \* b_sh_wr_iters: sub-tiles of a tile, per warp
    Launches    \* [stages, group, slices]: the kernel, its group_blocks, and the
                \* slices [block, row, iters] that a thread block walks

KBlocks == Warps * SubTiles   \* thread_k_blocks
Warp == 0 .. Warps - 1

\* group_blocks and slices that the code instantiates: stages hold whole groups,
\* and a slice begins with a group.
ASSUME PipelineAssumption ==
    /\ Warps \in {2, 4} /\ SubTiles \in {2, 4}
    /\ \A l \in Launches :
         /\ l.stages \in {2, 4} /\ l.group \in {1, 2, 4, 8}
         /\ \A i \in DOMAIN l.slices :
              l.slices[i].iters > 0 /\ (KBlocks * l.slices[i].row) % l.group = 0

VARIABLES
    launch,
    warp,      \* warp[w]: where it is, its counters, registers, sum and copies
    stage,     \* stage[i][w]: the tiles w's part of stage i is of
    red,       \* red[w]: the reduction's slots, over the B stages
    count,     \* sh_new[0], in the same place: the block whose rows were counted
    result     \* result[w]: what w last wrote to C

pipeVars == <<launch, warp, stage, red, count, result>>

Nothing == -1
NoPart == [a |-> Nothing, b |-> Nothing, s |-> Nothing]
NoSum == <<NoPart>>

Slice(x) == launch.slices[x.slice]

\* Registers dequantise 8-bit scales (those of groups of 16 and 32) in place.
InPlace == launch.group <= 2

\* The tile's groups a stage holds, and the stages a group lasts.
TileGroups == IF launch.group < KBlocks THEN KBlocks \div launch.group ELSE 1
GroupTiles == (launch.group + KBlocks - 1) \div KBlocks

\* init_slice and the pointers set after it; a new block's rows are read first.
AtSlice(n, rows, sync) ==
    LET row == launch.slices[n].row IN
    [at |-> IF launch.slices[n].block = rows THEN "prime" ELSE "ids",
     sync |-> sync, slice |-> n, rows |-> rows,
     left |-> launch.slices[n].iters, pipe |-> 0, k |-> 0,
     aTile |-> row, bTile |-> row, sGroup |-> (KBlocks * row) \div launch.group,
     frag |-> [i \in 0 .. 1 |-> [a |-> Nothing, b |-> Nothing, sub |-> 0]],
     scale |-> [i \in 0 .. 1 |-> [group |-> Nothing, times |-> 0]],
     sum |-> <<>>, half |-> Warps \div 2, pending |-> <<>>]

PipeInit ==
    /\ launch \in Launches
    /\ warp = [w \in Warp |-> AtSlice(1, 0, 0)]
    /\ stage = [i \in 0 .. launch.stages - 1 |-> [w \in Warp |-> NoPart]]
    /\ red = [w \in Warp |-> NoSum]
    /\ count = 0
    /\ result = [w \in Warp |-> <<>>]

-----------------------------------------------------------------------------
(* Barriers, and copies in flight.                                           *)

\* __syncthreads: a warp goes on when none is one barrier behind it.
Synced(w) == \A v \in Warp : warp[v].sync # ((warp[w].sync + 2) % 3)
Arrived(x) == [x EXCEPT !.sync = (@ + 1) % 3]

\* cp_async_wait<n>: all but the last n groups of the warp have landed.
Landed(x, n) == \A i \in 1 .. Len(x.pending) - n : x.pending[i].landed
Waited(x, n) ==
    [x EXCEPT !.pending =
        IF Len(@) > n THEN SubSeq(@, Len(@) - n + 1, Len(@)) ELSE @]

\* fetch_to_shared: one group, empty when the pipeline winds down; scales come with
\* the stages that start a group.
FetchToShared(x, to, offset, pred) ==
    LET starts == pred /\ to % GroupTiles = 0 IN
    [x EXCEPT !.pending = Append(@,
                 [to |-> to, landed |-> ~pred, a |-> x.aTile + offset, b |-> x.bTile,
                  s |-> IF starts THEN x.sGroup ELSE Nothing]),
              !.bTile = IF pred THEN @ + 1 ELSE @,
              !.sGroup = IF starts THEN @ + TileGroups ELSE @]

\* A copy lands, on whatever the memory was used for.
Land(w) ==
    \E i \in DOMAIN warp[w].pending :
        LET g == warp[w].pending[i] IN
        /\ ~g.landed
        /\ warp' = [warp EXCEPT ![w].pending[i].landed = TRUE]
        /\ stage' = [stage EXCEPT ![g.to][w] =
                        [a |-> g.a, b |-> g.b, s |-> IF g.s = Nothing THEN @.s ELSE g.s]]
        /\ red' = [v \in Warp |-> NoSum]
        /\ count' = 0
        /\ UNCHANGED <<launch, result>>

\* What a warp finds in a stage: a tile only if every part is of it.
Found(i, part) ==
    LET first == stage[i][0][part] IN
    IF \A w \in Warp : stage[i][w][part] = first THEN first ELSE Nothing

-----------------------------------------------------------------------------
(* Registers.                                                                *)

FetchToRegisters(x, k, i) ==
    [x EXCEPT !.frag[k % 2] =
        [a |-> Found(i, "a"), b |-> Found(i, "b"), sub |-> k % SubTiles]]

\* fetch_scales_to_registers, for groups of whole tiles and for groups within one.
FetchScalesToRegisters(w, x, k, i) ==
    LET loaded(from, group) == [x EXCEPT !.scale[k % 2] =
            [group |-> IF Found(from, "s") = Nothing THEN Nothing ELSE Found(from, "s") + group,
             times |-> 0]]
        repeated == [x EXCEPT !.scale[1] = x.scale[0]]
        starts == k % SubTiles = 0
    IN  IF launch.group >= KBlocks
        THEN IF i % GroupTiles # 0 THEN x
             ELSE IF starts THEN loaded(GroupTiles * (i \div GroupTiles), 0) ELSE repeated
        ELSE IF launch.group < SubTiles \/ starts
             THEN loaded(i, (SubTiles * w + (k % SubTiles)) \div launch.group)
             ELSE repeated

Fetched(w, x, k, i) == FetchScalesToRegisters(w, FetchToRegisters(x, k, i), k, i)

-----------------------------------------------------------------------------
(* The steps of a warp.                                                      *)

Goes(w, x) == warp' = [warp EXCEPT ![w] = x]
At(w, label) == warp[w].at = label /\ Synced(w)
UsesRegistersOnly == UNCHANGED <<launch, stage, red, count, result>>

\* read_moe_block_data: the sorted ids are there ...
Ids(w) ==
    /\ At(w, "ids")
    /\ Goes(w, Arrived([warp[w] EXCEPT !.at = "count"]))
    /\ UsesRegistersOnly

\* ... the last warp counts the valid rows, into the start of the B stages ...
Count(w) ==
    /\ At(w, "count")
    /\ count' = IF w = Warps - 1 THEN Slice(warp[w]).block ELSE count
    /\ stage' = IF w = Warps - 1
                THEN [stage EXCEPT ![0] = [v \in Warp |-> [stage[0][v] EXCEPT !.b = Nothing]]]
                ELSE stage
    /\ Goes(w, Arrived([warp[w] EXCEPT !.at = "valid"]))
    /\ UNCHANGED <<launch, red, result>>

\* Fault: the count may be overwritten before every warp has read it.
ReadCountNoBarrier(x) == x

\* The barrier behind the read of the count.
ReadCount(x) == Arrived(x)

\* ... and every warp reads them.
Valid(w) ==
    /\ At(w, "valid")
    /\ Goes(w, ReadCount([warp[w] EXCEPT !.rows = count, !.at = "prime"]))
    /\ UsesRegistersOnly

\* start_pipes: all stages but one are requested.
Prime(w) ==
    /\ At(w, "prime")
    /\ LET request(x, i) == FetchToShared(x, i, i, i < x.left) IN
       Goes(w, [FoldLeft(request, warp[w], [i \in 1 .. launch.stages - 1 |-> i - 1])
                  EXCEPT !.at = "primed"])
    /\ UsesRegistersOnly

\* Fault: one group too many may still be under way.
WaitDepthDeep == launch.stages - 1

\* The groups wait_for_stage leaves under way.
WaitDepth == launch.stages - 2

\* wait_for_stage.
WaitForStage(w) ==
    /\ warp[w].at \in {"primed", "wait"} /\ Landed(warp[w], WaitDepth)
    /\ Goes(w, Arrived([Waited(warp[w], WaitDepth) EXCEPT
                          !.at = IF warp[w].at = "primed" THEN "first" ELSE "multiply"]))
    /\ UsesRegistersOnly

\* The first sub-tile of a slice.
First(w) ==
    /\ At(w, "first")
    /\ Goes(w, [Fetched(w, warp[w], 0, 0) EXCEPT !.at = "fetch",
                                                 !.aTile = @ + launch.stages - 1])
    /\ UsesRegistersOnly

\* The next sub-tile, and before the tile's last one the refill.
Fetch(w) ==
    /\ At(w, "fetch")
    /\ LET x == warp[w] IN
       Goes(w, [Fetched(w, x, x.k + 1, x.pipe % launch.stages) EXCEPT
                  !.at = IF x.k = SubTiles - 2 THEN "refill" ELSE "multiply"])
    /\ UsesRegistersOnly

\* Fault: the stage that is being read is refilled.
RefillStageCurrent(x) == x.pipe % launch.stages

\* The stage read last before the barrier all warps have passed.
RefillStage(x) == (x.pipe + launch.stages - 1) % launch.stages

Refill(w) ==
    /\ At(w, "refill")
    /\ LET x == warp[w] IN
       Goes(w, [FetchToShared(x, RefillStage(x), x.pipe, x.left >= launch.stages)
                  EXCEPT !.pipe = @ + 1, !.at = "wait"])
    /\ UsesRegistersOnly

\* matmul, then the end of the tile, of the unrolled loop, or of the slice.
Multiply(w) ==
    /\ At(w, "multiply")
    /\ LET x == warp[w]
           k2 == x.k % 2
           times == IF InPlace THEN x.scale[k2].times + 1 ELSE x.scale[k2].times
           product == [a |-> x.frag[k2].a, b |-> x.frag[k2].b, sub |-> x.frag[k2].sub,
                       group |-> x.scale[k2].group, times |-> times]
           y == [x EXCEPT !.sum = Append(@, product), !.scale[k2].times = times]
           wraps == x.pipe = launch.stages
       IN  Goes(w, IF x.k < SubTiles - 1
                   THEN [y EXCEPT !.k = @ + 1, !.at = "fetch"]
                   ELSE [y EXCEPT !.k = 0, !.left = @ - 1,
                                  !.pipe = IF wraps THEN 0 ELSE @,
                                  !.aTile = IF wraps THEN @ + launch.stages ELSE @,
                                  !.at = IF x.left = 1 THEN "reduce" ELSE "fetch"])
    /\ UsesRegistersOnly

\* Writing over the B stages.
Overlay == stage' = [i \in DOMAIN stage |->
                        [w \in Warp |-> [stage[i][w] EXCEPT !.b = Nothing]]]

\* Fault: a half is added while it is still being written.
HalvedNoBarrier(x) == x

\* The barrier after each halving.
Halved(x) == Arrived(x)

\* thread_block_reduce: the upper half of the warps that are left writes its sums,
\* after adding what the half above it wrote.
ReduceHalf(w) ==
    LET x == warp[w]
        mine == x.half <= w /\ w < 2 * x.half
        sum == IF x.half < Warps \div 2 THEN x.sum \o red[w] \o red[w - x.half] ELSE x.sum
    IN  /\ At(w, "reduce") /\ x.half > 0 /\ Landed(x, 0)
        /\ IF mine THEN red' = [red EXCEPT ![w - x.half] = sum] /\ Overlay /\ count' = 0
           ELSE UNCHANGED <<red, stage, count>>
        /\ Goes(w, Halved([Waited(x, 0) EXCEPT !.half = @ \div 2,
                                               !.sum = IF mine THEN sum ELSE @]))
        /\ UNCHANGED <<launch, result>>

\* The first warp adds the last slot.
ReduceLast(w) ==
    /\ At(w, "reduce") /\ warp[w].half = 0
    /\ Goes(w, Arrived([warp[w] EXCEPT !.at = "reorder",
                                       !.sum = IF w = 0 THEN @ \o red[0] ELSE @]))
    /\ UsesRegistersOnly

\* write_result: reordered through shared memory by the first warp ...
Reorder(w) ==
    /\ At(w, "reorder")
    /\ IF w = 0 THEN red' = [v \in Warp |-> warp[0].sum] /\ Overlay /\ count' = 0
       ELSE UNCHANGED <<red, stage, count>>
    /\ Goes(w, Arrived([warp[w] EXCEPT !.at = "store"]))
    /\ UNCHANGED <<launch, result>>

\* Fault: the next slice may begin while results are still read.
StoredNoBarrier(x) == x

\* The barrier that ends write_result.
Stored(x) == Arrived(x)

\* ... and stored by all, a row or more each.  The next slice begins; after the last
\* one the walk starts over.
Store(w) ==
    /\ At(w, "store")
    /\ result' = [result EXCEPT ![w] = red[w]]
    /\ LET n == IF warp[w].slice = Len(launch.slices) THEN 1 ELSE warp[w].slice + 1 IN
       Goes(w, Stored(AtSlice(n, warp[w].rows, warp[w].sync)))
    /\ UNCHANGED <<launch, stage, red, count>>

PipeNext ==
    \E w \in Warp :
        \/ Land(w)
        \/ Ids(w) \/ Count(w) \/ Valid(w)
        \/ Prime(w) \/ WaitForStage(w) \/ First(w)
        \/ Fetch(w) \/ Refill(w) \/ Multiply(w)
        \/ ReduceHalf(w) \/ ReduceLast(w) \/ Reorder(w) \/ Store(w)

PipeSpec == PipeInit /\ [][PipeNext]_pipeVars

-----------------------------------------------------------------------------
(* Properties.                                                               *)

\* The products of a warp: sub-tile by sub-tile up its part of the slice's K tiles.
Product(w, s, j) ==
    LET tile == s.row + (j - 1) \div SubTiles
        k == (j - 1) % SubTiles
    IN  [a |-> tile, b |-> tile, sub |-> k,
         group |-> (KBlocks * tile + SubTiles * w + k) \div launch.group,
         times |-> IF InPlace THEN 1 ELSE 0]
Products(w, s) == [j \in 1 .. s.iters * SubTiles |-> Product(w, s, j)]

\* However late the copies land and however far one warp runs ahead, each product is
\* of the A and B tiles of one and the same place in K, in the order of K, with the
\* scales of its own group, dequantised once; and the rows used to mask the tile are
\* its own block's.
ProductsInOrder ==
    \A w \in Warp : LET x == warp[w] IN
        /\ x.at \in {"primed", "wait", "first", "fetch", "refill", "multiply"} =>
             /\ IsPrefix(x.sum, Products(w, Slice(x)))
             /\ x.rows = Slice(x).block
        /\ x.at = "reduce" /\ x.half = Warps \div 2 => x.sum = Products(w, Slice(x))

\* What a warp writes to C is the whole slice: the sums of all warps, each once, in the
\* order of the reduction tree, though reduction, result, stages and row count share
\* their memory.
TreeOrder == IF Warps = 2 THEN <<0, 1>> ELSE <<0, 1, 3, 2>>
ResultIsWholeSlice ==
    \A w \in Warp : result[w] # <<>> =>
        \E i \in DOMAIN launch.slices :
            result[w] = FlattenSeq([v \in 1 .. Warps |->
                                      Products(TreeOrder[v], launch.slices[i])])
=============================================================================
