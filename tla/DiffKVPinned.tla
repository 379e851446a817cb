----------------------------- MODULE DiffKVPinned -----------------------------
(***************************************************************************)
(* The two kernels the DiffKV overlay replaced, as references: the pinned   *)
(* one (upstream/vllm), whose split path takes one-row sequences only, and  *)
(* the first candidate (baselines/diffkv.per-query.py), whose split path    *)
(* takes runs of up to Short rows, each partitioned by its own prefix, and  *)
(* which has no mixed launch.  What a call computes is a function from the  *)
(* query rows to results, here computed on buffers nothing was written to;  *)
(* DiffKV's output is compared with it row by row, as                       *)
(* probe_mixed_short.py compares tensors.                                   *)
(***************************************************************************)
EXTENDS DiffKV

-----------------------------------------------------------------------------
(* The kernel, common to both but for the length lenOf a split program       *)
(* partitions: the cells its programs store, with the tiles each summed.     *)

SegmentTiles(b, l, i, local, seg, len) ==
  LET tps == TilesPerSegment(len)
      lo  == FirstTile(b, l, i, local)
      hi  == EndTile(b, l, i, local)
  IN  IF l.split THEN <<Greater(seg * tps, lo), Lesser((seg + 1) * tps, hi)>>
      ELSE <<lo, hi>>

ProgramCells(b, l, g, seg, len) ==
  LET i == BlockSeq(b, l, g) IN
  IF ~BlockActive(b, l, g) \/ (l.split /\ ~SegmentRuns(seg, len)) THEN {}
  ELSE {[row |-> b.cu[i] + p, seg |-> seg, sum |-> SegmentTiles(b, l, i, BlockLocal(b, l, g), seg, len)] :
          p \in BlockPositions(b, l, g)}

\* What all programs of a launch store, with len[g] keys partitioned in block g.
Cells(b, l, len) ==
  UNION {ProgramCells(b, l, g, seg, len[g]) : g \in Blocks(b, l), seg \in SegmentsOf(l)}

\* What the reducer combines for row r when it partitions by len: each segment's cell.
ReducedCells(cells, r, len) ==
  [seg \in SegmentsRead(len) |-> {c.sum : c \in {d \in cells : d.row = r /\ d.seg = seg}}]

\* The result of row r of a launch: segment by segment, the tiles of tile size tile.
RowResult(l, cells, r, len) ==
  [tile |-> Tile(l),
   parts |-> IF l.split THEN ReducedCells(cells, r, len)
             ELSE [seg \in {0} |-> {c.sum : c \in {d \in cells : d.row = r}}]]

-----------------------------------------------------------------------------
(* The pinned kernel                                                       *)

\* use_3d: sequences of one row, with the buffers and few sequences.
PinnedLaunch(b) ==
  Launch(b.buffers /\ b.maxq <= 1 /\ b.n <= Threshold, 0, RowsM, RowsM \div b.qpk)

\* Main kernel and reducer partition by the sequence.
PinnedLen(b, l, g) == b.k[BlockSeq(b, l, g)]
PinnedReducedLen(b, r) == b.k[FindSeq(b, 0, r)]

PinnedCells(b) ==
  LET l == PinnedLaunch(b)
  IN  Cells(b, l, [g \in Blocks(b, l) |-> PinnedLen(b, l, g)])

PinnedOut(b) ==
  [r \in 0 .. RealRows(b) - 1 |->
     RowResult(PinnedLaunch(b), PinnedCells(b), r, PinnedReducedLen(b, r))]

-----------------------------------------------------------------------------
(* The candidate before mixed launches                                     *)

\* The tile of 2 * RowsM rows for long global prefill of the qualified geometry.
BaselineBlockM(b) ==
  IF b.mimo /\ b.window = 0 /\ b.maxq >= LongPrefill THEN 2 * RowsM ELSE RowsM

BaselineLaunch(b) ==
  Launch(/\ b.buffers /\ b.maxq <= Short
         /\ Rows(b) <= Threshold /\ Rows(b) <= Capacity
         /\ b.maxq > 1 => b.mimo
         /\ b.n <= Threshold,
         0, BaselineBlockM(b), BaselineBlockM(b) \div b.qpk)

\* partition_seq_len, in the main kernel and in the reducer.
BaselineLen(b, l, g) ==
  LET i == BlockSeq(b, l, g) IN
  IF l.bq = 1 THEN b.k[i] - QLen(b, i) + BlockLocal(b, l, g) + 1 ELSE b.k[i]

BaselineReducedLen(b, r) ==
  LET i == FindSeq(b, 0, r) IN
  IF BaselineLaunch(b).bq = 1 THEN b.k[i] - QLen(b, i) + (r - b.cu[i]) + 1 ELSE b.k[i]

BaselineCells(b) ==
  LET l == BaselineLaunch(b)
  IN  Cells(b, l, [g \in Blocks(b, l) |-> BaselineLen(b, l, g)])

\* Rows without keys are stored as zeros by the split path.
BaselineOut(b) ==
  [r \in 0 .. RealRows(b) - 1 |->
     IF BaselineLaunch(b).split /\ TilesPerSegment(BaselineReducedLen(b, r)) <= 0
     THEN Zero
     ELSE RowResult(BaselineLaunch(b), BaselineCells(b), r, BaselineReducedLen(b, r))]

-----------------------------------------------------------------------------
(* Properties                                                              *)

\* The visible keys of position p of sequence i of call b under each part of a
\* result, and the tile size: what two results that are byte equal have in common.
KeysBySegment(b, i, p, tile, parts) ==
  [tile |-> tile,
   keys |-> [seg \in DOMAIN parts |->
               UNION {KeysIn(b, i, p, tile, range) : range \in parts[seg]}]]

Done(i, p) ==
  LET res == out[call.cu[i] + p]
  IN  KeysBySegment(call, i, p, res.tile, [s \in DOMAIN res.parts |-> {res.parts[s].range}])

\* The decode of position p of sequence i in a call of its own (the probe's isolated).
OneRow(b, i, p) ==
  LET len == Context(b, i) + p + 1 IN
  [n |-> 1, cu |-> [j \in 0 .. 1 |-> j], k |-> [j \in {0} |-> len], pad |-> 0, maxq |-> 1,
   qpk |-> b.qpk, window |-> b.window, mimo |-> b.mimo, buffers |-> b.buffers]

\* The calls whose short rows have room for the split path; a lone sequence's maxq, by
\* which the launcher judges it, is not an overestimate that makes it long.
Fits(b) ==
  /\ b.buffers
  /\ b.maxq > Short => b.n > 1 \/ QLen(b, 0) > Short
  /\ b.mimo \/ b.maxq = 1
  /\ b.n * Short <= Threshold /\ b.n * Short <= Capacity
  /\ b.maxq <= Short => Rows(b) <= Threshold /\ Rows(b) <= Capacity

\* "Short rows must not change numerical attention path because another sequence
\* prefills" (538-540), nor because drafts are verified together (141-142): each
\* short row with keys is summed, segment by segment, exactly as the pinned kernel
\* sums it in a decode of its own.
ShortRowsSequential ==
  Finished /\ Fits(call) =>
    \A ip \in RealPositions :
      QLen(call, ip[1]) <= Short /\ Context(call, ip[1]) + ip[2] >= 0 =>
        LET alone == OneRow(call, ip[1], ip[2])
            res   == PinnedOut(alone)[0]
        IN  Done(ip[1], ip[2]) = KeysBySegment(alone, 0, 0, res.tile, res.parts)

\* The mixed launch changes short rows only: in a call that takes no mixed launch
\* every row, and in one that does every row of a long sequence, is computed as the
\* candidate before it computed it (the probe's long_unchanged).
LongRowsAsBaseline ==
  Finished =>
    \A ip \in RealPositions :
      ~MixedShort(call) \/ QLen(call, ip[1]) > Short =>
        LET res == BaselineOut(call)[call.cu[ip[1]] + ip[2]]
        IN  Done(ip[1], ip[2]) = KeysBySegment(call, ip[1], ip[2], res.tile, res.parts)
=============================================================================
