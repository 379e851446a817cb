--------------------------- MODULE DiffKVPartition ---------------------------
(***************************************************************************)
(* How the DiffKV attention launcher divides one call's work: which rows    *)
(* each program of a launch answers for, how a row's keys are cut into      *)
(* segments, and which segments the reducer combines.  Every operator is a  *)
(* function of the call b and of the launch l; DiffKV adds the memory the   *)
(* programs write and read.                                                 *)
(*                                                                         *)
(* A call of unified_attention_diffkv is a record                           *)
(*   n        num_seqs, padding sequences of a captured graph included      *)
(*   cu       cu_seqlens_q, 0 .. n -> Nat: sequence i owns the query rows   *)
(*            cu[i] .. cu[i + 1] - 1                                        *)
(*   k        seqused_k, 0 .. n - 1 -> Nat                                  *)
(*   pad      rows of q after cu[n] (graph padding)                         *)
(*   maxq     max_seqlen_q                                                  *)
(*   qpk      num_queries_per_kv                                            *)
(*   window   SLIDING_WINDOW, 0 for none                                    *)
(*   mimo     the qualified geometry: bf16, 16 query heads on one KV head,  *)
(*            head sizes 192 and 128, 16 segments, matching fp32 buffers    *)
(*   buffers  the softmax buffers were passed and VLLM_BATCH_INVARIANT is   *)
(*            off                                                           *)
(* and a launch is a record [split, mode, bm, bq]: IS_3D, QUERY_MODE,       *)
(* BLOCK_M and BLOCK_Q.                                                     *)
(***************************************************************************)
EXTENDS Integers

CONSTANTS
  Short,        \* longest query run the short path takes: 8
  LongPrefill,  \* max_seqlen_q from which BLOCK_M doubles: 512
  RowsM,        \* the usual BLOCK_M: 16
  Segs,         \* num_par_softmax_segments: 16
  SplitTile,    \* TILE_SIZE of a 3D launch: 16
  PlainTile,    \* TILE_SIZE of a 2D launch: 32
  Threshold,    \* seq_threshold_3D: 128 in the recipe
  Capacity      \* rows of the softmax buffers

ASSUME PartitionAssumption ==
  /\ {Short, LongPrefill, RowsM, Segs, SplitTile, PlainTile} \subseteq Nat \ {0}
  /\ {Threshold, Capacity} \subseteq Nat
  /\ Short < LongPrefill /\ Short <= Segs * SplitTile

CeilDiv(a, b) == (a + b - 1) \div b
Lesser(a, b) == IF a < b THEN a ELSE b
Greater(a, b) == IF a > b THEN a ELSE b

QLen(b, i) == b.cu[i + 1] - b.cu[i]
RealRows(b) == b.cu[b.n]
Rows(b) == RealRows(b) + b.pad

\* What the callers pass: sequences in row order, max_seqlen_q an upper bound,
\* query heads per KV head dividing BLOCK_M, and the qualified geometry's 16.
IsCall(b) ==
  /\ b.n \in Nat \ {0}
  /\ b.cu \in [0 .. b.n -> Nat] /\ b.cu[0] = 0
  /\ \A i, j \in 0 .. b.n : i <= j => b.cu[i] <= b.cu[j]
  /\ b.k \in [0 .. b.n - 1 -> Nat]
  /\ b.pad \in Nat /\ b.window \in Nat
  /\ b.maxq \in Nat /\ \A i \in 0 .. b.n - 1 : QLen(b, i) <= b.maxq
  /\ b.qpk \in 1 .. RowsM /\ RowsM % b.qpk = 0
  /\ b.mimo \in BOOLEAN /\ b.buffers \in BOOLEAN
  /\ b.mimo => b.qpk = RowsM

-----------------------------------------------------------------------------
(* Host side: the launches of one call.                                    *)

BlockM(b) ==
  IF b.mimo /\ b.window = 0 /\ b.maxq >= LongPrefill THEN 2 * RowsM ELSE RowsM

BlockQ(b) == BlockM(b) \div b.qpk

\* Fault: drafts split whatever the geometry.
Use3DAnyGeometry(b) ==
  /\ b.buffers
  /\ b.maxq <= Short
  /\ Rows(b) <= Threshold /\ Rows(b) <= Capacity
  /\ b.n <= Threshold

Use3D(b) ==
  /\ b.buffers
  /\ b.maxq <= Short
  /\ Rows(b) <= Threshold /\ Rows(b) <= Capacity
  /\ b.maxq > 1 => b.mimo
  /\ b.n <= Threshold

\* Fault: the mixed path is taken past the buffers' rows.
MixedShortUnbounded(b) ==
  b.maxq > Short /\ b.n > 1 /\ b.buffers /\ b.mimo /\ b.n * Short <= Threshold

MixedShort(b) ==
  /\ b.maxq > Short
  /\ b.n > 1
  /\ b.buffers /\ b.mimo
  /\ b.n * Short <= Threshold /\ b.n * Short <= Capacity

Launch(split, mode, bm, bq) == [split |-> split, mode |-> mode, bm |-> bm, bq |-> bq]

Launches(b) ==
  IF MixedShort(b)
  THEN <<Launch(FALSE, 1, BlockM(b), BlockQ(b)), Launch(TRUE, 2, RowsM, 1)>>
  ELSE <<Launch(Use3D(b), 0, BlockM(b), BlockQ(b))>>

\* The q-blocks of the grid; total_num_q_blocks uses the call's own BLOCK_Q.
Blocks(b, l) ==
  0 .. (IF l.mode = 2 THEN b.n * Short ELSE Rows(b) \div BlockQ(b) + b.n) - 1

SegmentsOf(l) == IF l.split THEN 0 .. Segs - 1 ELSE {0}
Tile(l) == IF l.split THEN SplitTile ELSE PlainTile

-----------------------------------------------------------------------------
(* Device side, which rows: find_seq_idx and resolve_seq_and_query_len.     *)

\* The last sequence whose first q-block (row, when bq = 0) is at most x.
FirstBlock(b, bq, i) == IF bq = 0 THEN b.cu[i] ELSE b.cu[i] \div bq + i

FindSeq(b, bq, x) ==
  CHOOSE i \in 0 .. b.n - 1 :
    /\ FirstBlock(b, bq, i) <= x
    /\ \A j \in i + 1 .. b.n - 1 : FirstBlock(b, bq, j) > x

BlockSeq(b, l, g) == IF l.mode = 2 THEN g \div Short ELSE FindSeq(b, l.bq, g)

BlockLocal(b, l, g) ==
  IF l.mode = 2 THEN g % Short ELSE g - FirstBlock(b, l.bq, BlockSeq(b, l, g))

\* Fault: the long-rows launch without its QUERY_MODE guard.
BlockActiveAllRows(b, l, g) ==
  LET q == QLen(b, BlockSeq(b, l, g)) IN
  (l.mode = 2 => q <= Short) /\ BlockLocal(b, l, g) * l.bq < q

\* The early returns before any row is touched.
BlockActive(b, l, g) ==
  LET q == QLen(b, BlockSeq(b, l, g)) IN
  /\ l.mode = 2 => q <= Short
  /\ l.mode = 1 => q > Short
  /\ BlockLocal(b, l, g) * l.bq < q

\* Positions in the sequence that block g answers for (query_mask_0).
BlockPositions(b, l, g) ==
  LET first == BlockLocal(b, l, g) * l.bq IN
  first .. Lesser(first + (l.bm - 1) \div b.qpk, QLen(b, BlockSeq(b, l, g)) - 1)

-----------------------------------------------------------------------------
(* Device side, which keys.                                                *)

TilesPerSegment(len) == CeilDiv(len, Segs * SplitTile)

\* Fault: every row partitioned by the whole sequence.
PartitionLenFull(b, l, i, p) == b.k[i]

\* The length a 3D program partitions: a row's own prefix when BLOCK_Q is 1.
PartitionLen(b, l, i, p) ==
  IF l.bq = 1 THEN b.k[i] - QLen(b, i) + p + 1 ELSE b.k[i]

SegmentRuns(seg, len) == seg * TilesPerSegment(len) * SplitTile < len

\* compute_tile_loop_bounds: the tiles [lo, hi) one program walks.
Context(b, i) == b.k[i] - QLen(b, i)

PrefixLen(b, l, i, local) ==
  Lesser(Context(b, i) + local * l.bq + (l.bm - 1) \div b.qpk + 1, b.k[i])

FirstTile(b, l, i, local) ==
  IF b.window = 0 THEN 0
  ELSE Greater(0, (Context(b, i) + local * l.bq - b.window + 1) \div Tile(l))

EndTile(b, l, i, local) ==
  LET all  == CeilDiv(PrefixLen(b, l, i, local), Tile(l))
      last == Context(b, i)
                + Lesser(local * l.bq + (l.bm - 1) \div b.qpk, QLen(b, i) - 1)
  IN  IF b.window = 0 THEN all ELSE Lesser(last \div Tile(l) + 1, all)

\* Fault: a segment one tile too long.
TileRangeOneMore(b, l, i, local, seg) ==
  LET tps == TilesPerSegment(PartitionLen(b, l, i, local)) IN
  <<Greater(seg * tps, FirstTile(b, l, i, local)),
    Lesser((seg + 1) * tps + 1, EndTile(b, l, i, local))>>

TileRange(b, l, i, local, seg) ==
  LET tps == TilesPerSegment(PartitionLen(b, l, i, local))
      lo  == FirstTile(b, l, i, local)
      hi  == EndTile(b, l, i, local)
  IN  IF l.split THEN <<Greater(seg * tps, lo), Lesser((seg + 1) * tps, hi)>>
      ELSE <<lo, hi>>

\* The keys the masks leave to position p of sequence i among those tiles.
VisibleKeys(b, i, p) ==
  LET last == Context(b, i) + p IN
  {key \in 0 .. b.k[i] - 1 : key <= last /\ (b.window > 0 => last - key < b.window)}

KeysIn(b, i, p, tile, range) ==
  {key \in VisibleKeys(b, i, p) : range[1] <= key \div tile /\ key \div tile < range[2]}

-----------------------------------------------------------------------------
(* Device side, the reducer.                                               *)

\* Fault: compact rows packed without the stride of Short per sequence.
ScratchRowPacked(b, l, i, p) == IF l.mode = 2 THEN i + p ELSE b.cu[i] + p

\* The scratch row of position p of sequence i.
ScratchRow(b, l, i, p) == IF l.mode = 2 THEN i * Short + p ELSE b.cu[i] + p

ReducerRows(b, l) == 0 .. (IF l.mode = 2 THEN b.n * Short ELSE Rows(b)) - 1

\* Sequence and query row a reducer program answers for.
ReducerSeq(b, l, x) == IF l.mode = 2 THEN x \div Short ELSE FindSeq(b, 0, x)
ReducerRow(b, l, x) ==
  IF l.mode = 2 THEN b.cu[x \div Short] + (x % Short) ELSE x

\* COMPACT_SHORT's early return.
ReducerActive(b, l, x) ==
  l.mode = 2 =>
    LET q == QLen(b, x \div Short) IN q <= Short /\ x % Short < q

\* Fault: the reducer partitions by the whole sequence.
ReducedLenFull(b, l, x) == b.k[ReducerSeq(b, l, x)]

ReducedLen(b, l, x) ==
  LET i == ReducerSeq(b, l, x) IN
  IF l.bq = 1
  THEN b.k[i] - QLen(b, i) + (ReducerRow(b, l, x) - b.cu[i]) + 1
  ELSE b.k[i]

\* act_num_segments: the segments the reducer reads.
SegmentsRead(len) ==
  0 .. Lesser(CeilDiv(len, TilesPerSegment(len) * SplitTile), Segs) - 1
=============================================================================
