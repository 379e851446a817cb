------------------------------ MODULE QkvShards ------------------------------
(***************************************************************************)
(* _shard_fp8_qkv_proj (mimo_v2.py): which rows of the fused fp8 QKV weight, *)
(* and which rows of its block scales, one tensor-parallel rank takes.      *)
(* The checkpoint holds ckpt chunks [Q_c | K_c | V_c], the rank wants       *)
(* [Q | K | V] of its own heads.                                            *)
(*                                                                         *)
(* A geometry g is one attention layer on tp ranks: heads, kv (heads), hd   *)
(* and vd (rows per head), ckpt (chunks), block (rows per scale row), rows  *)
(* and srows (the shapes of the two tensors) and chunked: whether the       *)
(* checkpoint's scales begin anew in every chunk.                           *)
(***************************************************************************)
EXTENDS Integers

CeilDivide(a, b) == (a + b - 1) \div b

QHeadsPerRank(g) == g.heads \div g.tp
\* MiMoV2Attention: num_kv_heads of a rank.
KvHeadsPerRank(g) == IF g.kv >= g.tp THEN g.kv \div g.tp ELSE 1

QSize(g) == QHeadsPerRank(g) * g.hd
KSize(g) == KvHeadsPerRank(g) * g.hd
VSize(g) == KvHeadsPerRank(g) * g.vd
RankRows(g) == QSize(g) + KSize(g) + VSize(g)

-----------------------------------------------------------------------------
(* What the function refuses. *)

RowsPerChunk(g) == g.rows \div g.ckpt
QPerChunk(g) == (g.heads \div g.ckpt) * g.hd
KPerChunk(g) == (g.kv \div g.ckpt) * g.hd
VPerChunk(g) == (g.kv \div g.ckpt) * g.vd

\* The assertions: heads divide over the ranks, kv heads divide or replicate.
RanksDivide(g) ==
    /\ g.heads % g.tp = 0
    /\ IF g.tp <= g.kv THEN g.kv % g.tp = 0 ELSE g.tp % g.kv = 0

ChunksDivide(g) ==
    g.ckpt > 0 /\ g.heads % g.ckpt = 0 /\ g.kv % g.ckpt = 0

RowsMatch(g) == QPerChunk(g) + KPerChunk(g) + VPerChunk(g) = RowsPerChunk(g)

ChunkScaleRows(g) == CeilDivide(RowsPerChunk(g), g.block)
PerChunkScales(g) == g.srows = g.ckpt * ChunkScaleRows(g)
OneGrid(g) == g.srows = CeilDivide(g.rows, g.block)

Accepts(g) ==
    /\ RanksDivide(g) /\ ChunksDivide(g) /\ RowsMatch(g)
    /\ PerChunkScales(g) \/ OneGrid(g)

-----------------------------------------------------------------------------
(* The rank's rows.  Rows, heads and ranks count from 0. *)

FirstQHead(g, rank) == rank * QHeadsPerRank(g)

\* Fault: replicated kv heads dealt out in turn.
FirstKvHeadInTurn(g, rank) ==
    IF g.tp <= g.kv THEN rank * (g.kv \div g.tp) ELSE rank % g.kv

\* The first of the rank's kv heads; ranks that share one lie next to each other.
FirstKvHead(g, rank) ==
    IF g.tp <= g.kv THEN rank * (g.kv \div g.tp)
    ELSE rank \div (g.tp \div g.kv)

QHeadsPerChunk(g)  == g.heads \div g.ckpt
KvHeadsPerChunk(g) == g.kv \div g.ckpt

\* The checkpoint's row x of a head.
QRow(g, head, x) ==
    (head \div QHeadsPerChunk(g)) * RowsPerChunk(g)
      + (head % QHeadsPerChunk(g)) * g.hd + x
KRow(g, head, x) ==
    (head \div KvHeadsPerChunk(g)) * RowsPerChunk(g) + QPerChunk(g)
      + (head % KvHeadsPerChunk(g)) * g.hd + x
VRow(g, head, x) ==
    (head \div KvHeadsPerChunk(g)) * RowsPerChunk(g) + QPerChunk(g) + KPerChunk(g)
      + (head % KvHeadsPerChunk(g)) * g.vd + x

\* index: the checkpoint row behind row i of the gathered [Q | K | V].
RowIndex(g, rank, i) ==
    LET k == i - QSize(g)
        v == k - KSize(g)
    IN  IF i < QSize(g)
          THEN QRow(g, FirstQHead(g, rank) + i \div g.hd, i % g.hd)
        ELSE IF k < KSize(g)
          THEN KRow(g, FirstKvHead(g, rank) + k \div g.hd, k % g.hd)
        ELSE VRow(g, FirstKvHead(g, rank) + v \div g.vd, v % g.vd)

\* Fault: the scales of every checkpoint read as one continuous grid.
ScaleIndexOneGrid(g, row) == row \div g.block

\* scale_index: the row of the scale tensor that belongs to a row of the weight.
ScaleIndex(g, row) ==
    IF PerChunkScales(g)
      THEN (row \div RowsPerChunk(g)) * ChunkScaleRows(g)
             + (row % RowsPerChunk(g)) \div g.block
      ELSE row \div g.block

\* The checkpoint's chunk is what the rank needs: both tensors are cut, and the
\* scales stay what they are.
TakesChunk(g) == g.tp = g.ckpt /\ PerChunkScales(g)

NoScale == -1

\* The weight the rank gets: per row the source row, and the scale row it was
\* dequantised with (NoScale when it was not).
ShardWeight(g, rank) ==
    IF TakesChunk(g)
      THEN [i \in 0 .. RowsPerChunk(g) - 1 |->
              [src |-> rank * RowsPerChunk(g) + i, deq |-> NoScale]]
      ELSE [i \in 0 .. RankRows(g) - 1 |->
              LET src == RowIndex(g, rank, i)
              IN  [src |-> src, deq |-> ScaleIndex(g, src)]]

\* _requantize_fp8: a scale row covers a block of rows, the last one padded with
\* zero rows, which raise no maximum.
RequantizedScales(g) ==
    [b \in 0 .. CeilDivide(RankRows(g), g.block) - 1 |->
       [src |-> NoScale,
        over |-> {i \in b * g.block .. (b + 1) * g.block - 1 : i < RankRows(g)}]]

ShardScales(g, rank) ==
    IF TakesChunk(g)
      THEN [b \in 0 .. ChunkScaleRows(g) - 1 |->
              [src |-> rank * ChunkScaleRows(g) + b, over |-> {}]]
      ELSE RequantizedScales(g)

-----------------------------------------------------------------------------
(* What the checkpoint's rows are, by the layout the docstring states. *)

Row(kind, head, x) == [kind |-> kind, head |-> head, x |-> x]

CkptRow(g, row) ==
    LET chunk == row \div RowsPerChunk(g)
        o     == row % RowsPerChunk(g)
        k     == o - QPerChunk(g)
        v     == k - KPerChunk(g)
    IN  IF o < QPerChunk(g)
          THEN Row("q", chunk * QHeadsPerChunk(g) + o \div g.hd, o % g.hd)
        ELSE IF k < KPerChunk(g)
          THEN Row("k", chunk * KvHeadsPerChunk(g) + k \div g.hd, k % g.hd)
        ELSE Row("v", chunk * KvHeadsPerChunk(g) + v \div g.vd, v % g.vd)

\* The scale row that row's block was quantised with.
CkptScale(g, row) ==
    IF g.chunked
      THEN (row \div RowsPerChunk(g)) * ChunkScaleRows(g)
             + (row % RowsPerChunk(g)) \div g.block
      ELSE row \div g.block
=============================================================================
