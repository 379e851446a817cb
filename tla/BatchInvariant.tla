---------------------------- MODULE BatchInvariant ----------------------------
(***************************************************************************)
(* The batch-invariant operations of the pinned layer (batch_invariant.py)  *)
(* around the persistent product: turning the mode on, which replaces       *)
(* operations of torch for the whole process, and the operations it         *)
(* installs: bmm, matmul's dispatch by shape, log_softmax, mean, RMS norm.  *)
(* The recipe keeps the mode off and borrows one kernel: the witness        *)
(* refuses to be built where the mode is on.                               *)
(*                                                                         *)
(* Tensors are flat and contiguous, an element is its index.  An operation  *)
(* stores, by output element, what every program stored there: which inputs *)
(* it combined, block by block.                                            *)
(***************************************************************************)
EXTENDS StableDense, TLC

CONSTANTS
    Platforms,    \* "sm80", "cuda" (later ones) and "xpu"
    Flags,        \* VLLM_BATCH_INVARIANT: a subset of BOOLEAN
    Operations,   \* the calls of the operations below
    RBlock,       \* BLOCK_SIZE of the row-wise kernels
    MaxInits      \* bound: calls of init_batch_invariance and of enable

VARIABLES
    platform,
    flag,       \* VLLM_BATCH_INVARIANT
    mode,       \* _batch_invariant_MODE
    impls,      \* by aten operation: how often the library has an override of it
    cublas,     \* CUBLAS_WORKSPACE_CONFIG
    inits,      \* calls of init_batch_invariance so far, and of enable
    witness,    \* "none", "built" or "refused"
    result      \* the last operation, and what it stored

modeVars == <<platform, flag, mode, impls, cublas, inits, witness>>
opsVars == <<denseVars, modeVars, result>>

-----------------------------------------------------------------------------
(* The mode *)

MatmulOps == {"mm", "addmm", "matmul", "linear"}
RowOps    == {"_log_softmax", "softmax", "_softmax", "mean.dim", "bmm"}

\* The overrides a platform needs: later GPUs rely on cuBLAS without split-K, and on
\* XPU the row-wise operations are invariant as they are.
Overrides ==
    CASE platform = "sm80" -> MatmulOps \cup RowOps
      [] platform = "cuda" -> RowOps
      [] platform = "xpu"  -> MatmulOps

\* Fault: the mode can be entered twice.
EnterAgain == TRUE

\* enable_batch_invariant_mode returns at once when the mode is on.
Enters == ~mode

\* Fault: the override of the environment written after the mode's own setting.
EnvLast(env) == env

\* CUBLAS_WORKSPACE_CONFIG once the mode is entered from `env'.
WorkspaceConfig(env) == IF platform = "cuda" THEN ":16:8" ELSE env

\* mode, impls and cublas after enable_batch_invariant_mode, from the setting `env'.
\* The host turns the mode on between calls.
Enabled(env) ==
    IF Enters
      THEN /\ mode' = TRUE
           /\ impls' = [o \in DOMAIN impls |->
                          IF o \in Overrides THEN impls[o] + 1 ELSE impls[o]]
           /\ cublas' = WorkspaceConfig(env)
      ELSE UNCHANGED <<mode, impls>> /\ cublas' = env

EnableBatchInvariantMode ==
    /\ rows = 0 /\ inits[2] < MaxInits
    /\ Enabled(cublas)
    /\ inits' = [inits EXCEPT ![2] = @ + 1]
    /\ UNCHANGED <<denseVars, platform, flag, witness, result>>

\* override_envs_for_invariance writes its own workspace setting first.
InitBatchInvariance ==
    /\ rows = 0 /\ inits[1] < MaxInits
    /\ IF flag THEN Enabled(":4096:8") ELSE UNCHANGED <<mode, impls, cublas>>
    /\ inits' = [inits EXCEPT ![1] = @ + 1]
    /\ UNCHANGED <<denseVars, platform, flag, witness, result>>

\* StableDenseWitness.__init__; the hash of the kernel's source and the device are
\* those it was qualified on.
BuildWitness ==
    /\ rows = 0 /\ witness = "none"
    /\ witness' = IF flag \/ mode THEN "refused" ELSE "built"
    /\ UNCHANGED <<denseVars, platform, flag, mode, impls, cublas, inits, result>>

-----------------------------------------------------------------------------
(* Row-wise kernels: one program per row or per output element. *)

\* The blocks of a loop over n columns, the last one masked.
ColBlocks(n) == [i \in 1 .. CDiv(n, RBlock) |->
                   {c \in (i - 1) * RBlock .. i * RBlock - 1 : c < n}]

\* A sum or maximum over the columns of a row: the blocks in order.
OverRow(row, n) == [i \in DOMAIN ColBlocks(n) |-> {row * n + c : c \in ColBlocks(n)[i]}]

Elem(e, v) == [elem |-> e, value |-> v]

\* _log_softmax_kernel: the maximum, the sum of exponentials, then each element.
LogSoftmax(nRows, n) ==
    {Elem(r * n + c, [x |-> r * n + c, max |-> OverRow(r, n), sum |-> OverRow(r, n)]) :
       r \in 0 .. nRows - 1, c \in 0 .. n - 1}

\* The weight of column c, if there is one.
WeightAt(c, weighted) == IF weighted THEN {c} ELSE {}

\* _rms_norm_kernel: the sum of squares, then each element times its weight.
RmsNormKernel(nRows, n, weighted) ==
    {Elem(r * n + c, [x |-> r * n + c, of |-> {"input"}, weight |-> WeightAt(c, weighted),
                      squares |-> OverRow(r, n)]) :
       r \in 0 .. nRows - 1, c \in 0 .. n - 1}

\* vLLM's fused_add_rms_norm: the norm of the sum of input and residual.  It writes the
\* norm over the input and the sum over the residual, and says nothing of its order.
FusedAddRmsNorm(nRows, n, weighted) ==
    {Elem(r * n + c, [x |-> r * n + c, of |-> {"input", "residual"},
                      weight |-> WeightAt(c, weighted),
                      squares |-> <<{r * n + k : k \in 0 .. n - 1}>>]) :
       r \in 0 .. nRows - 1, c \in 0 .. n - 1}

\* rms_norm_batch_invariant
RmsNorm(nRows, n, weighted, residual) ==
    IF residual THEN FusedAddRmsNorm(nRows, n, weighted)
    ELSE RmsNormKernel(nRows, n, weighted)

Prod(shape) == FoldSeq(LAMBDA a, b : a * b, 1, shape)

\* A value of a repeated mean: the elements of the original tensor it contains, and
\* how many additions of one it took.
Leaf(e) == [leaves |-> {e}, n |-> 1]
Combine(vs) ==
    [leaves |-> UNION {vs[i].leaves : i \in DOMAIN vs},
     n |-> FoldFunction(LAMBDA v, n : v.n + n, 0, vs)]

\* mean_kernel on tensor t seen as (m, n, k): program pid computes element
\* (pid div k, pid mod k).
MeanDim(t, shape, dim) ==
    LET n == shape[dim + 1]
        k == Prod(SubSeq(shape, dim + 2, Len(shape)))
        m == Prod(SubSeq(shape, 1, dim))
    IN  [pid \in 0 .. m * k - 1 |->
           Combine([j \in 1 .. n |->
                      t[(pid \div k) * n * k + (j - 1) * k + (pid % k)]])]

\* sorted(dims, reverse=True)
DescendingDims(dims) == SortSeq(SetToSeq(dims), LAMBDA a, b : a > b)

\* Fault: the dimensions squeezed from the smallest.
AscendingDims(dims) == SortSeq(SetToSeq(dims), LAMBDA a, b : a < b)

\* The order in which the reduced dimensions are squeezed.
SqueezeOrder(dims) == DescendingDims(dims)

\* torch's squeeze(d) leaves a dimension of more than one element alone.
Squeeze(shape, dim) ==
    IF dim < Len(shape) /\ shape[dim + 1] = 1 THEN RemoveAt(shape, dim + 1) ELSE shape

\* mean_batch_invariant: one mean after the other, with the dimension kept as 1, then
\* the dimensions are squeezed.
MeanBatchInvariant(shape, given, keepdim) ==
    LET dims == IF given = {} THEN 0 .. Len(shape) - 1 ELSE given
        Step(so, dim) == [t |-> MeanDim(so.t, so.shape, dim),
                          shape |-> [so.shape EXCEPT ![dim + 1] = 1]]
        start == [t |-> [e \in 0 .. Prod(shape) - 1 |-> Leaf(e)], shape |-> shape]
        mean  == FoldLeft(Step, start, DescendingDims(dims))
    IN  IF keepdim THEN mean
        ELSE [mean EXCEPT !.shape = FoldLeft(Squeeze, mean.shape, SqueezeOrder(dims))]

-----------------------------------------------------------------------------
(* bmm and matmul *)

\* bmm_kernel: programs (pidB, pid) over B matrices and the tiles of one; a tile past
\* the end returns.  Element (b, i, j) of the result, flat.
BmmTiles(M, N2, bm, bn) == 0 .. CDiv(M, bm) * CDiv(N2, bn) - 1

\* Fault: a tile's column taken from the number of row tiles.
PidColumnByRows(pid, numM, numN) == <<pid \div numN, pid % numM>>

\* pid_m, pid_n
PidOf(pid, numM, numN) == <<pid \div numN, pid % numN>>

BmmTileElems(pid, M, N2, bm, bn) ==
    LET at == PidOf(pid, CDiv(M, bm), CDiv(N2, bn))
    IN  {x \in (at[1] * bm .. at[1] * bm + bm - 1)
               \X (at[2] * bn .. at[2] * bn + bn - 1) : x[1] < M /\ x[2] < N2}

\* What the programs store, with how many stored the element: row a times column b,
\* the loop over K in blocks.
Bmm(B, M, N2, terms, bm, bn) ==
    {[elem |-> (b * M + x[1]) * N2 + x[2],
      value |-> [a |-> b * M + x[1], b |-> b * N2 + x[2], terms |-> terms],
      stores |-> Cardinality({pid \in BmmTiles(M, N2, bm, bn) :
                                x \in BmmTileElems(pid, M, N2, bm, bn)})] :
       b \in 0 .. B - 1,
       x \in UNION {BmmTileElems(pid, M, N2, bm, bn) : pid \in BmmTiles(M, N2, bm, bn)}}

\* torch.broadcast_shapes and expand, on the dimensions before the matrix: flat index
\* i of the broadcast shape is this matrix of a tensor of shape s.
BatchDims(s) == SubSeq(s, 1, Len(s) - 2)
LeftPad(s, n) == [i \in 1 .. n - Len(s) |-> 1] \o s
Broadcast(s, t) ==
    LET n == IF Len(s) > Len(t) THEN Len(s) ELSE Len(t)
    IN  [i \in 1 .. n |-> IF LeftPad(s, n)[i] = 1 THEN LeftPad(t, n)[i] ELSE LeftPad(s, n)[i]]
Coord(i, shape) ==
    [j \in DOMAIN shape |-> (i \div Prod(SubSeq(shape, j + 1, Len(shape)))) % shape[j]]
FlatIndex(c, shape) ==
    FoldFunctionOnSet(+, 0, [j \in DOMAIN shape |->
        c[j] * Prod(SubSeq(shape, j + 1, Len(shape)))], DOMAIN shape)
Expanded(i, shape, s) ==
    LET c == Coord(i, shape)
        padded == LeftPad(s, Len(shape))
    IN  FlatIndex([j \in DOMAIN shape |-> IF padded[j] = 1 THEN 0 ELSE c[j]], padded)

\* Which product a call of matmul becomes: rows of a 2-D product, a batch, or none.
MatmulPath(a, b) ==
    IF Len(b) = 2 THEN "mm"
    ELSE IF Len(a) >= 2 /\ Len(b) >= 3 THEN "bmm"
    ELSE "raises"

\* matmul_batch_invariant: by element of the result, the row of a and the column of b.
\* A row is its place in a flattened to two dimensions; a column is <<matrix, column>>.
Matmul(a, b) ==
    LET batch == Broadcast(BatchDims(a), BatchDims(b))
        rowsA == a[Len(a) - 1]
        cols  == b[Len(b)]
    IN  IF MatmulPath(a, b) = "mm"
          THEN [shape |-> SubSeq(a, 1, Len(a) - 1) \o <<cols>>,
                elems |-> [e \in 0 .. Prod(SubSeq(a, 1, Len(a) - 1)) * cols - 1 |->
                             [row |-> e \div cols, col |-> <<0, e % cols>>]]]
          ELSE [shape |-> batch \o <<rowsA, cols>>,
                elems |-> [e \in 0 .. Prod(batch) * rowsA * cols - 1 |->
                             LET i == e \div (rowsA * cols)
                             IN  [row |-> Expanded(i, batch, BatchDims(a)) * rowsA
                                            + ((e \div cols) % rowsA),
                                  col |-> <<Expanded(i, batch, BatchDims(b)), e % cols>>]]]

-----------------------------------------------------------------------------
NoResult == [op |-> "none"]

\* The aten operation a call goes through; the layers call RMS norm themselves.
AtenOf == [log_softmax |-> "_log_softmax", mean |-> "mean.dim", bmm |-> "bmm",
           matmul |-> "matmul"]
Reaches(o) == IF o.op = "rms_norm" THEN flag ELSE impls[AtenOf[o.op]] > 0

\* One call of an operation outside the persistent product.
Operate(o) ==
    /\ rows = 0 /\ result = NoResult /\ Reaches(o)
    /\ result' =
         [op |-> o,
          raised |-> o.op = "matmul" /\ MatmulPath(o.a, o.b) = "raises",
          out |-> CASE o.op = "log_softmax" -> LogSoftmax(o.rows, o.cols)
                    [] o.op = "rms_norm" -> RmsNorm(o.rows, o.cols, o.weighted, o.residual)
                    [] o.op = "mean" -> MeanBatchInvariant(o.shape, o.dims, o.keep)
                    [] o.op = "bmm" -> Bmm(o.b, o.m, o.n, ColBlocks(o.k), o.bm, o.bn)
                    [] o.op = "matmul" /\ MatmulPath(o.a, o.b) # "raises" ->
                         Matmul(o.a, o.b)
                    [] OTHER -> {}]
    /\ UNCHANGED <<denseVars, modeVars>>

Forget == result # NoResult /\ result' = NoResult /\ UNCHANGED <<denseVars, modeVars>>

\* mm_batch_invariant, also behind addmm, and behind matmul and linear without bias.
MmBatchInvariant(m, blocks, bias) ==
    /\ impls["mm"] > 0 /\ result = NoResult
    /\ IF platform = "xpu" THEN MatmulDescriptor(m, blocks, bias)
       ELSE MatmulPersistent(m, blocks, bias)
    /\ UNCHANGED <<modeVars, result>>

CallWitness(m) ==
    /\ witness = "built" /\ result = NoResult
    /\ Witness(m)
    /\ UNCHANGED <<modeVars, result>>

OpsInit ==
    /\ DenseInit
    /\ platform \in Platforms /\ flag \in Flags
    /\ mode = FALSE /\ impls = [o \in MatmulOps \cup RowOps |-> 0]
    /\ cublas = "" /\ inits = <<0, 0>>
    /\ witness = "none" /\ result = NoResult

OpsNext ==
    \/ EnableBatchInvariantMode \/ InitBatchInvariance \/ BuildWitness
    \/ \E m \in 0 .. MaxRows : CallWitness(m)
    \/ \E m \in 1 .. MaxRows, blocks \in Configs, bias \in BOOLEAN :
         MmBatchInvariant(m, blocks, bias)
    \/ DenseStep /\ UNCHANGED <<modeVars, result>>
    \/ \E o \in Operations : Operate(o)
    \/ Forget

OpsSpec == OpsInit /\ [][OpsNext]_opsVars

-----------------------------------------------------------------------------
(* Properties *)

\* Once the mode is on, however often it was asked for and by which entry, each
\* operation the platform needs has one override and the others have none; before
\* that nothing of torch is replaced.  Where split-K is turned off through cuBLAS's
\* workspace, the one call of init_batch_invariance leaves that setting in force, not
\* the one it writes before.  (A call that finds the mode on returns early and leaves
\* its own setting.)
OverridesOnce ==
    /\ \A o \in DOMAIN impls : impls[o] = IF mode /\ o \in Overrides THEN 1 ELSE 0
    /\ mode /\ platform = "cuda" /\ inits = <<1, 0>> => cublas = ":16:8"

\* The blocks cover set s, each element once and in rising order.
Whole(blocks, s) ==
    /\ UNION Range(blocks) = s
    /\ \A a, b \in DOMAIN blocks : a < b => \A x \in blocks[a], y \in blocks[b] : x < y

OneOf(stored, n) ==
    /\ {x.elem : x \in stored} = 0 .. n - 1 /\ Cardinality(stored) = n

RowOf(e, n) == {(e \div n) * n + c : c \in 0 .. n - 1}

\* The elements of a tensor that a mean over dims puts in element e of the result.
Averaged(e, shape, dims) ==
    LET kept == [j \in DOMAIN shape |-> IF j - 1 \in dims THEN 1 ELSE shape[j]]
    IN  {x \in 0 .. Prod(shape) - 1 :
           \A j \in DOMAIN shape :
             j - 1 \in dims \/ Coord(x, shape)[j] = Coord(e, kept)[j]}

MeanShape(shape, dims, keep) ==
    LET left == SelectSeq([j \in DOMAIN shape |-> j], LAMBDA j : j - 1 \notin dims)
    IN  IF keep THEN [j \in DOMAIN shape |-> IF j - 1 \in dims THEN 1 ELSE shape[j]]
        ELSE [j \in DOMAIN left |-> shape[left[j]]]

\* Element c of a tensor of shape s under torch's broadcasting: dimensions are
\* matched from the last one, and one of size 1 repeats.
Matched(c, s) ==
    [j \in DOMAIN s |-> IF s[j] = 1 THEN 0 ELSE c[Len(c) - Len(s) + j]]

\* Each override computes what the operation of torch it replaces computes: every
\* element once, from exactly its own inputs and in an order that does not depend on
\* the other rows.  A mean over several dimensions averages the elements of its own
\* slice and has the shape torch gives it; a product of tensors of any rank pairs the
\* row and the column broadcasting asks for.
OpsOwnElements ==
    result # NoResult /\ ~result.raised =>
      LET o == result.op
          res == result.out
      IN  CASE o.op = "log_softmax" ->
                 /\ OneOf(res, o.rows * o.cols)
                 /\ \A x \in res :
                      /\ x.value.x = x.elem
                      /\ Whole(x.value.max, RowOf(x.elem, o.cols))
                      /\ Whole(x.value.sum, RowOf(x.elem, o.cols))
            [] o.op = "rms_norm" ->
                 /\ OneOf(res, o.rows * o.cols)
                 /\ \A x \in res :
                      /\ x.value.x = x.elem
                      /\ x.value.of = {"input"} \cup (IF o.residual THEN {"residual"} ELSE {})
                      /\ x.value.weight = IF o.weighted THEN {x.elem % o.cols} ELSE {}
                      /\ Whole(x.value.squares, RowOf(x.elem, o.cols))
            [] o.op = "mean" ->
                 LET dims == IF o.dims = {} THEN 0 .. Len(o.shape) - 1 ELSE o.dims
                 IN  /\ res.shape = MeanShape(o.shape, dims, o.keep)
                     /\ Cardinality(DOMAIN res.t) = Prod(res.shape)
                     /\ \A e \in DOMAIN res.t :
                          /\ res.t[e].leaves = Averaged(e, o.shape, dims)
                          /\ res.t[e].n = Cardinality(res.t[e].leaves)
            [] o.op = "bmm" ->
                 /\ OneOf(res, o.b * o.m * o.n)
                 /\ \A x \in res :
                      /\ x.stores = 1
                      /\ x.value.a = x.elem \div o.n
                      /\ Whole(x.value.terms, 0 .. o.k - 1)
                      /\ x.value.b = (x.elem \div (o.m * o.n)) * o.n + (x.elem % o.n)
            [] o.op = "matmul" ->
                 \A e \in DOMAIN res.elems :
                   LET c == Coord(e, res.shape)
                       front == SubSeq(c, 1, Len(c) - 2)
                       at == IF Len(c) > 1 THEN c[Len(c) - 1] ELSE 0
                       rowsA == IF Len(o.a) > 1 THEN o.a[Len(o.a) - 1] ELSE 1
                       matrix(s) == FlatIndex(Matched(front, BatchDims(s)), BatchDims(s))
                   IN  /\ res.elems[e].col = <<matrix(o.b), c[Len(c)]>>
                       /\ res.elems[e].row = matrix(o.a) * rowsA + at
=============================================================================
