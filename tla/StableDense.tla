---------------------------- MODULE StableDense ----------------------------
(***************************************************************************)
(* The persistent dense product (matmul_kernel_persistent and its           *)
(* descriptor twin, batch_invariant.py) and the callers that choose its     *)
(* blocks and its grid: StableDenseWitness (_mimo_stable_dense.py) for the  *)
(* router and attention's output projection, and mm_batch_invariant.  Each  *)
(* program walks the tiles of the output from its own id in steps of        *)
(* NUM_SMS, in groups of rows, and keeps two counters of its place: tile_id *)
(* for what it loads and tile_id_c for where it stores.                     *)
(***************************************************************************)
EXTENDS Integers, FiniteSets, Sequences, SequencesExt

CONSTANTS
    NumSMs,
    N, K,                                \* weight.shape
    BlockM, LargeBlockM, Threshold,      \* the witness's block_m, and from how many rows
    BlockN, BlockK, GroupSizeM,
    Configs,                             \* matmul_persistent's blocks: records [m, n, k]
    MaxRows,                             \* bound: rows of a call
    MaxCalls                             \* bound: calls in a run

ASSUME DenseAssumption ==
    /\ {NumSMs, N, K, BlockM, LargeBlockM, BlockN, BlockK, GroupSizeM} \subseteq Nat \ {0}
    /\ Configs \subseteq [m : Nat \ {0}, n : Nat \ {0}, k : Nat \ {0}]
    /\ MaxRows \in Nat

VARIABLES
    rows,       \* rows of the call under way, 0 when there is none
    launch,     \* its kernel, blocks and bias
    tileId,     \* by program: tile_id, and ...
    tileIdC,    \* ... tile_id_c
    acc,        \* by program: the products in its accumulator, << >> when stored
    out,        \* by element of the output: what was stored, in order
    calls       \* calls made

denseVars == <<rows, launch, tileId, tileIdC, acc, out, calls>>

CDiv(a, b) == (a + b - 1) \div b
AtMost(a, b) == IF a < b THEN a ELSE b

\* StableDenseWitness: the block of rows grows with the batch.
WitnessBlockM(m) == IF m >= Threshold THEN LargeBlockM ELSE BlockM

NumPidM == CDiv(rows, launch.m)
NumPidN == CDiv(N, launch.n)
NumTiles == NumPidM * NumPidN

\* The grid of a launch l on m rows.
GridOf(m, l) == AtMost(NumSMs, CDiv(m, l.m) * CDiv(N, l.n))
Programs == 0 .. NumSMs - 1

\* Fault: a short group counted as a full one.
ComputePidFullGroups(t) ==
    LET inGroup == GroupSizeM * NumPidN
        first   == (t \div inGroup) * GroupSizeM
        size    == AtMost(NumPidM - first, GroupSizeM)
    IN  <<first + (t % size), (t % inGroup) \div GroupSizeM>>

-----------------------------------------------------------------------------
(* The kernel *)

\* _compute_pid: the rows and the columns of a tile.  The last group may have
\* fewer blocks of rows.
ComputePid(t) ==
    LET inGroup == GroupSizeM * NumPidN
        first   == (t \div inGroup) * GroupSizeM
        size    == AtMost(NumPidM - first, GroupSizeM)
    IN  <<first + (t % size), (t % inGroup) \div size>>

\* Rows past the end are read as row 0, by descriptor as zeros, and are not stored.
Zeros == -1
PastEnd == IF launch.kernel = "descriptor" THEN Zeros ELSE 0
RowRead(pidM, i) ==
    LET r == pidM * launch.m + i IN IF r < rows THEN r ELSE PastEnd
ColRead(pidN, j) ==
    LET c == pidN * launch.n + j IN IF c < N THEN c ELSE PastEnd

\* The K loop: the terms of each step, in the order they are added.
Terms == [ki \in 1 .. CDiv(K, launch.k) |->
             {k \in (ki - 1) * launch.k .. ki * launch.k - 1 : k < K}]

Products(t) ==
    LET pid == ComputePid(t)
    IN  [x \in (0 .. launch.m - 1) \X (0 .. launch.n - 1) |->
            [row |-> RowRead(pid[1], x[1]), col |-> ColRead(pid[2], x[2]), terms |-> Terms]]

StartTileC(p) == p - NumSMs

-----------------------------------------------------------------------------
Elements(m) == (0 .. m - 1) \X (0 .. N - 1)

NoLaunch == [kernel |-> "none", m |-> 1, n |-> 1, k |-> 1, bias |-> FALSE]

DenseInit ==
    /\ rows = 0 /\ launch = NoLaunch
    /\ tileId = [p \in Programs |-> 0] /\ tileIdC = [p \in Programs |-> 0]
    /\ acc = [p \in Programs |-> << >>]
    /\ out = << >>
    /\ calls = 0

Running(p) == rows > 0 /\ p < GridOf(rows, launch)
Finished == \A p \in Programs : Running(p) => tileId[p] >= NumTiles /\ acc[p] = << >>

\* A launch on m rows with a fresh output.
Launch(m, l) ==
    /\ rows = 0 /\ calls < MaxCalls
    /\ rows' = m /\ launch' = l /\ calls' = calls + 1
    /\ tileId' = [p \in Programs |-> p]
    /\ tileIdC' = [p \in Programs |-> StartTileC(p)]
    /\ out' = [e \in Elements(m) |-> << >>]
    /\ UNCHANGED acc

\* StableDenseWitness.__call__.  An empty batch raises before anything is launched.
Witness(m) ==
    /\ m >= 1
    /\ Launch(m, [kernel |-> "pointer", m |-> WitnessBlockM(m), n |-> BlockN,
                  k |-> BlockK, bias |-> FALSE])

\* matmul_persistent: the blocks come from a tuned table, or else from the type.
MatmulPersistent(m, blocks, bias) ==
    Launch(m, [kernel |-> "pointer", m |-> blocks.m, n |-> blocks.n, k |-> blocks.k,
               bias |-> bias])

\* matmul_descriptor_persistent, on XPU.
MatmulDescriptor(m, blocks, bias) ==
    Launch(m, [kernel |-> "descriptor", m |-> blocks.m, n |-> blocks.n, k |-> blocks.k,
               bias |-> bias])

\* One tile of the loop: the loads and the sum over K ...
Accumulate(p) ==
    /\ Running(p) /\ acc[p] = << >> /\ tileId[p] < NumTiles
    /\ acc' = [acc EXCEPT ![p] = Products(tileId[p])]
    /\ tileIdC' = [tileIdC EXCEPT ![p] = @ + NumSMs]
    /\ UNCHANGED <<rows, launch, tileId, out, calls>>

\* ... and the store, at the place tile_id_c names.
Store(p) ==
    /\ Running(p) /\ acc[p] # << >>
    /\ LET pid == ComputePid(tileIdC[p])
           i(e) == e[1] - pid[1] * launch.m
           j(e) == e[2] - pid[2] * launch.n
           bias(e) == IF launch.bias THEN e[2] ELSE Zeros
       IN  out' = [e \in DOMAIN out |->
                     IF i(e) \in 0 .. launch.m - 1 /\ j(e) \in 0 .. launch.n - 1
                     THEN Append(out[e], [product |-> acc[p][<<i(e), j(e)>>], bias |-> bias(e)])
                     ELSE out[e]]
    /\ acc' = [acc EXCEPT ![p] = << >>]
    /\ tileId' = [tileId EXCEPT ![p] = @ + NumSMs]
    /\ UNCHANGED <<rows, launch, tileIdC, calls>>

\* The stream reaches the end of the kernel.
Done ==
    /\ rows > 0 /\ Finished
    /\ rows' = 0 /\ launch' = NoLaunch /\ out' = << >>
    /\ UNCHANGED <<tileId, tileIdC, acc, calls>>

DenseStep == Done \/ \E p \in Programs : Accumulate(p) \/ Store(p)

-----------------------------------------------------------------------------
(* Properties *)

\* Every k once, in rising order.
WholeK(terms) ==
    /\ \A k \in 0 .. K - 1 : Cardinality({i \in DOMAIN terms : k \in terms[i]}) = 1
    /\ \A a, b \in DOMAIN terms : a < b => \A x \in terms[a], y \in terms[b] : x < y
    /\ UNION Range(terms) \subseteq 0 .. K - 1

\* When the kernel ends every element holds the product of its own row and its own
\* column over the whole of K in rising order, with its own column's bias, so it is
\* what the row would get in a batch of its own; on the way nothing else is ever
\* stored, and nothing twice: the tiles of a short last group overlap no other.
OwnProducts ==
    \A e \in DOMAIN out :
      /\ Len(out[e]) <= 1
      /\ out[e] # << >> =>
           /\ out[e][1].product.row = e[1] /\ out[e][1].product.col = e[2]
           /\ WholeK(out[e][1].product.terms)
           /\ out[e][1].bias = IF launch.bias THEN e[2] ELSE Zeros
      /\ Finished => out[e] # << >>
=============================================================================
