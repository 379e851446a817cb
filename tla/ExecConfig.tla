----------------------------- MODULE ExecConfig -----------------------------
(***************************************************************************)
(* marlin_mm (ops.cu): the host side of one whole-K Marlin launch.  It      *)
(* picks a tile configuration and the number of thread blocks per SM from   *)
(* the problem, the device and the registers the compiler gave each kernel, *)
(* checks the result once more and launches sms * blocks_per_sm of them.    *)
(* The barrier of the kernel's stock mode relies on all of them being        *)
(* resident; the whole-K mode never waits for another block.                *)
(***************************************************************************)
EXTENDS Integers, Sequences

CONSTANTS
    Devices,      \* [sms, optin, perSm]: SMs, shared memory per block and per SM
    RegChoices,   \* registers per thread a kernel may compile to
    Gemms,        \* [n, k, topK]: the GEMMs that are called
    Tokens,       \* rows of hidden_states
    RowsPerToken, \* num_experts_per_tok
    NumExperts,
    NumBits, GroupSize, Stages    \* of the weights and the pipeline

\* A device reserves 1 KB of an SM's shared memory for each block on it, and one
\* block may have all the rest, a whole number of units of 128 bytes.  A thread has
\* at most 255 registers.  marlin_mm checks that no dimension is 0.
ASSUME ExecAssumption ==
    /\ Devices \subseteq [sms : Nat \ {0}, optin : Nat, perSm : Nat]
    /\ \A d \in Devices : d.optin % 128 = 0 /\ d.perSm >= d.optin + 1024
    /\ RegChoices \subseteq 1 .. 255
    /\ Gemms \subseteq [n : Nat \ {0}, k : Nat \ {0}, topK : Nat \ {0}]
    /\ Tokens \subseteq Nat \ {0} /\ RowsPerToken \in Nat \ {0} /\ NumExperts \in Nat
    /\ NumBits \in {4, 8} /\ Stages \in Nat /\ GroupSize \in {-1} \cup (Nat \ {0})

VARIABLES
    device,
    regs,       \* regs[cfg]: numRegs of the kernel built for cfg
    last        \* the last call: its problem, and what was launched

execVars == <<device, regs, last>>

DivCeil(a, b) == (a + b - 1) \div b
Least(a, b) == IF a < b THEN a ELSE b
Most(a, b)  == IF a > b THEN a ELSE b

Config(k, n, threads) == [threadK |-> k, threadN |-> n, threads |-> threads]
SmallBatch == <<Config(128, 128, 256), Config(64, 128, 128), Config(128, 64, 128)>>
LargeBatch == <<Config(64, 256, 256), Config(64, 128, 128), Config(128, 64, 128)>>
NoConfig   == Config(-1, -1, -1)
AllConfigs == {SmallBatch[i] : i \in 1 .. 3} \cup {LargeBatch[i] : i \in 1 .. 3}

\* A call: GEMM g on `rows' rows in blocks of bm, with a buffer of `ids' ids.
MBlocks(c) == DivCeil(c.bm, 16)

-----------------------------------------------------------------------------
ScalesCacheSize(cfg) ==
    LET groups == IF GroupSize = -1 THEN 1 ELSE DivCeil(cfg.threadK, GroupSize)
    IN  groups * cfg.threadN * 2 * Stages

\* Bytes of shared memory a thread block needs (16-bit activations, no zero
\* points).
KernelCacheSize(cfg, c) ==
    LET tbM  == MBlocks(c) * 16
        meta == tbM * 16
        a    == Stages * (tbM * cfg.threadK) * 2
        b    == Stages * ((cfg.threadK * cfg.threadN) \div (32 \div NumBits)) * 4
        red  == tbM * (cfg.threadN + 8) * 2
        tmp  == Least(b, red) + cfg.threadN * 2
    IN  Most(Most(b, red), tmp) + a + ScalesCacheSize(cfg) + meta

\* is_valid_config, with min_thread_n = min_thread_k = 64.
IsValid(cfg, c, sharedMem) ==
    /\ cfg # NoConfig
    /\ c.g.k % cfg.threadK = 0 /\ c.g.n % cfg.threadN = 0
    /\ cfg.threadN >= 64 /\ cfg.threadK >= 64
    /\ cfg.threads >= 128
    /\ KernelCacheSize(cfg, c) <= sharedMem

\* kernel_selector.h: the fifteen variants that are built.
Built(cfg, c) ==
    \/ MBlocks(c) = 1 /\ \E i \in 1 .. 3 : cfg = SmallBatch[i]
    \/ MBlocks(c) \in 2 .. 4 /\ \E i \in 1 .. 3 : cfg = LargeBatch[i]

RegBytes(cfg) == regs[cfg] * cfg.threads * 4

\* Faults: blocks counted without the shared memory, and without the registers.
FitsNoShared(cfg, c) == (255 * 1024) \div RegBytes(cfg)
FitsNoRegs(cfg, c) == device.optin \div (KernelCacheSize(cfg, c) + 1536)

\* Thread blocks per SM by registers and by shared memory...
Fits(cfg, c) ==
    Least((255 * 1024) \div RegBytes(cfg),
          device.optin \div (KernelCacheSize(cfg, c) + 1536))
\* ... at least one, and no more than four (two for larger blocks)...
Capped(n, c) == Most(Least(n, IF MBlocks(c) = 1 THEN 4 ELSE 2), 1)
\* ... nor than there are tiles to spread over the SMs.
Spread(cfg, c) == (c.g.n \div cfg.threadN) * c.rows * c.g.topK * 4
AllowCount(cfg, c) ==
    LET n == Capped(Fits(cfg, c), c)
    IN  IF Spread(cfg, c) < device.sms * n
        THEN Most(Spread(cfg, c) \div device.sms, 1)
        ELSE n

Usable(cfg, c) == IsValid(cfg, c, device.optin - 512) /\ Built(cfg, c)

\* determine_exec_config: the usable configuration with the most blocks per SM,
\* the first of them when several have as many.
TableByRows(c) == IF c.rows > 16 THEN LargeBatch ELSE SmallBatch   \* Fault: by the batch
Table(c) == IF MBlocks(c) > 1 THEN LargeBatch ELSE SmallBatch
CountOf(cfg, c) == IF Usable(cfg, c) THEN AllowCount(cfg, c) ELSE 0
DetermineExecConfig(c) ==
    LET count == <<CountOf(Table(c)[1], c), CountOf(Table(c)[2], c),
                   CountOf(Table(c)[3], c)>>
        best == {i \in 1 .. 3 : /\ count[i] > 0
                                /\ \A j \in 1 .. i - 1 : count[i] > count[j]
                                /\ \A j \in i .. 3 : count[i] >= count[j]}
    IN  IF best = {} THEN [cfg |-> NoConfig, perSm |-> 1]
        ELSE LET i == CHOOSE i \in best : TRUE
             IN  [cfg |-> Table(c)[i], perSm |-> count[i]]

\* The shared memory of the launch.
LaunchSharedMem(perSm) ==
    IF perSm > 1 THEN device.optin \div perSm - 1024 ELSE device.optin

\* moe_wna16_marlin_gemm's allocation for the fp32 reduction, in floats.
CTmpSize(c) ==
    Least(c.g.n * c.ids, device.sms * 4 * c.bm * 256) * (IF c.bm = 8 THEN 2 ELSE 1)

\* The device: a warp gets registers in units of 256, so a thread a multiple of
\* eight, and a thread block shared memory in units of 128 bytes.
Allocated(cfg) == 8 * DivCeil(regs[cfg], 8)

\* An SM hosts n blocks of cfg with mem bytes each: 64 K registers, its shared
\* memory, 1 KB of it reserved per block, and 1536 threads.
Hosts(cfg, n, mem) ==
    /\ n * cfg.threads * Allocated(cfg) <= 64 * 1024
    /\ n * (128 * DivCeil(mem, 128) + 1024) <= device.perSm
    /\ n * cfg.threads <= 1536

-----------------------------------------------------------------------------
\* Length of sorted_token_ids (moe_align_block_size).
IdsLen(tokens, bm) ==
    LET numel == tokens * RowsPerToken
        most  == numel + NumExperts * (bm - 1)
    IN  IF numel < NumExperts THEN Least(numel * bm, most) ELSE most

\* fused_marlin_moe's two calls: W2 takes the routed rows as its rows.
CallOf(g, tokens, bm) ==
    [g |-> g, bm |-> bm, ids |-> IdsLen(tokens, bm),
     rows |-> IF g.topK = 1 THEN tokens * RowsPerToken ELSE tokens]
MoeBlockSizes == {8, 16, 32, 48, 64}
Calls == {CallOf(g, t, bm) : g \in Gemms, t \in Tokens, bm \in MoeBlockSizes}

\* determine_exec_config multiplies in an int.
ASSUME SpreadAssumption ==
    \A c \in Calls : \A cfg \in AllConfigs : Spread(cfg, c) <= 2147483647

ExecInit ==
    /\ device \in Devices
    /\ regs \in [AllConfigs -> RegChoices]
    /\ last \in {[call |-> c, outcome |-> "none", cfg |-> NoConfig, perSm |-> 1] :
                  c \in {CHOOSE c \in Calls : TRUE}}

\* marlin_mm with thread_k = thread_n = -1, as the adapter calls it.
MarlinMM(c) ==
    LET e == DetermineExecConfig(c)
        ok == IsValid(e.cfg, c, LaunchSharedMem(e.perSm)) /\ Built(e.cfg, c)
    IN  /\ last' = [call |-> c, outcome |-> IF ok THEN "launched" ELSE "rejected",
                    cfg |-> e.cfg, perSm |-> e.perSm]
        /\ UNCHANGED <<device, regs>>

ExecNext == \E c \in Calls : MarlinMM(c)

ExecSpec == ExecInit /\ [][ExecNext]_execVars

-----------------------------------------------------------------------------
(* Properties *)

Launched == last.outcome = "launched"
Grid == device.sms * last.perSm

\* The blocks of the grid are resident together: one that spins on a lock never
\* keeps out the one it waits for.  marlin_mm counts the registers a thread uses,
\* the device those it allocates, and the rounding costs a third block its place at
\* seven register counts; two are resident then.
Miscounted(n, threads, x) ==
    /\ n = 3
    /\ \/ threads = 128 /\ x \in 169 .. 170
       \/ threads = 256 /\ x \in 81 .. 85
ThirdWaits == Miscounted(last.perSm, last.cfg.threads, regs[last.cfg])
Together(n) == Hosts(last.cfg, n, LaunchSharedMem(last.perSm))
Resident ==
    /\ Together(last.perSm) <=> ~ThirdWaits
    /\ Together(Least(last.perSm, 2))
    /\ KernelCacheSize(last.cfg, last.call) <= LaunchSharedMem(last.perSm)
InScratch ==
    LET tile  == MBlocks(last.call) * 16 * last.cfg.threadN
        tiles == (last.call.ids \div last.call.bm)
                   * (last.call.g.n \div last.cfg.threadN)
    IN  /\ Grid <= device.sms * 4
        /\ Least(Grid, tiles) * tile <= CTmpSize(last.call)

\* The configuration that is selected passes the check made after the shared
\* memory has been divided among the blocks of an SM, so a call is turned down
\* only when no configuration can be used at all.  What is launched fits: all thread
\* blocks of the grid are resident together, but for the third block of an SM at the
\* register counts of ThirdWaits, and each has the shared memory that its kernel
\* needs.  And the grid never outgrows what it is given: the workspace has four
\* locks per SM, and the C_tmp slots the kernel can reach with one lock per block or
\* per tile lie inside the allocation.
GridFits ==
    /\ last.outcome = "rejected" => \A cfg \in AllConfigs : CountOf(cfg, last.call) = 0
    /\ Launched => Resident /\ InScratch

\* Every call has a configuration that could be used, were each thread block alone
\* on its SM: the recipe's calls are of this kind.
SomeUsable ==
    \A d \in Devices : \A c \in Calls : \E cfg \in AllConfigs :
        IsValid(cfg, c, d.optin - 512) /\ Built(cfg, c)

\* Already one token makes tiles for as many blocks as an SM may ever hold, on
\* every SM: the recipe's GEMMs are wide enough.
OneTokenSpreads ==
    \A d \in Devices : \A c \in {CallOf(g, 1, bm) : g \in Gemms, bm \in MoeBlockSizes} :
        \A i \in 1 .. 3 :
            Spread(Table(c)[i], c) >= d.sms * (IF MBlocks(c) = 1 THEN 4 ELSE 2)

\* The tile, and with it the order in which a warp walks K, depends on the GEMM
\* and the block size only, not on how many rows are in the batch.
ConfigIgnoresBatch ==
    Launched =>
      LET one == DetermineExecConfig(CallOf(last.call.g, 1, last.call.bm))
      IN  one = [cfg |-> last.cfg, perSm |-> last.perSm]
=============================================================================
