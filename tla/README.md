# Formal model of the MiMo V2.6 DGX Spark serving recipe

This directory holds a TLA+ development kept beside the code: modules that
model the recipe's own logic, TLC configurations that check them on small
instances, and proofs that TLAPS checks for every value of the constants.
Everything is translated from the source; `PROJECT.json` (`map`) names, for each
definition, the lines it stands for.

    tlc -workers 2 -config stripes.cfg MCMarlinStripes.tla
    tlapm DiffKVProofs.tla

`PROJECT.json` (`runs`) pairs every cfg with its module.

## 1. The system

The repository turns a pinned vLLM build into a server for MiMo V2.6 on eight DGX
Spark nodes (tensor parallel 8 with expert parallelism, one rank per node, at
most 16 running sequences, DFlash speculative decoding with seven drafts, no
asynchronous scheduling). It does so with *overlays*, complete replacement files for a
handful of vLLM modules plus one private CUDA kernel, an installer that puts them
into the image, a launcher, and tools that check the running server. The purpose
of most overlays is that a request's numbers must not depend on what else is in
the batch.

### Components

| Component | State it keeps | Operations | What is hard about it | What makes it correct |
| --- | --- | --- | --- | --- |
| **Whole-K Marlin kernel** (`whole-k/src/.../marlin_template.h`) | output C, fp32 scratch `C_tmp`, integer locks shared by all CTAs; slice locals per CTA | `init_slice`, main loop, barrier acquire/release, two reductions, `atomicAdd` path, `write_result` | CTAs spin on each other's locks; the workspace is never cleared between launches | every tile final exactly once, fixed order of additions, locks back at 0, `whole_k` tiles by one CTA |
| **Inside a slice** (`marlin_template.h`) | a ring of stages in shared memory, two register sets, three walks over K; the same memory for the reduction, the result and the block's row count | fetch, wait, read ahead, multiply, reduce over warps, reorder, store | copies land late, warps overtake each other, and four uses share one memory with barriers between some of them | products in K order with their own scales, the result the whole slice's |
| **Dequantisation** (`dequant.h`) | registers | take packed 4- and 8-bit codes apart, convert scales in place | shifts across the lanes of a signed register, two orders of the codes, scales converted over themselves | every value exact, one order for all types |
| **Marlin launch** (`ops.cu`) | none between calls; the device's sizes | choose a tile and blocks per SM, check again, launch | the barrier of the kernel's stock mode needs the grid resident, and the host counts registers otherwise than the device allocates them; memory is divided after the choice | grid resident but where the counts differ, never rejected, scratch large enough, tile independent of the batch |
| **MoE layer** (`experts/marlin_moe.py`, `_mimo_whole_k.py`) | two workspaces shared by every layer, viewed under several shapes | block size, align, canonical order, W13, adapter, activation, W2, sum; or rows already dispatched | stale memory, aliasing views, atomics in the aligner, an unspecified tail, a silent fallback | a token's output is the sum of its local experts, layout and order of products a function of the routing |
| **DiffKV attention** (`triton_unified_attention_diffkv.py`) | softmax scratch, allocated once and never cleared | 2D, 3D and mixed launches, split kernel, reducer | kernel and reducer must agree on rows and segments; short rows beside a prefill | rows once, keys once, no stale partial, short rows summed as in their own decode, long ones as before |
| **Model** (`models/mimo_v2.py`, `_mimo_stable_row_layers.py`) | parameters, tensors waiting for their partner | build layers, load the checkpoint tensor by tensor, run a stage | fused QKV in chunks that are no whole number of scale blocks; weight and scale apart; residual across stages | a rank's rows with their own scales, load order irrelevant, sublayers see the same sums however staged |
| **GPU model runner** (`model_runner.py`) | slot table, per-slot tensors on host and device, the state handed from `execute_model` to `sample_tokens` | finish/add/update requests, prepare inputs, forward, sample and verify, drafts | reuse of slots, host and device counts drifting apart, preemption, an exception between two halves of a step; eight ranks that never compare tables | lossless speculation, own rows only, equal tables on all ranks |
| **Sampling trace** (`_mimo_spec_trace.py`) | registered requests, step counts, open context, evidence file, configuration file | wrap `add_requests`, `sample`, `apply_sampling_params` | file edited while read, preemption, windows and drafts, exceptions | the window is covered, nothing unsampled is emitted, serving is not disturbed |
| **Opaque-prefill diagnostic** (`_mimo_prefill_boundaries.py`) | live wrapped methods, copies under a byte budget, raw files, payload lines | admit, wrap, copy, restore, read back, write | failure at any of these; restart; shared objects | methods restored, "complete" means complete |
| **Stable dense layers** (`_mimo_stable_dense.py`) and the **batch-invariant operations** they borrow from (`batch_invariant.py`, pinned) | the output tensor; torch's overrides and settings for the process | choose block and grid, persistent walk over tiles; turn the mode on, run an override | short last group of the swizzle, two counters per program; two entries to one mode; dimensions that shift | each element stored once with its own row's whole sum; one override per operation |
| **Overlay installer** (`install_overlays.py`) | the target tree | check all, copy pending | killed in a copy, rerun, foreign files | all or nothing before the first copy, repeatable, done means installed |
| **Launcher** (`launch.py`) | the containers of a machine | validate, check the host, look at the GPU, start a container | a container holds the GPU only when it loads; several launches at once | one rank per Spark, its own |
| **Mixed-request checker** (`check_mixed_requests.py`) | results, gate event, connections, timers | stages, two request threads, deadline timer | timer against a late answer, overlap of two requests | ok means in time, passed means overlapped, it ends |
| Benchmark, release check, kernel build, probes | nothing across calls | straight-line | see section 8 | |

### How they interact

The scheduler (vLLM, external) sends one output per step to the model runner of
each rank. The runner updates its slot table, orders the batch, builds the rows
and runs the model: attention goes through the DiffKV launcher, the router and
the attention output through the stable dense product, the experts through the
MoE layer, which calls the Marlin kernel twice through the whole-K adapter and
`marlin_mm`. Then it samples, verifies the drafts and proposes new ones. The two
diagnostics wrap methods of the runner. Shared state that crosses components:
the lock workspace (both GEMMs of all layers), the two MoE workspaces (all
layers), the softmax scratch (all calls), the per-slot tensors (successive
requests), the evidence files (successive processes). Installer and launcher act
before serving, the checker and the benchmark from outside over HTTP.

## 2. Modules

| Module | Models | State and actions against the code |
| --- | --- | --- |
| `MarlinSchedule` | the two-tile stream-K partition | pure functions of the launch and of a CTA's slice locals: `init_part1_slice`, `init_part2_slice`, `init_slice`, the column step |
| `MarlinStripes` | the CTAs interleaved at every access to shared memory | `locks`, `tmp`, `out` are the workspace, `C_tmp` and C; one action per access (`Acquire`, `Load`, `Store`, `Release`, `Publish`, `SeeNegative`, `CountIn`, `Write`...); a partial sum is the sequence of its terms in order |
| `TileGemm` | what any launch promises | abstract; `MarlinStripes` implements it with `INSTANCE ... WITH` |
| `SlicePipeline` | the warps of a thread block inside one slice | `stage[i][w]` is what warp w copied into stage i of shared memory; `Land` completes a copy, `Prime`, `WaitForStage`, `Fetch`, `Refill`, `Multiply`, `ReduceHalf`, `ReduceLast`, `Reorder`, `Store` follow the code between two barriers each |
| `Dequant` | `dequant.h` and the 8-bit scales of MXFP4 | `ConvertScales`, `ConvertWeights` bit by bit on two 16-bit lanes |
| `ExecConfig` | `marlin_mm` on the host | one action per call; registers per kernel, which the compiler decides, are any of a set |
| `MoELayer` | one rank's MoE layer, both forms of the experts, with the choice of kernel in `_mimo_whole_k.py` | `Align`, `Canonicalize`, `W13`, `Activation`, `W2`, `LoraW2`, `MoeSum`; the workspaces are flat memories of cells viewed with two widths; the aligner's order and tail are arbitrary |
| `MoEPinned` | the pinned original and the canonical baseline of that layer | functions of a call's inputs, which the properties compare with |
| `DiffKVPartition` | which rows, keys and segments each program takes | pure functions of the call and the launch |
| `DiffKV` | the launcher and the memory | `Call` queues kernels, `SplitKernel`, `PlainKernel`, `Reduce` run them; `scratch` holds what this call has written, any other read is `Stale` |
| `DiffKVPinned` | the pinned kernel and the candidate before the mixed launch | functions of a call, which the properties compare with |
| `QkvShards` | which rows of the fused fp8 QKV, and of its scales, a rank takes | pure functions of a layer's geometry |
| `MimoModel` | the model of one rank | `BuildLayer`; `Yield` handles one tensor of the checkpoint in any order within a file; `LayerForward` and the stage boundaries |
| `RequestSlots` | the slot table | `AddRequest`, `RemoveRequest`, `FinishRequests` as functions on the table |
| `RankSlots` | the tables of several ranks | `Schedule` broadcasts an output, `RankExecutes(k)` is the top of `execute_model` on rank k, for the next one |
| `ModelRunner` | a step of one rank | `Execute`, `ExecuteNothing`, `SampleTokens`, `SampleNothing`, `TakeDraftTokenIds`, `Abort`, with a forward that may raise. Uses `RequestSlots` |
| `SpecTrace` | the sampling trace | `Execute` (with `add_requests`), `Begin`, `BeginRaises`, `Sample`, `SampleRaises`, against `Edit` and `Preempt` |
| `PrefillBoundaries` | the opaque-prefill diagnostic | `Admit`, `CallMethod`, `ModelRaises`, `Finally`, `ReadBack`, `WritePayload`, `Restart` |
| `StableDense` | the persistent product and its callers | per program `Accumulate` and `Store` |
| `BatchInvariant` | the mode and the operations it installs | `EnableBatchInvariantMode`, `InitBatchInvariance`, one call of an operation; uses `StableDense` |
| `InstallOverlays` | the installer | `CheckEntry`, `Reject`, `OpenTarget`, `CopyBytes`, `Interrupt`, `Again` |
| `Launch` | several launches of the ranks of one recipe | `Command`, `CheckHost`, `LookAtGpu`, `Run`, against `Container` and `Foreign` |
| `MixedCheck` | the checker | both request threads, the timer, the main thread, a server that does as it likes |
| `MC...` | values for TLC; `MCExperts` and `MCRelease` join modules of one subsystem in a run, one of which takes steps | small sets of launches, calls, prompts, objects |
| `MarlinStripesProofs` | theorems about the kernel | the partition; one tile; all CTAs (section 7) |
| `DiffKVProofs` | theorems about attention | one call; the call against the two kernels it replaced |
| `ModelRunnerProofs` | theorems about the slot tables of all ranks and the runner of one | section 7 |
| `MoEProofs` | theorems about the MoE layer and the launch of its GEMMs | the layout; the outputs; the launch (section 7) |
| `DataLemmas` | lemmas that several of these proofs cite | products and quotients, induction over a set of naturals, sorted sequences |
| `DiagnosticsProofs` | theorems about both diagnostics | section 7 |
| `LayerProofs` | theorems about the dense product, the batch-invariant mode, weight loading and the pipeline stages | section 7 |
| `ReleaseProofs` | theorems about installer, launcher and checker | section 7 |

### Abstractions a reader should know

* **Numbers are the way they were computed.** A sum is the sequence of its terms
  (`MarlinStripes`), a result its tile size and partials (`DiffKV`), an output a
  nested term (`MoELayer`), a product its row, column and K order (`StableDense`).
  Equal terms mean equal floating-point results; no arithmetic is modelled.
* **Tokens** in `ModelRunner` are `<<request, position>>`, the target's own, or
  wrong. The target is exact: it predicts the right token when the cache below a
  row is right. So "speculation is lossless" is an invariant over plain values.
* **Memory nobody initialised** is an explicit stale value everywhere. In `MoELayer`
  each call starts with stale workspaces, which stands for any other layer.
* **The scheduler** is external and chooses freely among what vLLM may send. Now
  and then it offers a query one row too short for its drafts, so that the
  runner's own assertion (lines 1314-1319) is exercised.
* **`Slack`** in `SpecTrace` stands for the 16 of `max_output_positions + 16`: it must be at
  least the drafts plus the chunks of preempted requests (`SlackAssumption`); the
  code's 16 leaves seven drafts nine such chunks.
* **Short rows** keep their attention path (the comment at DiffKV's
  lines 538-540) only while the batch fits the buffers:
  `num_seqs * 8 <= seq_threshold_3D`. The recipe has 16 * 8 = 128, exactly the
  limit; `ShortRowsSequential` makes the promise under `Fits` only. Nor is it made for a lone
  short sequence whose `max_seqlen_q` overestimates it as long: the mixed launch wants a second
  sequence. That two results
  are equal is said as equal tile sizes and equal visible keys per segment; the number of
  rows in a block (`BLOCK_M`), which may change the shape of the tensor core's
  instruction, is not part of it.
* **The tile of a GEMM** does not depend on the number of rows for a given block
  size; the block size itself does follow the batch, so `ConfigIgnoresBatch`
  is not a claim that all batches are computed alike.
* **`expert_map`** gives each local index of `0 .. E - 1` to one expert and no other index
  (`MapAssumption`), as vLLM's `determine_expert_map` makes it; the aligners count by it.
* **A stock kernel's order of products** is the place of the row's block; the whole-K
  kernel's is its own. In `MoELayer` the output lies over `workspace13`, as the modular kernel
  (vLLM) lays it.
* **Copies into shared memory** (`SlicePipeline`) land at any time between their issue and
  the wait that covers them; a warp runs ahead of another until a barrier.
* **Scales of the fused QKV** whose row count happens to equal that of chunked scales are
  read as chunked (`QkvShards`): the code tells the two apart by the count.
  `GeometryAssumption` of `MimoModel` excludes checkpoints where that would be a mistake: a
  deployment whose scales are one grid has another count, or chunks for which both readings are the same.
* **The checkpoint** (`CheckpointAssumption` of `MimoModel`) holds every tensor that the parameters
  are made of, but for the fused projections of a torn one, and the modules that
  `packed_modules_mapping` packs (`mimo_v2.py:932`) in one form. A checkpoint that lacks another
  tensor loads without a word; what vLLM's loader reports of it is not modelled.
* **Value heads** are of one width in all layers that may share an attention backend
  (`ValueWidthAssumption`), as in the recipe: a backend class has one `head_size_v`, and
  the last layer built sets it.
* **Bytes of MXFP4 scales** are 1 to 252 (`DequantAssumption`): the comment at
  `dequant.h:553` says that 2^-127 does not occur, and 2^126 times the largest code would
  be an infinity. Codes that are NaN are left out.
* **An address** belongs to one machine and a machine has one configured address
  (`LaunchAssumption`): the launcher compares addresses, so on a machine with two
  of them two ranks launched at once would both find the GPU idle.

## 3. Runs: what each checks and shows

Every property has a mutant in `PROJECT.json`: a plausible bug in a mapped definition
(marked `Fault:` in the module) that TLC finds with the same run.

| Run | Properties | What it shows |
| --- | --- | --- |
| `stripes` | `TypeOK`, `LocksGuardTiles`, `WorkspaceClean`, `FixedReductionOrder`, `WholeKUniform`, `WholeKWorkspaceUntouched`, `ImplementsTileGemm`, `EveryLaunchFinishes` | all interleavings of the CTAs of 90 launch geometries (lock barrier with fp32 or fp16 reduction, `atomicAdd`, `whole_k`) following one another on one workspace: two CTAs share a lock exactly when they share a tile, the stripes of a tile, which start where multiples of the stripe length fall in its column, are added from the bottom of K to the top, each tile is final once, locks end at 0, and no launch hangs |
| `experts` | `CanonicalLayout`, `OutputsAreLocalSums` | the layer: whatever order the aligner used, the kernel is given a function of the routing, and the output is what the pinned layer sums for each token although everything around it is stale, with an adapter, 1-byte activations or rows already dispatched |
| | `GridFits`, `ConfigIgnoresBatch` | the launch: the recipe's two GEMMs for every block size, 1, 16 and 16,384 tokens, two devices, few to many registers are launched, inside lock and scratch allocations, and resident together, with registers rounded up as the device allocates them, except the third block of an SM at seven register counts |
| | `ProductsInOrder`, `ResultIsWholeSlice` | the slice: copies as late and warps as far apart as the waits and barriers allow |
| | `WeightsAreExact` | the weights: every 4-bit code and the edges of 8-bit ones in each place of a register |
| `diffkv_small` | `ScratchInBounds`, `NoStalePartial`, `DividedOnce`, `ShortRowsSequential`, `LongRowsAsBaseline` | 1,840 calls: rows, keys and scratch cells are divided exactly between the launches, a short row is summed as the pinned kernel sums it in its own one-row decode, and all others as the candidate before did |
| `model` | `QkvRowsOwn`, `OrderIndependentLoad`, `StagesCompose` | ranks of several tensor-parallel sizes and one or two stages load fused, torn, split and unquantised checkpoints in any order within a file and run a forward pass |
| `rank_slots` | `RanksAgree`, `SlotsHoldLive` | ranks that lag behind each other assign the same slots, and no slot leaks over finishes, preemptions and streaming re-adds |
| `runner` | `OutputsAreTargets`, `CountsAreTrue`, `RowsAreOwn`, `SamplesLastStep` | speculation is lossless whatever the drafts, chunks, preemptions, aborts and slot reuse; the cache below the device's count is history, and the host bounds lengths with the same count; rows are a request's own and decodes lead the batch; after a forward that raised, no earlier step is sampled |
| `trace_window` | `WindowCovered` | a traced request that ran alone has every output of its window on file once, and nothing that was not sampled; the step budget suffices |
| `trace_failure` | `DiagnosticsNeverFailRequests` (violated) | the finding of section 6 |
| `boundaries` | `NothingStaysWrapped`, `EvidenceIsOneCall` | failures of admission, copies, the model and files, and a restart anywhere: methods are restored, "complete" is true, raw files are never mixed between calls |
| `stable_dense` | `OwnProducts`, `OverridesOnce`, `OpsOwnElements` | the persistent programs cover the output once, each element with its own row's whole product; the mode installs each override once by either entry; each override combines for every element what torch combines |
| `release` | `OutcomeIsTrue` | the installer: three runs over every starting tree, killed anywhere: all is checked before anything is replaced, done means installed, cut off means repeatable |
| | `RankAlone` | the launcher: whatever ranks are launched where and at once, a Spark runs at most its own one, and shares the GPU only with a program that began later |
| `mixed` | `OkInTime`, `MixedPassMeansOverlap`, `PacketEnds` | the checker believes only what was complete in time and did overlap, and it ends whatever an open stream does |

## 4. Bounds, and why they are enough

* **`stripes`**: grids of 1 to 4 CTAs, 1 to 6 K tiles, up to 2 columns and 3 MoE
  blocks. The partition depends on tiles per CTA and on where stripe ends fall; these sets
  hold fewer tiles than CTAs, as many, and more; a remainder below and above a
  third of the grid; columns shared by two and three CTAs; stripes that end at and
  inside a column; group rounding; no tile at all; a CTA that waits for one that is
  itself waiting. Launches repeat without bound.
* **`experts`**: three experts, one of them remote, two per token, up to three tokens; an
  expert with three rows fills two blocks, one with one row pads its block. The launch uses real
  sizes; registers per configuration are 40, 85 or 170, independently for each of the four
  configurations: few, and the two that `marlin_mm` counts as three blocks per SM where the
  device has room for two (85 of 256 threads, 170 of 128). The proof goes up to the hardware's
  255. A slice has two warps, groups smaller than a sub-tile, of a tile and of two tiles, and lengths below and above the four stages (and a
  kernel of two). Registers hold one free code among zeros or among codes of almost all
  ones, so that a bit that crosses to another place shows.
* **`diffkv_small`**: the recipe's 8 short rows, 16 segments, tiles of 32 rows scaled to 2, 2
  and 2 to 4, contexts up to 7 keys and up to four sequences. Every branch of the
  launcher's choice and every relation of a key length to segment boundaries
  occurs. A call leaves nothing but stale scratch, so one call at a time suffices.
  Four sequences of two short rows exceed the 6 scratch rows, so the fallback of a
  batch that does not fit is among the calls.
* **`model`**: one full-attention dense layer and one sliding-window MoE layer; chunks of five
  and a half scale blocks and of whole ones, as the recipe's 3392 and 3712 rows; one, as many
  and twice as many ranks as chunks, so kv heads are merged, kept and shared. The embedding is
  tied to the head in one deployment of two stages.
* **`rank_slots`**: two ranks (interchangeable), three requests, two slots, three outputs:
  a slot passes from one request to another while both lists of an output have
  more than one member.
* **`runner`**: two requests, two slots, two drafts, four tokens, one preemption. Request
  1's prompt takes three tokens, so it is run in up to three chunks while request 2
  verifies drafts; a request that ends or is aborted hands its slot to the other; a
  preempted one may come back in the other slot.
* **`trace_window`, `trace_failure`**: a request that may be traced and one that may not, windows
  at the start and inside, one edit of the file, one preemption with one chunk.
* **`boundaries`**: two calls, one restart, one run id: the interesting cases are a run id met
  again in the same process and after a restart. Two boundaries share an object. Wrapping
  fails after any number of sites, the next one recorded or not. The byte
  budget fits the stages exactly; that a copy fails is a choice of every copy.
* **`release`**: three entries, one without an original, three runs; two ranks, three machines
  (one with a second address, one without a configured one), two launches at a time and four in
  all: enough for two launches of one rank and two of the other to meet in any order.
* **`mixed`**: a timeout of one tick, so that each event is before, at or after the
  deadline; a trigger of one token.
* **`stable_dense`**: three programs, 5 by 5 outputs over K = 5 in blocks of 2, one to six
  rows: short last blocks in all three dimensions, a short last group of row
  blocks, the change of block size. The other operations run on tensors of up to four
  dimensions; every subset of dimensions for the mean, every kind of broadcasting for matmul, an
  RMS norm with and without weight and residual.

Deadlock checking is off where a behaviour really ends (bounds used up, engine
stopped, program over); each such cfg says why.

## 5. Fairness

Two runs check liveness.

* `stripes`: weak fairness of "some CTA takes a step" (`SomeStep`). The CTAs are
  taken to be resident together, so the hardware keeps executing while any CTA
  can. `GridFits` (in `experts`) says when that is so: always, except when an SM gets three blocks
  of 128 threads with 169 or 170 registers, or of 256 threads with 81 to 85. Then a third of the
  CTAs wait for another to exit, and `EveryLaunchFinishes` does not speak of that launch in the stock
  mode; a `whole_k` launch, the recipe's, waits for no lock (`WholeKWorkspaceUntouched`) and needs no
  residency. How many registers the compiler gives a kernel is not in the repository.
  Fairness of single CTAs is not needed: spinning is not a step of the model,
  so a launch that cannot finish is one in which nobody can move.
* `mixed`: weak fairness of time, the main thread, each request thread and each timer, and of the
  return of a read whose connection was shut down. Nothing is assumed of the server,
  except that urlopen's own timeout ends a connection that never answers.

The other specifications state safety only.

## 6. Finding

`trace_failure`: the comment at `_mimo_spec_trace.py:426-427` says "Diagnostics must
never turn an otherwise valid request into an inference failure". The consumed-KV
capture below it is guarded so. The sampling trace is not: every step with a new request
parses the configuration file again and appends to `trace.jsonl` inside
`add_requests` (lines 265-281), and `finish` appends inside `sample`; a file caught while it is
being written, a configuration beyond the caps or a full disk raises through the
runner and ends the engine. With the recipe's `trace-disabled.json` the path is
present but registers nothing.

## 7. Proofs

TLAPS proves the following for every value of the constants; `PROJECT.json`
(`theorems`) lists them.

| Theorem | Statement |
| --- | --- |
| `TypeOKAlways`, `LocksGuardTilesAlways`, `WorkspaceCleanAlways`, `FixedReductionOrderAlways`, `WholeKUniformAlways` | `Spec => []P`, for each invariant of `MarlinStripes` |
| `WholeKLeavesWorkspace` | `Spec => WholeKWorkspaceUntouched`, an action property |
| `LaunchesImplementTileGemm` | `Spec => ImplementsTileGemm`, the refinement |
| `ScratchAlwaysInBounds`, `NeverStale`, `DividedOnceAlways` | `Spec => []P`, for each invariant of `DiffKV` |
| `ShortRowsSequentialAlways`, `LongRowsAsBaselineAlways` | `Spec => []P`, for the comparisons of `DiffKVPinned` |
| `RanksAlwaysAgree`, `SlotsAlwaysHoldLive` | `Spec => []P`, for the invariants of `RankSlots` |
| `OutputsAlwaysTargets`, `CountsAlwaysTrue`, `RowsAlwaysOwn`, `AlwaysSamplesLastStep` | `Spec => []P`, for the invariants of `ModelRunner` |
| `WindowAlwaysCovered` | `TraceSpec => []WindowCovered`, of the sampling trace |
| `NothingAlwaysStaysWrapped`, `EvidenceAlwaysOneCall` | `Spec => []P`, for the invariants of `PrefillBoundaries` |
| `OutcomeIsTrueAlways`, `RankAloneAlways` | `Spec => []OutcomeIsTrue` of the installer, `LaunchSpec => []RankAlone` of the launcher |
| `OkInTimeAlways`, `MixedPassMeansOverlapAlways` | `Spec => []P`, for the safety of the checker |
| `AlwaysOwnProducts`, `OverridesAlwaysOnce` | `OpsSpec => []P`, of the dense product and of the batch-invariant mode |
| `QkvRowsAlwaysOwn`, `LoadsInAnyOrder`, `StagesAlwaysCompose` | `Spec => []P`, of `MimoModel` |
| `LayoutAlwaysCanonical`, `OutputsAlwaysLocalSums` | `Spec => []P`, of `MoELayer` with `MoEPinned` |
| `GridAlwaysFits`, `UsableCallsLaunch`, `WideGemmsIgnoreBatch` | `ExecSpec => []GridFits`, the register counts without residency named in it; no call is turned down, where `SomeUsable`; `ExecSpec => []ConfigIgnoresBatch` where `OneTokenSpreads` |

So every safety property that `stripes`, `diffkv_small`, `rank_slots`, `runner`, `trace_window`,
`boundaries`, `release`, `mixed` and `model` check on a small instance holds for all values of the
constants, and so do two of the three of `stable_dense` and, in `experts`, those of the layer and of the launch
(`ConfigIgnoresBatch` under a condition that the run checks of the recipe).

**The Marlin kernel** (`MarlinStripesProofs`). Assumptions: the geometries are in `Geometry` and the workspace has a lock
per CTA. The proof has three floors.

* *The partition* is integer arithmetic. Tile t has CTAs `Low(g, t)` to
  `High(g, t)`, each with a part of K from `From` to `To`; the parts of neighbours
  meet and together are the column (`Parts`). The kernel does not compute these: a CTA
  starts at a quotient and walks, counting its lock index as it goes. `StripeWalk` and its companions
  show that init_slice and the column step hand out exactly the parts in order, with the right slice
  count and index, and `WalkLockIsLockOf` that the count arrives at one number per shared
  tile, the same for all its CTAs.
* *One tile*. For each CTA of a tile a stage ("ahead", a label, "done"); `TileOK`
  relates the stages to the lock, the cell through which the partial sum travels (`C_tmp` or C
  itself) and the place in C. A barrier lock counts the CTAs that have had their turn and the cell
  holds the sum of exactly those; an `atomicAdd` lock is minus the number still to add, and C
  holds the terms of those that have.
* *All CTAs*. `IInv` gives each CTA what its label knows of its slice and
  accumulators (`CTAOK`), each tile `TileOK`, and unused locks 0. None of the
  invariants is inductive alone: that a lock is free again, say, follows only from how far *all*
  CTAs of its tile are. A step of a CTA is a step of the one tile it has in hand and
  leaves stage, lock, cell and place of all others alone, because places of tiles are different
  and so are their locks. `FixedReductionOrder` and `LocksGuardTiles` are read off `TileOK`; with
  `whole_k` all tiles are unshared. For the refinement every step is shown to be a step or a stutter of
  `TileGemm`; that a tile takes each part once is `AddedOK` and `SingleOK`.

**Attention** (`DiffKVProofs`). Assumptions: sizes are positive, `Short < LongPrefill` and
`Short <= Segs * SplitTile`; calls are well formed (`IsCall`: `cu` rises from 0, `maxq` bounds
every query length, the queries per KV head divide the block of rows and fill it in
the qualified geometry). `NoStalePartial` is about results that are out; `IInv` adds
what is on the stream (`QueueOK`) and, when the reducer is next, that scratch is what the split
kernel of this launch wrote. The core is `ReducerMatchesLane` with `ReadSegmentsRun`: the
reducer finds the same sequence, position and partition length as the lane that wrote
the row, and every segment it reads is one whose program did not return early.

For `DividedOnce` the lemmas say that a row has exactly one lane in a launch that takes its
sequence and none in another (`LanesOfRow`: `find_seq_idx` inverts the numbering of blocks, though
its searched value is a rounded quotient), that lanes have scratch rows of their own
(`ScratchOnce`), that the tiles of a lane contain every visible key (`TilesCover`), and that the
segments the reducer reads cut those tiles without gap or overlap (`SegmentOfTile`, `SegmentsCover`).
`OnceInv` carries them over the two or three kernels of a call: how often each row was written
so far, and that each written row is what one of the call's launches makes of it (`RowIs`).

The last part brings both sides of a comparison to a common form: what the replaced kernels
store for a row is found in the set of all their cells (`CellsOfRow`, `ResultOfRow`). A short row's prefix is
the same number in its call and alone, and a split row depends on nothing else (`SplitRowKeys`). A
long row's launch differs from the candidate's in `QUERY_MODE` only (`BaselineSame`).
`ShortRowsSequential` holds for the calls in `Fits`; finding its proof showed that the promise
must except the lone overestimated sequence of section 2.

**Induction over data.** The library's induction theorems take an operator, which the provers
cannot instantiate. `SetInduction` states induction of a *set* of naturals instead, from
well-founded minimality, and with it a fold of the community modules is expanded to its
recursive function, shown to exist, and then described by its *history*: the sequence of
intermediate values. What a fold computes is proved along its history.

**Slot tables** (`ModelRunnerProofs`). No assumption beyond the types. Of two ranks that meet
after an output one arrived first, and the state does not hold what the other's table
will be; the invariant says that there is a single history of tables, one per output,
of which every rank holds an entry. `OneOrder` is where the code matters: `sorted()`
leaves one order in which to free the slots; `SortExists` (`DataLemmas`) finds a sorted sequence of a finite set by
counting for each member those before it. `SlotsHoldLive` follows the two folds of an
output: every turn keeps each slot free once or owned once, and changes the set of owners by the
one request it is about; when additions begin, the scheduler's bound leaves a free slot for each.

**Runner** (`ModelRunnerProofs`). No assumption beyond the types and that there are slots
(`SlotAssumption`, `RunnerAssumption`). Between steps a request is `Settled`: the scheduler's count,
the device's and the cache agree, and a running one's slot holds what its next row is fed from,
whoever owned the slot before. Between the halves of a step each item of the batch remembers what
it was fed and predicted (`RowsTrue`): a prediction is the target's if all rows up to it were. A batch
preserves this because the sums of its query lengths give every row exactly one item
(`RowOfItem`, over the fold of `query_start_loc`), and sampling does because a draft is kept only while it is what
the row before it predicts (`SampleIs`). Without `RowsTrue` the step is not inductive: a rejected draft
leaves false keys in the cache, and only the count says they are not history.

**Sampling trace** (`DiagnosticsProofs`). Assumed: finitely many requests, and a slack of
at least the drafts plus the chunks (`SlackAssumption`). The budget counts steps, the window outputs; the
invariant says that steps are *paid for*: by the outputs a counted step can have sampled
(`UpTo`: none before the window comes within reach of the drafts, one each after) and by chunks of
preempted requests. A step is charged when it begins and paid when its sample is taken, so there is one form
of the inequality for each place between (`Paid`, `PaidAhead`, `PaidSoon`).

**Prefill boundaries** (`DiagnosticsProofs`). Assumed: the boundaries, the calls and the stages of a
boundary are sequences, and no run id is the one that means none. `RestoreAll`: restoring the
bindings of any wrapping, in the opposite order, gives back the methods, by induction along the two
histories at once, which meet at each binding; it needs that an object without an attribute of its own
shows no wrapper (`Bare`). `RestoreHalf` adds the site whose method was recorded and not replaced, where
restoring sets what is set already or finds nothing to delete, notes it and goes on. With it the methods are always the original or the full wrapping (`MethodOK`), also
when an admission is cut short. For the evidence the invariant ties what was read back to the
files of the *current* call (`ReadOK`): a name is created only if it is free, so the file of an
earlier complete payload is never touched.

**Installer and launcher** (`ReleaseProofs`). Assumed of the installer: its entries are a
sequence. `OutcomeIsTrue` is about runs that are over; the invariant adds that, while checking,
every entry passed is the release's or may be replaced and is pending unless it is the release's, and
while copying, that this holds of all but the file under its hands. Of the launcher: addresses of
machines are disjoint and a configuration names a machine by one address only. A fact found out by
a launcher (`Knows`) must survive until its container starts, while others start, end and look; eight
*different* addresses on eight machines then leave one place per rank (`OnePlace`).

**Checker** (`ReleaseProofs`). Assumed: a deadline and a positive trigger. Everything that a
request's thread, its timer or the server do is a step of that request's record (`Grows`), in which an
expired deadline has failed the request by the time its timer is cancelled, and `ok` is
decided only then. The main thread decides on what it read earlier; `MainOK` says which of that is
still true: the gate stays open, and between stages both requests are over.

**Dense product and mode** (`LayerProofs`). Assumed (`DenseAssumption`): sizes and blocks are positive.
`ComputePid` maps the tiles one to one onto the blocks of the output, also in the short last group,
where the remainder of a tile's number runs through the group's rows rotated. The kernel advances two
counters, `tile_id` and `tile_id_c`, which must name the same tile at each store. The invariant
says that an element is stored exactly when the program its tile belongs to has gone past that
tile; "stored once" alone is not inductive. For the mode, either entry leaves the whole list of overrides
installed or none of it, so the second entry finds nothing to do.

**Loading and stages** (`LayerProofs`). Assumed: ranks and stages are within their numbers and
stages divide the layers (`ModelAssumption`), query heads share kv heads evenly and the scales' layout
shows in their number (`GeometryAssumption`, section 2), a fused projection is a layer's and no expert's
(`FilesAssumption`), the checkpoint is whole and value heads are as wide where a backend is shared
(`CheckpointAssumption`, `ValueWidthAssumption`, section 2). The proof has four parts.

* *Rows*. A checkpoint's chunk holds some heads of Q, then of K, then of V, and a rank's heads may
  start inside a chunk, fill several or share one. The row a rank has at i is computed from
  i alone, for Q, K and V separately (`QRowIs`, `KRowIs`, `VRowIs`), and its scale is that of the block
  the checkpoint quantised it with (`ScaleIs`), also when a chunk is no whole number of blocks.
* *Loading*. Weight and scale come apart, in any order, so "each row has its own scale" says nothing of a
  load under way. `LoadInv` adds that a layer holds both parts of a projection or neither,
  and that half a pair waits in the entry of its own layer.
* *Completeness*. Each part of a parameter is made of one tensor (`Source`). Of the loop's branches, in
  their order and with names matched by substring, exactly the one that takes a tensor to the parts
  it makes is reached (`Arrives`, which needs the parameter names to be those of this rank's layers),
  and it writes no part the parameter does not have (`Fits`). So at any time what
  has come is there, or waits for a partner that has not come (`PartsInv`, `PairInv`); when all files are read
  that is every part, and every rank has at least one expert of each layer (`HasParts`).
* *Forward*. Between two layers hidden state and residual add up to the sum of all sublayers
  before, on whichever stage they are (`PassInv`): the residual crosses a boundary instead of being
  added up there. Behind a sequence-parallel MoE the rows of the ranks, gathered, are the batch's in
  order (`RowsGathered`).

**MoE layer** (`MoEProofs`). Assumed: the types of the constants, `topk = 1` where the code asks for
it (`MoEAssumption`), and the expert map of section 2 (`MapAssumption`). The proof has two parts.

* *Layout*. The blocks of the experts lie one after the other and fit the aligner's buffer, also when
  there are fewer rows than experts. So between `Align` and `Canonicalize` the layout lists each
  expert's rows in *some* order (`Lists`, the strengthening that `CanonicalLayout` needs). A region
  of the sort is one expert's blocks and the tail is a region of its own, so the keys of an expert's slots are
  above those of all slots before, and rise with the row. A sequence with each slot once, in the
  order of the keys, lists the rows ascending; the sort yields such a sequence (`SortByPlace`), and
  there is only one (`OneSequence`). A single token has at most one row per expert (`NothingToSort`),
  the batched aligner counts: both lists are ascending unsorted.
* *Outputs*. In such a layout the padding is last in each block, so the kernel's count of valid ids
  takes exactly the block's rows; every local row is in one block, of its own expert (`BlockOwns`,
  `BlockOnce`). `OutputInv` says for each phase which rows of which workspace, seen with which width, hold
  which term. Nothing is said of the cells between, which stay stale; that every row a phase reads was
  written with the *same* width by an earlier one, and not since, is what the proof checks
  (`PutIs`, `RowWritten`), and that the widths fit both workspaces (`WorkspacesFit`).

**Launch configuration** (`MoEProofs`, its last sections). Assumed (`ExecAssumption`): a device reserves
1 KB of an SM's shared memory per block and lets one block have all the rest, which is a whole number
of 128-byte units, a thread has at most 255 registers, no dimension is 0 (`marlin_mm` checks it), codes of 4 or 8 bits; and the products of
`determine_exec_config` stay within an int (`SpreadAssumption`). The invariant `ExecInv` says that what is
launched is the answer to its call. `CountFits` bounds the number of blocks that is chosen: it is 1, or
so small that registers and shared memory with a margin of 1536 bytes per block fit. The launch takes only
1024 bytes off each share, so what was usable before the memory is divided still is after (`Divided`):
a call is turned down only when no configuration is usable. One block always fits, since 255 registers times
256 threads are just what `determine_exec_config` counts with. Whether the blocks are resident together is
another count: the device hands out registers in multiples of eight per thread and shared memory in units
of 128 bytes (`Allocated`, `Hosts`, from the CUDA documentation, not from this repository). `AllocatedFit`
goes through the numbers of blocks and threads: the rounding is absorbed by the difference between 255 and 256 KB
except for three blocks at seven register counts (`Miscounted`), where two still fit; `MemoryFits` does the
same for the shared memory, whose rounding stays within the KB that is left. `GridFits` is an equivalence, so the
exception is exact. `WithinScratch` compares the slots of C_tmp with
both bounds of its allocation. That the tile does not depend on the batch is *not* true of every GEMM and
device: few tiles lower the number of blocks per SM, and another configuration may then have the most. It is
true where one token already makes enough tiles (`OneTokenSpreads`); the run checks, as an assumption
(`RecipeSpreads` in `MCExperts`), that the recipe's GEMMs are of that kind on both its devices. So is
`SomeUsable` (`RecipeUsable`): every call of the recipe has a usable configuration and hence is launched.

**Only model-checked**: the slice
(`ProductsInOrder`, `ResultIsWholeSlice`), dequantisation, and `OpsOwnElements` of the overrides.

**Out of the prover's reach** and left to TLC: liveness under fairness and `ENABLED`
(`EveryLaunchFinishes`, `PacketEnds`), and `Dequant`, whose bit operations come from `Bitwise`.

## 8. Not modelled, and why

* **Floating-point arithmetic, tensor cores**: out of TLC's reach; numbers are
  represented by how they are computed. Only dequantisation, which is exact, is done on bits.
* **In the Marlin kernel**: zero points, 8-bit activations, per-column scales and the bias, none of
  which the recipe uses; slices whose sum goes to another thread block are in `MarlinStripes` but
  not in `SlicePipeline`. In `dequant.h`: the variants that fold the bias into the scale, packed
  zero points, NVFP4's scales. The packed id of a `ScalarType` is resolved by the compiler.
* **In the MoE layer**: which quantisations a class says it supports. The batched form passes
  no global scales of weights, which only NVFP4 has.
* **In the model**: class-level `set_head_size_v` is shared by the layers of one attention backend,
  and is modelled; hidden states for an auxiliary head are indexed from a stage's first layer
  and dropped by stages before the last, so `StagesCompose` speaks of them for one stage only.
* **In the prefill diagnostic**: restoring succeeds wherever wrapping did; `restore` goes on after
  an error, but a method that Python refuses to set back stays wrapped, in the code as well.
* **In the batch-invariant operations**: softmax, torch's reduced-precision flags, 64-bit indices. An RMS
  norm with a residual is vLLM's `fused_add_rms_norm`, of whose order nothing is said, nor that it
  writes over its arguments. A
  call of `init_batch_invariance` that finds the mode on leaves its own workspace setting
  (an early return), so `OverridesOnce` speaks of the first. The tuned blocks of
  `matmul_persistent` are a table and appear as any of a set.
* **In the runner**: block tables and the reuse of KV blocks, CUDA graphs and padding,
  asynchronous scheduling (off in the recipe), pipeline and data parallelism, LoRA, pooling,
  encoders, grammar bitmasks, warm-up. The failure that `docs/results.md` reports
  ("Subsequent runtime failure") is a CUDA error in a batch with structured output;
  `RowsAreOwn` shows that the row selection it mentions is right in the modelled path, not
  what caused it.
* **In the sampling trace**: summaries, fingerprints, prefix hashes, the consumed-KV extension
  (lines 312-440), whose capture is guarded and changes nothing. Raw logits are summarised
  with the end-of-sequence ids read at installation (301), processed ones with those of the refreshed
  configuration (213); no document says which is meant.
* **Launcher**: the text of the command. Nothing checks that all ranks were started with the same
  settings (`--native` included); `docs/setup.md` asks the operator for it.
* **Benchmark client**: one request after another, a row per request. Its timeout counts from the last
  byte (`benchmark.py:42`), so a server that keeps trickling holds it for ever; the checker has a
  timer against that, the benchmark promises nothing.
* **Release check, kernel build**: straight-line programs that run once. What `check_scheduler.py`
  counts is checked and proved of `MarlinSchedule`.
* **Probes, plots**: measurements on a GPU and drawings. The pinned originals and baselines are
  modelled as references (`MoEPinned`, `DiffKVPinned`, `BatchInvariant`, `MimoModel`); the
  original runner is the overlay without its last lines.

## 9. Plan

1. *More proofs*: `ProductsInOrder` of the slice, `OpsOwnElements` of the overrides.
2. *More of the system*: the runner's KV block tables and graph padding, the consumed-KV
   extension, bias and slices that are summed over thread blocks in `SlicePipeline`.
