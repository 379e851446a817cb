------------------------------ MODULE MoELayer ------------------------------
(***************************************************************************)
(* One expert-parallel rank's MoE layer as experts/marlin_moe.py runs it.   *)
(* The standard form takes routed tokens: choose a block size, align the    *)
(* routed rows to blocks, put them in the canonical order, W13, activation, *)
(* W2, and the sum over the top k, with a LoRA adapter joining in twice.    *)
(* The batched form takes rows already dispatched to their experts, a fixed *)
(* number of places each, and leaves the reduction to its caller.           *)
(*                                                                         *)
(* The two workspaces are flat memory, as widths N and K share them.  A     *)
(* cell holds the value of the row it was last written for; a row whose     *)
(* cells disagree is Torn.  Values are terms: what was computed from what.  *)
(* Every call begins with Stale workspaces: their contents are whatever     *)
(* another layer left there.  The aligners, the activation, the adapter's   *)
(* kernels, moe_sum and the modular kernel that lays the output over        *)
(* workspace13 are vLLM's and modelled from their use.                      *)
(***************************************************************************)
EXTENDS Integers, Sequences, SequencesExt, FiniteSets

CONSTANTS
    GlobalExperts,  \* global_num_experts
    ExpertMap,      \* expert_map: local index of a global expert, or -1
    CallKinds,      \* [batched, lora, byte, onInput, topk]: the calls that are made
    MaxTokens,      \* bound: rows of hidden_states in one call
    BlockSizes,     \* the block sizes of the selection loop, ascending
    ByteBlock,      \* the least block size for 1-byte activations
    N, K            \* widths of w2's input and of hidden_states, in cells

\* apply_router_weight_on_input is "only valid when topk is 1"; the batched form
\* takes one expert per row and no adapter.
MoECall == [batched : BOOLEAN, lora : BOOLEAN, byte : BOOLEAN, onInput : BOOLEAN,
            topk : 1 .. GlobalExperts]
ASSUME MoEAssumption ==
    /\ GlobalExperts \in Nat \ {0}
    /\ ExpertMap \in [0 .. GlobalExperts - 1 -> -1 .. GlobalExperts - 1]
    /\ CallKinds \subseteq MoECall /\ CallKinds # {}
    /\ \A c \in CallKinds : /\ c.onInput => c.topk = 1
                            /\ c.batched => c.topk = 1 /\ ~c.lora
    /\ MaxTokens \in Nat /\ N \in Nat \ {0} /\ K \in Nat \ {0}
    /\ BlockSizes \in Seq(Nat \ {0}) /\ BlockSizes # <<>>
    /\ ByteBlock \in Range(BlockSizes)

VARIABLES
    call,       \* the kind of the current call
    topk_ids,   \* topk_ids[t]: the distinct experts of token t, best first
    capacity,   \* BATCH_TOKENS_MAX: the places of an expert
    expert_num_tokens,  \* how many of them hold a token, by expert
    layout,     \* sorted_token_ids, expert_ids, num_tokens_post_padded
    ws,         \* ws[1], ws[2]: workspace13 and workspace2 of workspace_shapes
    done,       \* blocks of W2, then tokens of the sum, that are finished
    phase

inputs == <<call, topk_ids, capacity, expert_num_tokens>>
vars == <<inputs, layout, ws, done, phase>>

Larger(a, b) == IF a > b THEN a ELSE b
Smaller(a, b) == IF a < b THEN a ELSE b
CeilDiv(a, b) == (a + b - 1) \div b

\* The members of S, the first before all others.
InOrder(S, before(_, _)) ==
    LET place == [x \in S |-> Cardinality({y \in S : before(y, x)}) + 1]
    IN  [i \in 1 .. Cardinality(S) |-> CHOOSE x \in S : place[x] = i]

LocalExperts == {ExpertMap[g] : g \in 0 .. GlobalExperts - 1} \ {-1}
E == Cardinality(LocalExperts)

\* expert_map numbers the experts of this rank, each once.
ASSUME MapAssumption ==
    /\ LocalExperts = 0 .. E - 1
    /\ \A g, h \in 0 .. GlobalExperts - 1 :
         ExpertMap[g] = ExpertMap[h] /\ ExpertMap[g] # -1 => g = h

\* The rows of the intermediate caches: one per routed pair, or per place.
M == Len(topk_ids)
Numel == IF call.batched THEN E * capacity ELSE M * call.topk
Pairs == 0 .. Numel - 1

\* The local expert of row i, -1 when another rank has it or the place is empty.
ExpertOf(i) ==
    IF call.batched
    THEN IF i % capacity < expert_num_tokens[i \div capacity] THEN i \div capacity ELSE -1
    ELSE ExpertMap[topk_ids[i \div call.topk + 1][(i % call.topk) + 1]]
LocalPairs == {i \in Pairs : ExpertOf(i) # -1}

-----------------------------------------------------------------------------
(* Block sizes. *)

\* The selection loop's result: the first size among these places, or the largest.
FirstBlock(fitting) ==
    IF fitting = {} THEN BlockSizes[Len(BlockSizes)]
    ELSE BlockSizes[CHOOSE i \in fitting : \A j \in fitting : i <= j]

\* fused_marlin_moe: a size fits if the expected rows per expert fill less than nine
\* tenths of it.
StandardBlock ==
    LET valid == CeilDiv(M * E, GlobalExperts)
    IN  FirstBlock({i \in DOMAIN BlockSizes : 10 * valid * call.topk < 9 * E * BlockSizes[i]})

\* batched_fused_marlin_moe: the same for the places of an expert.
BatchedBlock == FirstBlock({i \in DOMAIN BlockSizes : 10 * capacity < 9 * BlockSizes[i]})

BlockSizeM ==
    LET chosen == IF call.batched THEN BatchedBlock ELSE StandardBlock
    IN  IF call.byte THEN Larger(chosen, ByteBlock) ELSE chosen

-----------------------------------------------------------------------------
(* The aligners. *)

\* Length of the aligner's buffer for block size bm.
BufferLen(bm) ==
    LET most == Numel + GlobalExperts * (bm - 1)
    IN  IF call.batched THEN E * CeilDiv(capacity, bm) * bm
        ELSE IF Numel < GlobalExperts THEN Smaller(Numel * bm, most) ELSE most

RowsOf(e) == {i \in Pairs : ExpertOf(i) = e}
Ascending(S) == InOrder(S, <)

\* The blocks that an expert's rows fill, and those of all experts before it.
BlocksOf(e) == CeilDiv(Cardinality(RowsOf(e)), BlockSizeM)
FirstBlockOf(e) == Cardinality(UNION {{f} \X (1 .. BlocksOf(f)) : f \in 0 .. e - 1})

\* Atomics place the rows of an expert in any order; the batched aligner counts.
Orders ==
    LET Experts == 0 .. E - 1
        Each == [Experts -> UNION {SetToSeqs(RowsOf(e)) : e \in Experts}]
    IN  IF call.batched THEN {[e \in Experts |-> Ascending(RowsOf(e))]}
        ELSE {orders \in Each : \A e \in Experts : orders[e] \in SetToSeqs(RowsOf(e))}

\* What an aligner returns when it finds expert e's rows in the order orders[e]:
\* those rows, padded with Numel to whole blocks, then an unspecified tail.
Aligned(orders, junkId, junkExpert) ==
    LET bm == BlockSizeM
        first == [e \in 0 .. E |-> FirstBlockOf(e)]
        Owner(b) == CHOOSE e \in 0 .. E - 1 : first[e] <= b /\ b < first[e + 1]
        IdAt(s) == LET e == Owner(s \div bm)
                       r == s - first[e] * bm + 1
                   IN  IF r \in DOMAIN orders[e] THEN orders[e][r] ELSE Numel
    IN  [ids |-> [i \in 1 .. BufferLen(bm) |->
                    IF i <= first[E] * bm THEN IdAt(i - 1) ELSE junkId],
         experts |-> [b \in 1 .. CeilDiv(BufferLen(bm), bm) |->
                        IF b <= first[E] THEN Owner(b - 1) ELSE junkExpert],
         post |-> first[E] * bm, block |-> bm]

-----------------------------------------------------------------------------
(* _canonicalize_marlin_moe_token_order.  Slots and blocks count from 0. *)

ActiveBlock(l, b) == b * l.block < l.post

\* Fault: the first block of the unspecified tail may continue a region.
RegionStartsByExpert(l, b) == b = 0 \/ l.experts[b + 1] # l.experts[b]

RegionStarts(l, b) ==
    \/ b = 0
    \/ l.experts[b + 1] # l.experts[b]
    \/ ActiveBlock(l, b) # ActiveBlock(l, b - 1)

Region(l, b) == Cardinality({c \in 1 .. b : RegionStarts(l, c)})

SortKey(l, s) ==
    Region(l, s \div l.block) * (Numel + 1)
      + (IF s < l.post THEN l.ids[s + 1] ELSE 0)

\* argsort need not be stable; equal keys are equal ids, or the tail's.
Canonical(l) ==
    LET key == [s \in 0 .. Len(l.ids) - 1 |-> SortKey(l, s)]
        Before(a, b) == key[a] < key[b] \/ (key[a] = key[b] /\ a < b)
        order == InOrder(DOMAIN key, Before)
    IN  [l EXCEPT !.ids = [i \in DOMAIN order |-> l.ids[order[i] + 1]]]

\* A single token has one row per expert: nothing to sort.
Sorts == ~call.batched /\ M > 1

-----------------------------------------------------------------------------
(* Workspaces. *)

Stale == <<"stale">>
Torn  == <<"torn">>

\* Cells of workspace13 and workspace2.  The standard form swaps the two shapes,
\* because the modular kernel lays the output over workspace13.
StandardWorkspaces == <<Numel * Larger(N, K), Numel * Larger(2 * N, K)>>
BatchedWorkspaces  == <<Numel * Larger(K, 2 * N), Numel * N>>
StaleWorkspaces(lens) == [w \in 1 .. 2 |-> [c \in 0 .. lens[w] - 1 |-> Stale]]

Row(mem, width, r) ==
    LET cells == {mem[c] : c \in r * width .. (r + 1) * width - 1}
    IN  IF Cardinality(cells) = 1 THEN CHOOSE v \in cells : TRUE ELSE Torn

\* mem with the rows in the domain of `rows' written.
Written(mem, width, rows) ==
    [c \in DOMAIN mem |->
       IF c \div width \in DOMAIN rows THEN rows[c \div width] ELSE mem[c]]

\* Fault: the workspaces are passed on as they come.
Cache2AsGiven == 2
\* The workspaces behind intermediate_cache2, intermediate_cache13 and the output
\* of W2: a part of cache13, or the output tensor itself in the batched form.
Cache2  == IF call.batched THEN 2 ELSE 1
Cache13 == 3 - Cache2
W2Out   == IF call.batched THEN 1 ELSE Cache13

-----------------------------------------------------------------------------
(* The Marlin kernel's view of the layout. *)

Blocks == 0 .. layout.post \div layout.block - 1
Slots(b) == b * layout.block .. (b + 1) * layout.block - 1

\* read_moe_block_data counts the valid ids of a block...
ValidIn(b) == Cardinality({s \in Slots(b) : layout.ids[s + 1] < Numel})
\* ... and the kernel takes that many from the block's start.
RowsIn(b) == {layout.ids[b * layout.block + j] : j \in 1 .. ValidIn(b)}
ExpertFor(b) == layout.experts[b + 1]

\* Fault: every call is taken for a qualified one.
WholeKAlways == TRUE
\* The adapter: bfloat16 activations, the recipe's weights and shapes, and a known
\* block size go to the whole-K kernel, the rest to the stock one.
WholeK == ~call.byte /\ layout.block \in Range(BlockSizes)

\* The order in which a block's products are added: fixed for the whole-K kernel,
\* for the stock kernel a function of the block's place in the grid.
AnyPlace == -1
OrderOf(b) == IF WholeK THEN AnyPlace ELSE b

Quantised(x) == IF call.byte THEN <<"quantised", x>> ELSE x
\* Fault: the router's weights are applied to both products.
WeightedTwice(i, here, x) == IF call.batched THEN x ELSE <<"weighted", i, x>>
\* mul_topk_weights.  The batched form passes weights of one.
Weighted(i, here, x) == IF here /\ ~call.batched THEN <<"weighted", i, x>> ELSE x

-----------------------------------------------------------------------------
NoLayout == [ids |-> <<>>, experts |-> <<>>, post |-> 0, block |-> 1]

Init ==
    /\ call = CHOOSE c \in CallKinds : TRUE
    /\ topk_ids = <<>> /\ capacity = 1 /\ expert_num_tokens = <<>>
    /\ layout = NoLayout
    /\ ws = <<<<>>, <<>>>>
    /\ done = {}
    /\ phase = "idle"

\* grouped_topk returns distinct experts.
Chosen(k) == {ids \in [1 .. k -> 0 .. GlobalExperts - 1] :
                \A i, j \in 1 .. k : ids[i] = ids[j] => i = j}

StandardCall ==
    /\ phase = "idle"
    /\ call' \in CallKinds /\ ~call'.batched
    /\ \E tokens \in 1 .. MaxTokens : topk_ids' \in [1 .. tokens -> Chosen(call'.topk)]
    /\ ws' = StaleWorkspaces(StandardWorkspaces')
    /\ phase' = "align"
    /\ UNCHANGED <<capacity, expert_num_tokens, layout, done>>

BatchedCall ==
    /\ phase = "idle"
    /\ call' \in CallKinds /\ call'.batched
    /\ capacity' \in 1 .. MaxTokens
    /\ expert_num_tokens' \in [0 .. E - 1 -> 0 .. capacity']
    /\ ws' = StaleWorkspaces(BatchedWorkspaces')
    /\ phase' = "align"
    /\ UNCHANGED <<topk_ids, layout, done>>

\* The junk of the tail may look like an id or an expert.
Align ==
    /\ phase = "align"
    /\ \E orders \in Orders, junkId \in {0, Numel + 7},
          junkExpert \in {-1} \cup LocalExperts :
         layout' = Aligned(orders, junkId, junkExpert)
    /\ phase' = IF Sorts THEN "canonicalize" ELSE "w13"
    /\ UNCHANGED <<inputs, ws, done>>

Canonicalize ==
    /\ phase = "canonicalize"
    /\ layout' = Canonical(layout)
    /\ phase' = "w13"
    /\ UNCHANGED <<inputs, ws, done>>

W13Row(b, i) ==
    Weighted(i, call.onInput,
             <<"w13", ExpertFor(b), OrderOf(b), Quantised(<<"x", i \div call.topk>>)>>)
W13 ==
    /\ phase = "w13"
    /\ ws' = [ws EXCEPT ![Cache13] = Written(@, 2 * N,
         [i \in UNION {RowsIn(b) : b \in Blocks} |->
            W13Row(CHOOSE b \in Blocks : i \in RowsIn(b), i)])]
    /\ phase' = "activation"
    /\ UNCHANGED <<inputs, layout, done>>

Adapted(weight, y, x) == IF call.lora THEN <<"adapted", weight, y, x>> ELSE y
\* activation_with_lora adds the adapter's product to W13's first.
Gate(i) == Adapted("a13", Row(ws[Cache13], 2 * N, i), <<"x", i \div call.topk>>)
Activation ==
    /\ phase = "activation"
    /\ LET gate == [i \in LocalPairs |-> Gate(i)]
           act == [i \in LocalPairs |-> <<"act", gate[i]>>]
       IN  ws' = [ws EXCEPT ![Cache13] = Written(@, 2 * N, gate),
                            ![Cache2] = Written(@, N, act)]
    /\ phase' = "w2"
    /\ UNCHANGED <<inputs, layout, done>>

\* One block of the second GEMM; blocks run in any order.
W2(b) ==
    /\ phase = "w2" /\ b \in Blocks \ done
    /\ ws' = [ws EXCEPT ![W2Out] = Written(@, K,
         [i \in RowsIn(b) |->
            Weighted(i, ~call.onInput,
                     <<"w2", ExpertFor(b), OrderOf(b), Quantised(Row(ws[Cache2], N, i))>>)])]
    /\ done' = done \cup {b}
    /\ UNCHANGED <<inputs, layout, phase>>

W2Done ==
    /\ phase = "w2" /\ done = Blocks
    /\ done' = {}
    /\ phase' = IF call.batched THEN "return" ELSE IF call.lora THEN "lora" ELSE "sum"
    /\ UNCHANGED <<inputs, layout, ws>>

\* moe_sum_with_lora, before it sums: lora_state["cache2"] is the workspace itself.
LoraW2 ==
    /\ phase = "lora"
    /\ ws' = [ws EXCEPT ![Cache13] = Written(@, K,
         [i \in LocalPairs |->
            Adapted("a2", Row(ws[Cache13], K, i), Row(ws[Cache2], N, i))])]
    /\ phase' = "sum"
    /\ UNCHANGED <<inputs, layout, done>>

\* One thread block of moe_sum: the rows of token t whose expert is local, summed
\* into row t of the output.
LocalRows(t) ==
    Ascending({i \in LocalPairs : i \div call.topk = t})
MoeSum(t) ==
    /\ phase = "sum" /\ t \in (0 .. M - 1) \ done
    /\ LET rows == LocalRows(t)
           sum == [j \in DOMAIN rows |-> Row(ws[Cache13], K, rows[j])]
       IN  ws' = [ws EXCEPT ![1] = Written(@, K, [r \in {t} |-> <<"sum", sum>>])]
    /\ done' = done \cup {t}
    /\ UNCHANGED <<inputs, layout, phase>>

Return ==
    /\ phase = "return" \/ (phase = "sum" /\ done = 0 .. M - 1)
    /\ call' = CHOOSE c \in CallKinds : TRUE
    /\ topk_ids' = <<>> /\ capacity' = 1 /\ expert_num_tokens' = <<>>
    /\ layout' = NoLayout /\ ws' = <<<<>>, <<>>>> /\ done' = {}
    /\ phase' = "idle"

Next ==
    \/ StandardCall \/ BatchedCall \/ Align \/ Canonicalize \/ W13 \/ Activation
    \/ \E b \in Blocks : W2(b)
    \/ W2Done \/ LoraW2
    \/ \E t \in 0 .. MaxTokens - 1 : MoeSum(t)
    \/ Return

Spec == Init /\ [][Next]_vars
=============================================================================
