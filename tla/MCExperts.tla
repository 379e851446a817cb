----------------------------- MODULE MCExperts -----------------------------
(***************************************************************************)
(* One run for the four parts of an expert layer, each on its own: subject *)
(* says which of them takes steps, the others stay as they began.           *)
(*                                                                         *)
(* MoELayer: the rank holds two of three experts, rows are one and three    *)
(* cells wide (the recipe's 2048 and 6144), up to three tokens or three     *)
(* places per expert.  The selection loop reaches each of its three block   *)
(* sizes: an expert's rows pad a block, fill one, or need two.  Calls have  *)
(* an adapter or none, 1-byte activations or not, the router's weights on   *)
(* the input or the output, and rows routed or already dispatched.          *)
(*                                                                         *)
(* ExecConfig: the recipe's W13 and W2 GEMMs (384 experts, 8 per token,     *)
(* MXFP4 in groups of 32) on the GB10 of the DGX Spark, and on a device     *)
(* with more SMs and shared memory, where the caps matter.                  *)
(*                                                                         *)
(* SlicePipeline: two warps, groups within a sub-tile, a tile and over two  *)
(* tiles; slices shorter and longer than the ring, of one block and of two. *)
(*                                                                         *)
(* Dequant: every 4-bit code and the edges of 8-bit ones, in each place of  *)
(* a register whose other codes are all zeros or almost all ones; scales    *)
(* at both ends of their range.                                             *)
(***************************************************************************)
EXTENDS MoEPinned, ExecConfig, SlicePipeline, Dequant

MCExpertMap == 0 :> -1 @@ 1 :> 0 @@ 2 :> 1
MCBlockSizes == <<1, 2, 3>>
Plain == [batched |-> FALSE, lora |-> FALSE, byte |-> FALSE, onInput |-> FALSE, topk |-> 2]
MCCallKinds ==
    {Plain, [Plain EXCEPT !.lora = TRUE], [Plain EXCEPT !.byte = TRUE],
     [Plain EXCEPT !.lora = TRUE, !.onInput = TRUE, !.topk = 1],
     [Plain EXCEPT !.batched = TRUE, !.topk = 1],
     [Plain EXCEPT !.batched = TRUE, !.topk = 1, !.byte = TRUE]}

GB10  == [sms |-> 48, optin |-> 101376, perSm |-> 102400]
Large == [sms |-> 132, optin |-> 232448, perSm |-> 233472]
MCDevices == {GB10, Large}
MCGemms == {[n |-> 4096, k |-> 6144, topK |-> 8], [n |-> 6144, k |-> 2048, topK |-> 1]}

Part(block, row, iters) == [block |-> block, row |-> row, iters |-> iters]
MCLaunches ==
    {[stages |-> 4, group |-> 2, slices |-> <<Part(1, 0, 7), Part(1, 3, 1)>>],
     [stages |-> 4, group |-> 8, slices |-> <<Part(1, 2, 5), Part(2, 0, 2)>>],
     [stages |-> 4, group |-> 4, slices |-> <<Part(1, 1, 3), Part(1, 0, 3)>>],
     [stages |-> 4, group |-> 1, slices |-> <<Part(1, 0, 2)>>],
     [stages |-> 2, group |-> 2, slices |-> <<Part(1, 0, 3), Part(2, 1, 1)>>]}

Type(bits, exp, zero, to) == [bits |-> bits, exp |-> exp, zero |-> zero, to |-> to]
MCFormats ==
    {Type(4, 2, 0, to) : to \in {5, 8}} \cup {Type(8, 4, 0, to) : to \in {5, 8}}
    \cup {Type(4, 0, zero, to) : zero \in {0, 8}, to \in {5, 8}}
    \cup {Type(8, 0, zero, to) : zero \in {0, 128}, to \in {5, 8}}
Among(bits, codes) ==
    {[i \in 1 .. 8 |-> IF i = place THEN c ELSE d] :
        place \in 1 .. 8, c \in codes, d \in {0, 2^bits - 2}}
MCWordChoices == 4 :> Among(4, 0 .. 15) @@ 8 :> Among(8, {0, 1, 63, 64, 126, 128, 129, 254})
MCScaleWords == {<<1, 252, 127, 128, 129, 64, 2, 200>>}
AnyWeights == [format |-> Type(4, 2, 0, 8), codes |-> [i \in 1 .. 8 |-> 0],
               bytes |-> [i \in 1 .. 8 |-> 1]]

ASSUME RecipeUsable  == SomeUsable
ASSUME RecipeSpreads == OneTokenSpreads

VARIABLE subject

MCInit ==
    /\ subject \in {"layer", "launch", "slice", "weights"}
    /\ Init /\ ExecInit /\ PipeInit
    /\ IF subject = "weights" THEN DequantInit
       ELSE job = AnyWeights /\ fragment = Unset /\ scales = Unset
    /\ subject # "launch" => device = GB10 /\ regs = [c \in AllConfigs |-> 170]
    /\ subject # "slice" => launch = CHOOSE l \in MCLaunches : TRUE

MCNext ==
    /\ \/ subject = "layer" /\ Next /\ UNCHANGED <<execVars, pipeVars, dequantVars>>
       \/ subject = "launch" /\ ExecNext /\ UNCHANGED <<vars, pipeVars, dequantVars>>
       \/ subject = "slice" /\ PipeNext /\ UNCHANGED <<vars, execVars, dequantVars>>
       \/ subject = "weights" /\ DequantNext /\ UNCHANGED <<vars, execVars, pipeVars>>
    /\ UNCHANGED subject

MCSpec == MCInit /\ [][MCNext]_<<vars, execVars, pipeVars, dequantVars, subject>>
=============================================================================
