------------------------------ MODULE MimoModel ------------------------------
(***************************************************************************)
(* The model of one rank (models/mimo_v2.py, _mimo_stable_row_layers.py):   *)
(* its layers are built, the checkpoint's tensors are loaded as the weight  *)
(* iterator yields them, and a forward pass goes through the pipeline       *)
(* stages.                                                                 *)
(*                                                                         *)
(* A tensor's name is [layer, key, expert]: layer and expert are -1 when    *)
(* the name has none.  A parameter holds its parts: what each was loaded    *)
(* from.  Linear layers, fused experts, norms and their weight loaders are  *)
(* vLLM's: a loader copies this rank's shard of what it is given.           *)
(***************************************************************************)
EXTENDS QkvShards, Sequences, FiniteSets

CONSTANTS
    NumLayers,        \* num_hidden_layers
    HybridPattern,    \* hybrid_layer_pattern: 1 for sliding-window layers
    MoeFreq,          \* moe_layer_freq
    Geometry,         \* "swa" and "ga": [heads, kv, hd, vd, sink] of the config
    CkptTP,           \* config.num_key_value_heads: chunks of a fused QKV
    Block,            \* rows per fp8 scale
    NumExperts,       \* n_routed_experts
    AuxLayers,        \* layers whose input EAGLE3 is given
    Tokens,           \* rows of the forward pass
    Deployments,      \* see Deployment
    Files             \* Files[style]: the checkpoint, a sequence of sets of names

Styles == {"fp8", "torn", "split", "bf16"}
Deployment ==
    [tp : Nat \ {0}, rank : Nat,          \* tensor parallel
     pp : Nat \ {0}, stage : Nat,         \* pipeline parallel
     act : {"silu", "gelu"},              \* hidden_act
     router : BOOLEAN,                    \* gate unbiased, BF16, (384, 6144)
     output : BOOLEAN,                    \* o_proj unquantized, BF16, (6144, 2048)
     backend : {"none", "FA", "TRITON", "other"},   \* --attention-backend
     faSinks : BOOLEAN, fa : BOOLEAN,     \* FA-DiffKV usable with sinks, without
     seqParallel : BOOLEAN,               \* use_sequence_parallel_moe
     tied : BOOLEAN,                      \* tie_word_embeddings
     scales : {"chunked", "grid", "bad"}, \* layout of the fp8 scales
     style : Styles]

Names == [layer : -1 .. NumLayers - 1, key : STRING, expert : -1 .. NumExperts - 1]
Name(l, key, e) == [layer |-> l, key |-> key, expert |-> e]
Plain(l, key) == Name(l, key, -1)

ASSUME ModelAssumption ==
    /\ {CkptTP, Block} \subseteq Nat \ {0} /\ {NumLayers, NumExperts, Tokens} \subseteq Nat
    /\ Deployments \subseteq Deployment
    /\ \A d \in Deployments :
         d.rank < d.tp /\ d.stage < d.pp /\ NumLayers % d.pp = 0
    /\ HybridPattern \in [0 .. NumLayers - 1 -> {0, 1}]
    /\ MoeFreq \in [0 .. NumLayers - 1 -> BOOLEAN]

\* Rows of a fused QKV tensor.
FusedRows(geo) == geo.heads * geo.hd + geo.kv * (geo.hd + geo.vd)

\* Query heads share kv heads evenly.  Where the scales are one grid over all chunks,
\* their number says so, unless both layouts are the same: the number of rows is all
\* that _shard_fp8_qkv_proj is told of the layout.
ASSUME GeometryAssumption ==
    /\ Geometry \in [{"swa", "ga"} ->
                       [heads : Nat \ {0}, kv : Nat \ {0}, hd : Nat \ {0}, vd : Nat \ {0},
                        sink : BOOLEAN]]
    /\ \A kind \in {"swa", "ga"} :
         LET rows == FusedRows(Geometry[kind])
             chunk == rows \div CkptTP
         IN  /\ Geometry[kind].heads % Geometry[kind].kv = 0
             /\ (\E d \in Deployments : d.scales = "grid") =>
                  \/ CkptTP = 1 \/ chunk % Block = 0
                  \/ CkptTP * CeilDivide(chunk, Block) # CeilDivide(rows, Block)

\* A checkpoint has a file at least; a fused projection is a layer's, and no expert's.
ASSUME FilesAssumption ==
    \A style \in Styles :
      /\ Files[style] \in Seq(SUBSET Names) /\ Files[style] # << >>
      /\ \A i \in DOMAIN Files[style] : \A n \in Files[style][i] :
           n.key \in {"qkv_proj.weight", "qkv_proj.weight_scale_inv"} =>
             n.layer # -1 /\ n.expert = -1

\* The checkpoint is whole, but for the fused projections of a torn one, and it holds
\* the modules that packed_modules_mapping packs in one form: an MLP's and an expert's
\* apart, the attention's apart in style "split" and fused in the others.
Checkpoint(style) == UNION {Files[style][i] : i \in DOMAIN Files[style]}
ASSUME CheckpointAssumption ==
    \A style \in Styles :
      /\ \A l \in 0 .. NumLayers - 1 :
           LET has(key) == Plain(l, key) \in Checkpoint(style)
           IN  /\ has("o_proj.weight")
               /\ has("input_layernorm.weight") /\ has("post_attention_layernorm.weight")
               /\ (IF HybridPattern[l] = 1 THEN Geometry["swa"].sink ELSE Geometry["ga"].sink)
                     => has("attention_sink_bias")
               /\ IF MoeFreq[l]
                    THEN /\ has("gate.weight") /\ has("gate.e_score_correction_bias")
                         /\ \A e \in 0 .. NumExperts - 1 :
                              {Name(l, "gate_proj.weight", e), Name(l, "up_proj.weight", e),
                               Name(l, "down_proj.weight", e)} \subseteq Checkpoint(style)
                    ELSE has("gate_proj.weight") /\ has("up_proj.weight") /\ has("down_proj.weight")
               /\ style = "fp8" => has("qkv_proj.weight") /\ has("qkv_proj.weight_scale_inv")
               /\ style = "bf16" => has("qkv_proj.weight")
               /\ style = "split" =>
                    has("q_proj.weight") /\ has("k_proj.weight") /\ has("v_proj.weight")
      /\ {Plain(-1, "embed_tokens.weight"), Plain(-1, "norm.weight"),
          Plain(-1, "lm_head.weight")} \subseteq Checkpoint(style)
      /\ \A n \in Checkpoint(style) :
           /\ n.key \notin {"gate_up_proj.weight", "experts.w13_weight", "experts.w2_weight"}
           /\ n.key \in {"q_proj.weight", "k_proj.weight", "v_proj.weight"} => style = "split"
           /\ n.key = "qkv_proj.weight" => style # "split"

\* The layers that may share an attention backend have value heads of one width.
ASSUME ValueWidthAssumption ==
    \/ Geometry["swa"].vd = Geometry["ga"].vd
    \/ \E kind \in {"swa", "ga"} : Geometry[kind].vd = Geometry[kind].hd

VARIABLES
    d,          \* the deployment of this rank
    phase,      \* "build", "load", "forward", "done" or "raised"
    layers,     \* layers built, by number
    headSizeV,  \* by attention backend: its class attribute head_size_v
    file, todo, \* the file that is read, and what it has still to yield
    pending,    \* pending_fp8_qkv_proj: by layer, the tensors that have come
    params,     \* named_parameters: by name, what each part was loaded from
    loaded,     \* loaded_params
    fwd         \* the forward pass

buildVars == <<d, layers, headSizeV>>
loadVars  == <<file, todo, pending, params, loaded>>
vars == <<buildVars, phase, loadVars, fwd>>

-----------------------------------------------------------------------------
(* Construction *)

\* make_layers: the layers of a pipeline stage.
StageLayers(stage) ==
    LET n == NumLayers \div d.pp IN stage * n .. (stage + 1) * n - 1
Own == StageLayers(d.stage)

IsCompressedSoftmax(l) == HybridPattern[l] = 1
IsMoeLayer(l) == MoeFreq[l]
Kind(l) == IF IsCompressedSoftmax(l) THEN "swa" ELSE "ga"
Geo(l)  == Geometry[Kind(l)]

\* dict[x] = v
With(f, x, v) == [y \in DOMAIN f \cup {x} |-> IF y = x THEN v ELSE f[y]]

\* The attention backend of a layer; a layer whose K and V rows are equally wide
\* leaves the choice to vLLM.
Backend(l) ==
    IF Geo(l).vd = Geo(l).hd THEN "default"
    ELSE IF d.backend \in {"FA", "TRITON"} THEN d.backend
    ELSE IF IF Geo(l).sink THEN d.faSinks ELSE d.fa THEN "FA" ELSE "TRITON"

Attn(l) ==
    [kind |-> Kind(l), numHeads |-> Geo(l).heads \div d.tp,
     numKvHeads |-> IF Geo(l).kv >= d.tp THEN Geo(l).kv \div d.tp ELSE 1,
     vd |-> Geo(l).vd, backend |-> Backend(l),
     window |-> IsCompressedSoftmax(l), sink |-> Geo(l).sink]

\* What the parts of a layer refuse: StableMimoGateLinear what its product was not
\* qualified for, install_stable_mimo_output likewise, and both kinds of MLP.
GateRefused   == ~d.router
OutputRefused == ~d.output
MlpRefused    == d.act # "silu"
MoeRefused    == d.tp > NumExperts \/ d.act # "silu" \/ GateRefused
Refused(l) ==
    \/ Geo(l).heads % d.tp # 0
    \/ OutputRefused
    \/ IF IsMoeLayer(l) THEN MoeRefused ELSE MlpRefused

\* MiMoV2FlashDecoderLayer.__init__ for the next layer of the stage.
BuildLayer ==
    /\ phase = "build" /\ Own \ DOMAIN layers # {}
    /\ LET l == CHOOSE l \in Own \ DOMAIN layers :
                  \A m \in Own \ DOMAIN layers : l <= m
       IN  IF Refused(l)
             THEN phase' = "raised" /\ UNCHANGED <<layers, headSizeV>>
             ELSE /\ layers' = With(layers, l, [attn |-> Attn(l)])
                  /\ headSizeV' = IF Backend(l) = "default" THEN headSizeV
                                  ELSE [headSizeV EXCEPT ![Backend(l)] = Geo(l).vd]
                  /\ UNCHANGED phase
    /\ UNCHANGED <<d, loadVars, fwd>>

\* The parameters of a layer...
AttnParams(l) ==
    {"qkv_proj.weight", "o_proj.weight"}
      \cup (IF d.style \in {"fp8", "torn"} THEN {"qkv_proj.weight_scale_inv"} ELSE {})
      \cup (IF Geo(l).sink THEN {"attention_sink_bias"} ELSE {})
MlpParams(l) ==
    IF IsMoeLayer(l) THEN {"gate.weight", "gate.e_score_correction_bias",
                           "experts.w13_weight", "experts.w2_weight"}
    ELSE {"gate_up_proj.weight", "down_proj.weight"}
NormParams == {"input_layernorm.weight", "post_attention_layernorm.weight"}
LayerParams(l) == {Plain(l, k) : k \in AttnParams(l) \cup MlpParams(l) \cup NormParams}
\* ... and those at the ends of the pipeline: the embedding, which the last stage holds
\* too when the head is tied to it, the last norm, and the head.
Embeds == d.stage = 0 \/ (d.tied /\ d.stage = d.pp - 1)
EndParams ==
    (IF Embeds THEN {Plain(-1, "embed_tokens.weight")} ELSE {})
      \cup (IF d.stage = d.pp - 1 THEN {Plain(-1, "norm.weight")} ELSE {})
HeadParams == IF d.stage = d.pp - 1 THEN {Plain(-1, "lm_head.weight")} ELSE {}
OwnParams == UNION {LayerParams(l) : l \in Own}
ParamNames == OwnParams \cup EndParams \cup HeadParams

\* The end of construction: params_dict, nothing loaded yet.
StartLoading ==
    /\ phase = "build" /\ Own \subseteq DOMAIN layers
    /\ phase' = "load"
    /\ params' = [n \in ParamNames |-> << >>]
    /\ file' = 1 /\ todo' = Files[d.style][1]
    /\ UNCHANGED <<buildVars, pending, loaded, fwd>>

-----------------------------------------------------------------------------
(* load_weights *)

\* is_pp_missing_parameter
PPMissing(n) ==
    IF n.layer # -1 THEN n.layer \notin Own
    ELSE \/ n.key = "embed_tokens.weight" /\ ~Embeds
         \/ n.key \in {"norm.weight", "lm_head.weight"} /\ d.stage # d.pp - 1

Ignored(n) == n.key \in {"rotary_emb.inv_freq", "rotary_emb.cos_cached",
                         "rotary_emb.sin_cached", "mtp"}

\* get_expert_mapping: parameter and shard of an expert's tensor.
ExpertShard ==
    [key \in {"gate_proj.weight", "up_proj.weight", "down_proj.weight"} |->
       CASE key = "gate_proj.weight" -> <<"experts.w13_weight", "w1">>
         [] key = "up_proj.weight"   -> <<"experts.w13_weight", "w3">>
         [] key = "down_proj.weight" -> <<"experts.w2_weight", "w2">>]
ExpertTarget(n) == Plain(n.layer, ExpertShard[n.key][1])
IsExpert(n) ==
    /\ n.expert # -1 /\ n.key \in DOMAIN ExpertShard
    /\ ~PPMissing(n) /\ ExpertTarget(n) \in DOMAIN params

\* stacked_params_mapping.  A name matches by substring: the fused qkv_proj contains
\* v_proj, and becomes a name nobody has.
StackedShard ==
    [key \in {"q_proj.weight", "k_proj.weight", "v_proj.weight", "qkv_proj.weight",
              "gate_proj.weight", "up_proj.weight"} |->
       CASE key = "q_proj.weight"    -> <<"qkv_proj.weight", "q">>
         [] key = "k_proj.weight"    -> <<"qkv_proj.weight", "k">>
         [] key = "v_proj.weight"    -> <<"qkv_proj.weight", "v">>
         [] key = "qkv_proj.weight"  -> <<"qkqkv_proj.weight", "v">>
         [] key = "gate_proj.weight" -> <<"gate_up_proj.weight", "0">>
         [] key = "up_proj.weight"   -> <<"gate_up_proj.weight", "1">>]
StackedTarget(n) == Name(n.layer, StackedShard[n.key][1], n.expert)
IsStacked(n) ==
    /\ n.key \in DOMAIN StackedShard
    /\ ~PPMissing(n) /\ StackedTarget(n) \in DOMAIN params

IsFp8Qkv(n) ==
    \/ n.key = "qkv_proj.weight" /\ d.style \in {"fp8", "torn"}
    \/ n.key = "qkv_proj.weight_scale_inv"

\* What the weight loaders store: who it came from, and whose shard it is.
FromRank(n) == [of |-> n.key, expert |-> n.expert, rank |-> d.rank]

Put(name, part, value) ==
    /\ params' = [params EXCEPT ![name] = With(@, part, value)]
    /\ loaded' = loaded \cup {name}

\* FusedMoE's loader copies an expert of this rank, and ignores the others.
LocalExpert(e) == e \div (NumExperts \div d.tp) = d.rank
LoadExpert(n) ==
    /\ IsExpert(n)
    /\ IF LocalExpert(n.expert)
         THEN Put(ExpertTarget(n), <<ExpertShard[n.key][2], n.expert>>, FromRank(n))
         ELSE loaded' = loaded \cup {ExpertTarget(n)} /\ UNCHANGED params
    /\ UNCHANGED <<pending, phase>>

\* The geometry of layer l's fused tensors as they lie in the checkpoint.
Fused(l) ==
    LET rows == FusedRows(Geo(l))
        chunk == CeilDivide(rows \div CkptTP, Block) * CkptTP
    IN  [heads |-> Geo(l).heads, kv |-> Geo(l).kv, hd |-> Geo(l).hd, vd |-> Geo(l).vd,
         tp |-> d.tp, ckpt |-> CkptTP, block |-> Block, rows |-> rows,
         chunked |-> d.scales = "chunked",
         srows |-> CASE d.scales = "chunked" -> chunk
                     [] d.scales = "grid" -> CeilDivide(rows, Block)
                     [] d.scales = "bad" -> chunk + 1]

\* tensor[: param.shape[0]]
Cut(tensor, len) == [i \in {j \in DOMAIN tensor : j < len} |-> tensor[i]]

\* Fault: one entry for the tensors of all layers.
SharedEntry(l) == UNION {pending[m] : m \in DOMAIN pending}

\* The layer's entry of fp8_qkv_proj_dict.
Entry(l) == pending[l]

\* _try_load_fp8_qkv_proj: keep the tensor until its partner comes, then shard both.
LoadFp8Qkv(n) ==
    LET l == n.layer
        entry  == Entry(l) \cup {n}
        weight == Plain(l, "qkv_proj.weight")
        scale  == Plain(l, "qkv_proj.weight_scale_inv")
        g == Fused(l)
    IN  /\ ~IsExpert(n) /\ IsFp8Qkv(n)
        /\ IF PPMissing(n) THEN UNCHANGED <<pending, params, loaded, phase>>
           ELSE IF {m.key : m \in entry} # {weight.key, scale.key}
             THEN /\ pending' = [pending EXCEPT ![l] = entry]
                  /\ UNCHANGED <<params, loaded, phase>>
           ELSE IF ~Accepts(g)
             THEN phase' = "raised" /\ UNCHANGED <<pending, params, loaded>>
           ELSE /\ pending' = [pending EXCEPT ![l] = {}]
                /\ params' = [params EXCEPT
                     ![weight] = With(<< >>, "all",
                        [of |-> entry, rows |-> Cut(ShardWeight(g, d.rank), RankRows(g))]),
                     ![scale]  = With(<< >>, "all",
                        [of |-> entry, rows |-> Cut(ShardScales(g, d.rank),
                                                    CeilDivide(RankRows(g), Block))])]
                /\ loaded' = loaded \cup {weight, scale}
                /\ UNCHANGED phase

LoadStacked(n) ==
    /\ ~IsExpert(n) /\ ~IsFp8Qkv(n) /\ IsStacked(n)
    /\ Put(StackedTarget(n), StackedShard[n.key][2], FromRank(n))
    /\ UNCHANGED <<pending, phase>>

\* Fault: every rank takes the first heads' sinks.
FirstSinks(l) == [i \in 0 .. Geo(l).heads \div d.tp - 1 |-> i]

\* The rank's part of a layer's sinks, by head.
NarrowSinks(l) ==
    [i \in 0 .. Geo(l).heads \div d.tp - 1 |-> d.rank * (Geo(l).heads \div d.tp) + i]

LoadPlain(n) ==
    /\ ~IsExpert(n) /\ ~IsFp8Qkv(n) /\ ~IsStacked(n)
    /\ IF n \in DOMAIN params
         THEN Put(n, "all", IF n.key = "attention_sink_bias" THEN NarrowSinks(n.layer)
                            ELSE FromRank(n))
         ELSE UNCHANGED <<params, loaded>>
    /\ UNCHANGED <<pending, phase>>

\* One turn of the loop.
Yield(n) ==
    /\ phase = "load" /\ n \in todo
    /\ \/ Ignored(n) /\ UNCHANGED <<pending, params, loaded, phase>>
       \/ ~Ignored(n) /\ LoadExpert(n)
       \/ ~Ignored(n) /\ LoadFp8Qkv(n)
       \/ ~Ignored(n) /\ LoadStacked(n)
       \/ ~Ignored(n) /\ LoadPlain(n)
    /\ todo' = todo \ {n}
    /\ UNCHANGED <<buildVars, file, fwd>>

NextFile ==
    /\ phase = "load" /\ todo = {} /\ file < Len(Files[d.style])
    /\ file' = file + 1 /\ todo' = Files[d.style][file + 1]
    /\ UNCHANGED <<buildVars, phase, pending, params, loaded, fwd>>

\* The dictionary of pending tensors is a local of load_weights.
EndLoading ==
    /\ phase = "load" /\ todo = {} /\ file = Len(Files[d.style])
    /\ phase' = "forward"
    /\ pending' = [l \in DOMAIN pending |-> {}]
    /\ UNCHANGED <<buildVars, file, todo, params, loaded, fwd>>

-----------------------------------------------------------------------------
(* The forward pass.  hidden is the tensor a sublayer left, residual the sum of  *)
(* those before it (None is the empty sum), rows the order of the tokens.        *)

NoPass == [stage |-> 0, at |-> 0, entered |-> FALSE, hidden |-> "none",
           residual |-> << >>, inputs |-> << >>, aux |-> << >>, rows |-> << >>,
           out |-> << >>]

\* _maybe_add_hidden_state under index i.
AuxAdd(aux, i, hidden, residual) ==
    IF i \in AuxLayers THEN Append(aux, <<i, Append(residual, hidden)>>) ELSE aux

\* Fault: a stage behind the first begins with no residual.
NoResidualFromStage(stage, residual) == << >>

\* intermediate_tensors["residual"], or None on the first rank.
ResidualFrom(stage, residual) == IF stage = 0 THEN << >> ELSE residual

\* MiMoV2Model.forward up to the loop.
EnterStage ==
    /\ phase = "forward" /\ ~fwd.entered
    /\ LET hidden   == IF fwd.stage = 0 THEN "embed" ELSE fwd.hidden
           residual == ResidualFrom(fwd.stage, fwd.residual)
           start    == fwd.stage * (NumLayers \div d.pp)
       IN  fwd' = [fwd EXCEPT !.entered = TRUE, !.at = start,
                     !.hidden = hidden, !.residual = residual,
                     !.rows = IF fwd.stage = 0 THEN [t \in 1 .. Tokens |-> t] ELSE @,
                     !.aux = AuxAdd(<< >>, start, hidden, residual)]
    /\ UNCHANGED <<buildVars, phase, loadVars>>

\* MiMoV2MoE.forward with sequence parallelism: every rank takes its part of the
\* padded rows, all parts are gathered and the padding is cut off.
Chunk(rows, rank) ==
    LET n == CeilDivide(Len(rows), d.tp)
    IN  [j \in 1 .. n |-> IF rank * n + j <= Len(rows) THEN rows[rank * n + j] ELSE 0]
Gathered(rows) ==
    LET n == CeilDivide(Len(rows), d.tp)
    IN  [i \in 1 .. n * d.tp |-> Chunk(rows, (i - 1) \div n)[((i - 1) % n) + 1]]
MoeRows(rows) ==
    IF d.seqParallel THEN SubSeq(Gathered(rows), 1, Len(rows)) ELSE rows

Attention(l) == <<"attn", l>>
Mlp(l) == <<"mlp", l>>

\* One layer: norm, attention, norm, MLP, each norm adding to the residual.
LayerForward ==
    /\ phase = "forward" /\ fwd.entered /\ fwd.at \in StageLayers(fwd.stage)
    /\ LET l == fwd.at
           before == Append(fwd.residual, fwd.hidden)
           after  == Append(before, Attention(l))
           i == l - fwd.stage * (NumLayers \div d.pp)
       IN  fwd' = [fwd EXCEPT !.at = l + 1, !.hidden = Mlp(l), !.residual = after,
                     !.inputs = Append(Append(@, <<Attention(l), before>>),
                                       <<Mlp(l), after>>),
                     !.rows = IF IsMoeLayer(l) THEN MoeRows(@) ELSE @,
                     !.aux = AuxAdd(@, i + 1, Mlp(l), after)]
    /\ UNCHANGED <<buildVars, phase, loadVars>>

\* The end of a stage: hand over, or the last norm.
LeaveStage ==
    /\ phase = "forward" /\ fwd.entered /\ fwd.at \notin StageLayers(fwd.stage)
    /\ IF fwd.stage < d.pp - 1
         THEN /\ fwd' = [fwd EXCEPT !.stage = @ + 1, !.entered = FALSE]
              /\ UNCHANGED phase
         ELSE /\ fwd' = [fwd EXCEPT !.out = Append(fwd.residual, fwd.hidden)]
              /\ phase' = "done"
    /\ UNCHANGED <<buildVars, loadVars>>

-----------------------------------------------------------------------------
Init ==
    /\ d \in Deployments
    /\ phase = "build" /\ layers = << >>
    /\ headSizeV = [b \in {"FA", "TRITON"} |-> 0]
    /\ file = 0 /\ todo = {}
    /\ pending = [l \in 0 .. NumLayers - 1 |-> {}]
    /\ params = << >> /\ loaded = {}
    /\ fwd = NoPass

Next ==
    \/ BuildLayer \/ StartLoading
    \/ \E n \in todo : Yield(n)
    \/ NextFile \/ EndLoading
    \/ EnterStage \/ LayerForward \/ LeaveStage

Spec == Init /\ [][Next]_vars

-----------------------------------------------------------------------------
(* Properties *)

Has(l, key) == Plain(l, key) \in DOMAIN params /\ "all" \in DOMAIN params[Plain(l, key)]
Part(l, key) == params[Plain(l, key)]["all"]
Fp8Loaded == {l \in Own : d.style \in {"fp8", "torn"} /\ Has(l, "qkv_proj.weight")}

\* Row x of the local head h, as forward() splits the projection: a query head is
\* the rank's own, and a key or value head is the one that the query heads of its
\* local group attend to, also when ranks replicate it.
OwnHead(l, src, i) ==
    LET g == Fused(l)
        a == layers[l].attn
        group == a.numHeads \div a.numKvHeads
        want  == CkptRow(g, src)
        q == d.rank * a.numHeads
        k == i - a.numHeads * g.hd
        v == k - a.numKvHeads * g.hd
        Attends(local) == {(q + h) \div (g.heads \div g.kv) :
                             h \in local * group .. (local + 1) * group - 1}
    IN  IF i < a.numHeads * g.hd THEN want = Row("q", q + i \div g.hd, i % g.hd)
        ELSE IF v < 0
          THEN want.kind = "k" /\ want.x = k % g.hd /\ Attends(k \div g.hd) = {want.head}
        ELSE want.kind = "v" /\ want.x = v % g.vd /\ Attends(v \div g.vd) = {want.head}

\* A row is worth its fp8 value times its scale: either both are the checkpoint's,
\* or the row was dequantised with the checkpoint's scale and the new scale covers
\* the rows of its block.
OwnScale(l, w, s, i) ==
    LET g == Fused(l)
        b == i \div Block
    IN  IF w[i].deq = NoScale THEN s[b].src = CkptScale(g, w[i].src)
        ELSE /\ w[i].deq = CkptScale(g, w[i].src)
             /\ s[b].src = NoScale
             /\ s[b].over = {j \in DOMAIN w : j \div Block = b}

\* The fused QKV projection of a rank holds exactly the rows that its attention
\* layer splits it into, each with its own scale and both from this layer's tensors,
\* whatever the order in which they were read, whatever the number of ranks, kv
\* heads and chunks and however the scales are tiled (_shard_fp8_qkv_proj).
QkvRowsOwn ==
    \A l \in Fp8Loaded :
      LET w == Part(l, "qkv_proj.weight").rows
          s == Part(l, "qkv_proj.weight_scale_inv").rows
          a == layers[l].attn
      IN  /\ Part(l, "qkv_proj.weight").of =
                {Plain(l, "qkv_proj.weight"), Plain(l, "qkv_proj.weight_scale_inv")}
          /\ DOMAIN w = 0 .. a.numHeads * Geo(l).hd
                             + a.numKvHeads * (Geo(l).hd + Geo(l).vd) - 1
          /\ \A i \in DOMAIN w : OwnHead(l, w[i].src, i) /\ OwnScale(l, w, s, i)

\* The parts a parameter must have before it is whole, and where each comes from.
Parts(n) ==
    CASE n.key = "gate_up_proj.weight" -> {"0", "1"}
      [] n.key = "qkv_proj.weight" /\ d.style = "split" -> {"q", "k", "v"}
      [] n.key = "experts.w13_weight" ->
           {"w1", "w3"} \X {e \in 0 .. NumExperts - 1 : LocalExpert(e)}
      [] n.key = "experts.w2_weight" ->
           {"w2"} \X {e \in 0 .. NumExperts - 1 : LocalExpert(e)}
      [] OTHER -> {"all"}

\* Loading does not depend on the order in which the checkpoint yields its tensors:
\* weight and scale of a fused projection arrive in the layer together or not at
\* all; what load_weights reports as loaded has been written, and at the end every
\* parameter of the rank is whole except a projection whose partner is missing from
\* the checkpoint, which is never reported; the sinks are those of the rank's own
\* query heads; and each attention backend ends with the value head size of the
\* layers that use it.
OrderIndependentLoad ==
    /\ \A l \in Own : phase = "load" /\ d.style = "fp8" =>
         (Has(l, "qkv_proj.weight") <=> Has(l, "qkv_proj.weight_scale_inv"))
    /\ \A l \in Own : phase \in {"load", "forward"} /\ Has(l, "attention_sink_bias") =>
         \A i \in 0 .. layers[l].attn.numHeads - 1 :
           Part(l, "attention_sink_bias")[i] = d.rank * layers[l].attn.numHeads + i
    /\ phase = "forward" =>
         \A n \in DOMAIN params :
           /\ n \in loaded <=> DOMAIN params[n] = Parts(n)
           /\ n \notin loaded => d.style = "torn" /\ params[n] = << >>
    /\ phase = "forward" =>
         \A l \in DOMAIN layers :
           LET a == layers[l].attn IN
             a.backend # "default" => headSizeV[a.backend] = a.vd

\* The order of the sublayers in a model that is not split into stages.
Sublayers(l) ==
    <<"embed">> \o [i \in 1 .. 2 * l |-> IF i % 2 = 1 THEN Attention((i - 1) \div 2)
                                         ELSE Mlp((i - 1) \div 2)]

\* However the layers are cut into pipeline stages, every sublayer is given the sum
\* of the embedding and of all sublayers before it, each added once; the last norm
\* is given all of them; and the tokens leave in the order they came, also when each
\* rank computes the experts of its own part of the rows.
StagesCompose ==
    /\ phase = "forward" =>
         \A j \in DOMAIN fwd.inputs :
           LET l == fwd.inputs[j][1][2]
               all == Sublayers(l + 1)
           IN  fwd.inputs[j][2] =
                 IF fwd.inputs[j][1] = Attention(l) THEN Sublayers(l)
                 ELSE SubSeq(all, 1, Len(all) - 1)
    /\ phase = "done" =>
         /\ fwd.out = Sublayers(NumLayers)
         /\ fwd.rows = [t \in 1 .. Tokens |-> t]
         /\ d.pp = 1 => \A j \in DOMAIN fwd.aux :
                          fwd.aux[j][2] = Sublayers(fwd.aux[j][1])
=============================================================================
