----------------------------- MODULE MCMimoModel -----------------------------
(***************************************************************************)
(* Values for MimoModel: a full-attention dense layer and a sliding-window  *)
(* MoE layer.  Four query heads over two kv heads in two chunks of eleven   *)
(* rows (five and a half blocks), and over four kv heads in two chunks of   *)
(* sixteen rows (whole blocks), as the recipe's 3392 and 3712 rows; one, as *)
(* many, and twice as many ranks as chunks.  In file order the two parts of *)
(* a projection are found in one file, in either order, and in two files.   *)
(***************************************************************************)
EXTENDS MimoModel, TLC

MCPattern == 0 :> 0 @@ 1 :> 1
MCMoeFreq == 0 :> FALSE @@ 1 :> TRUE
MCGeometry == [ga  |-> [heads |-> 4, kv |-> 2, hd |-> 3, vd |-> 2, sink |-> FALSE],
               swa |-> [heads |-> 4, kv |-> 4, hd |-> 3, vd |-> 2, sink |-> TRUE]]

Usual(tp, rank, pp, stage, scales, style, sp) ==
    [tp |-> tp, rank |-> rank, pp |-> pp, stage |-> stage, act |-> "silu",
     router |-> TRUE, output |-> TRUE, backend |-> "none", faSinks |-> FALSE,
     fa |-> TRUE, seqParallel |-> sp, tied |-> FALSE, scales |-> scales, style |-> style]

RankOf == {<<tp, r>> \in {1, 2, 4} \X (0 .. 3) : r < tp}
StageOf == {<<pp, s>> \in {1, 2} \X (0 .. 1) : s < pp}
MCDeployments ==
    {Usual(t[1], t[2], p[1], p[2], s, "fp8", t[1] = 2) :
       t \in RankOf, p \in StageOf, s \in {"chunked", "grid", "bad"}}
    \cup {Usual(t[1], t[2], 1, 0, "chunked", y, FALSE) :
            t \in RankOf, y \in {"split", "bf16", "torn"}}
    \cup {[Usual(2, 1, 1, 0, "chunked", "fp8", FALSE) EXCEPT !.act = "gelu"],
          [Usual(2, 1, 1, 0, "chunked", "fp8", FALSE) EXCEPT !.router = FALSE],
          [Usual(2, 1, 1, 0, "chunked", "fp8", FALSE) EXCEPT !.output = FALSE],
          [Usual(2, 1, 1, 0, "chunked", "fp8", FALSE) EXCEPT !.backend = "TRITON"]}
    \cup {[Usual(2, 1, 2, s, "chunked", "fp8", FALSE) EXCEPT !.tied = TRUE] : s \in {0, 1}}

W(l) == Plain(l, "qkv_proj.weight")
S(l) == Plain(l, "qkv_proj.weight_scale_inv")
Ends == {Plain(-1, "embed_tokens.weight"), Plain(-1, "norm.weight"),
         Plain(-1, "lm_head.weight")}
          \cup {Plain(l, k) : l \in {0, 1}, k \in {"input_layernorm.weight",
                                               "post_attention_layernorm.weight"}}
Others0 == {Plain(0, k) : k \in {"gate_proj.weight", "up_proj.weight",
                                 "down_proj.weight", "o_proj.weight"}}
Others1 == {Plain(1, "gate.weight"), Plain(1, "gate.e_score_correction_bias"),
            Plain(1, "o_proj.weight"),
            Plain(1, "rotary_emb.inv_freq"), Plain(-1, "mtp")}
Experts(k) == {Name(1, k, e) : e \in 0 .. 3}
RestOf == <<Others0, Others1, Experts("gate_proj.weight"), Experts("up_proj.weight"),
          Experts("down_proj.weight"), Ends>>
MCFiles ==
    [fp8 |-> <<{W(0), S(0), W(1)}, {Plain(1, "attention_sink_bias"), S(1)}>> \o RestOf,
     torn |-> <<{W(0), S(0), W(1)}, {Plain(1, "attention_sink_bias")}>> \o RestOf,
     split |-> <<{Plain(0, k) : k \in {"q_proj.weight", "k_proj.weight", "v_proj.weight"}},
                 {Plain(1, k) : k \in {"q_proj.weight", "k_proj.weight", "v_proj.weight",
                                       "attention_sink_bias"}}>> \o RestOf,
     bf16 |-> <<{W(0), W(1), Plain(1, "attention_sink_bias")}>> \o RestOf]
=============================================================================
