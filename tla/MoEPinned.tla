------------------------------ MODULE MoEPinned ------------------------------
(***************************************************************************)
(* The layers the overlay replaces, as functions of a call's inputs alone:  *)
(* upstream/vllm/marlin_moe.py, whose rows may lie in any order, and        *)
(* baselines/marlin_moe.canonical.py, which sorts them but multiplies with  *)
(* the stock kernel.  What the overlay computes is stated against both.     *)
(***************************************************************************)
EXTENDS MoELayer

\* The baseline's layout: an expert's rows in ascending order, padded with Numel.
CanonicalRow(e, k) ==
    LET rows == Ascending(RowsOf(e)) IN IF k \in DOMAIN rows THEN rows[k] ELSE Numel

\* Upstream leaves row i to any block of its expert; the stock kernel's order of
\* products follows that block, the whole-K kernel's does not.
PinnedPlaces(i) == {FirstBlockOf(ExpertOf(i)) + b : b \in 0 .. BlocksOf(ExpertOf(i)) - 1}

\* Upstream's helper for one row at place p, as the standard and the batched form
\* call it.
PinnedW13(i, p) ==
    <<"w13", ExpertOf(i), p,
      IF call.byte THEN <<"quantised", <<"x", i \div call.topk>>>> ELSE <<"x", i \div call.topk>>>>
PinnedW2(i, p, hidden) ==
    <<"w2", ExpertOf(i), p, IF call.byte THEN <<"quantised", hidden>> ELSE hidden>>

PinnedBatched(i, p) == PinnedW2(i, p, <<"act", PinnedW13(i, p)>>)

\* MarlinExperts.apply with an adapter: it sees the layer's input, and the
\* activations as W2 got them before quantisation.
PinnedHidden(i, p) ==
    LET y == IF call.onInput THEN <<"weighted", i, PinnedW13(i, p)>> ELSE PinnedW13(i, p)
    IN  <<"act", IF call.lora THEN <<"adapted", "a13", y, <<"x", i \div call.topk>>>> ELSE y>>
PinnedRow(i, p) ==
    LET y == PinnedW2(i, p, PinnedHidden(i, p))
    IN  IF call.onInput THEN y ELSE <<"weighted", i, y>>
PinnedTerm(i, p) ==
    IF call.lora THEN <<"adapted", "a2", PinnedRow(i, p), PinnedHidden(i, p)>>
    ELSE PinnedRow(i, p)

-----------------------------------------------------------------------------
(* Properties *)

Laid == phase \in {"w13", "activation", "w2", "lora", "sum", "return"}

\* What the kernel is given depends on the routing alone: for each local expert
\* its rows in ascending order, then the padding, as in the canonical baseline.
\* Neither the order the aligner happened to use nor its unspecified tail shows,
\* also when a single token skips the sort or the rows come already dispatched.
CanonicalLayout ==
    Laid =>
      LET bm == BlockSizeM
      IN  /\ layout.post = FirstBlockOf(E) * bm
          /\ \A e \in 0 .. E - 1 :
               LET first == FirstBlockOf(e)
               IN  /\ \A k \in 1 .. BlocksOf(e) * bm :
                        layout.ids[first * bm + k] = CanonicalRow(e, k)
                   /\ \A b \in 1 .. BlocksOf(e) : layout.experts[first + b] = e

\* The layer's output is, for every token, the sum of its local experts' terms in
\* top-k order, or every occupied place's term when the rows come dispatched: the
\* terms upstream computes, with the order of their products independent of the
\* batch whenever the adapter takes the whole-K kernel, as it does unless the
\* activations are quantised.  No row of another token, no expert of another rank,
\* nothing that an earlier layer left in the shared workspaces, no product that
\* overwrote what a later one reads, whatever order the blocks run in.
IsTermOf(v, i) ==
    \E p \in (IF call.byte THEN PinnedPlaces(i) ELSE {AnyPlace}) :
      v = IF call.batched THEN PinnedBatched(i, p) ELSE PinnedTerm(i, p)
OutputsAreLocalSums ==
    /\ phase = "sum" =>
         \A t \in done :
           LET v == Row(ws[1], K, t)
               rows == LocalRows(t)
           IN  /\ v[1] = "sum" /\ Len(v[2]) = Len(rows)
               /\ \A j \in DOMAIN rows : IsTermOf(v[2][j], rows[j])
    /\ phase = "return" => \A i \in LocalPairs : IsTermOf(Row(ws[1], K, i), i)
=============================================================================
