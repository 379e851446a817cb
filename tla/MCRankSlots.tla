----------------------------- MODULE MCRankSlots -----------------------------
(***************************************************************************)
(* Model values for RankSlots: two interchangeable ranks.                   *)
(***************************************************************************)
EXTENDS RankSlots

RankSymmetry == Permutations(Ranks)
=============================================================================
