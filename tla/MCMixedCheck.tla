---------------------------- MODULE MCMixedCheck ----------------------------
(***************************************************************************)
(* One stage of each kind, the mixed one last as in the default order.      *)
(***************************************************************************)
EXTENDS MixedCheck

MCStages == <<"plain", "mixed">>
=============================================================================
