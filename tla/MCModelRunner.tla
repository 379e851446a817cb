---------------------------- MODULE MCModelRunner ----------------------------
(***************************************************************************)
(* Values for ModelRunner: a prompt long enough to be run in chunks, and    *)
(* short ones that verify drafts next to it.                                *)
(***************************************************************************)
EXTENDS ModelRunner

MCPromptLen == [r \in Req |-> IF r = 1 THEN MaxLen - 1 ELSE 1]
=============================================================================
