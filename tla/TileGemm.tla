------------------------------ MODULE TileGemm ------------------------------
(***************************************************************************)
(* What a Marlin MoE launch promises, whatever the number of thread blocks *)
(* and however they share the K reduction: the output tiles of a launch    *)
(* become final one at a time, each exactly once and never to change       *)
(* again, and the next launch of the stream begins only when all are.      *)
(***************************************************************************)
CONSTANT TileSets         \* the sets of output tiles a launch may have

VARIABLES tiles,          \* output tiles of the launch
          done            \* those that hold their final value

vars == <<tiles, done>>

Init ==
  /\ tiles \in TileSets
  /\ done = {}

Finish(t) ==
  /\ t \in tiles \ done
  /\ done' = done \cup {t}
  /\ UNCHANGED tiles

Launch ==
  /\ done = tiles
  /\ tiles' \in TileSets
  /\ done' = {}

Next == Launch \/ \E t \in tiles : Finish(t)

Spec == Init /\ [][Next]_vars
=============================================================================
