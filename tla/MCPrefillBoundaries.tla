------------------------- MODULE MCPrefillBoundaries -------------------------
(***************************************************************************)
(* A forward of attention and a collective.  Two attention layers' wrapped  *)
(* boundaries are methods of one object, and every object may or may not    *)
(* hold the method as an attribute of its own.                              *)
(***************************************************************************)
EXTENDS PrefillBoundaries

MCSites == <<"attention0", "attention1", "collective">>
MCObject == [w \in {"attention0", "attention1", "collective"} |->
               IF w = "collective" THEN "group" ELSE "impl"]
MCPre == [w \in {"attention0", "attention1", "collective"} |->
            IF w = "attention0" THEN <<"q0">> ELSE <<>>]
MCPost == [w \in {"attention0", "attention1", "collective"} |->
             CASE w = "attention0" -> <<"o0">>
               [] w = "attention1" -> <<"o1">>
               [] w = "collective" -> <<"out">>]
MCCost == [s \in {"q0", "o0", "o1", "out"} |-> IF s = "o1" THEN 3 ELSE 1]
MCCalls == <<"impl", "group", "group">>
MCAnyOwn == [Objects -> BOOLEAN]
=============================================================================
