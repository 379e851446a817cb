----------------------------- MODULE MCSpecTrace -----------------------------
(***************************************************************************)
(* A request with an allowed prompt and one without; configurations that    *)
(* differ in their window, one with a reference trace, one beyond the caps. *)
(***************************************************************************)
EXTENDS SpecTrace

Config(allowed, start, max, requests, reference) ==
    [allowed |-> allowed, start |-> start, max |-> max, requests |-> requests,
     reference |-> reference]

MCPrompt == [r \in Req |-> IF r = "other" THEN "private" ELSE "synthetic"]
MCConfigs == {Config({"synthetic"}, 0, 2, 2, TRUE), Config({"synthetic"}, 2, 1, 1, FALSE)}
MCAnyConfigs == MCConfigs \cup {Config({"synthetic"}, 0, 0, 1, FALSE)}
=============================================================================
