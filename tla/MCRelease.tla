----------------------------- MODULE MCRelease -----------------------------
(***************************************************************************)
(* The release is installed into an image, and the image is launched; each  *)
(* part on its own, subject says which.                                     *)
(*                                                                         *)
(* InstallOverlays: two overlays that replace a file and one that adds a    *)
(* new one between.  Launch: two ranks, two launches at a time and three    *)
(* Sparks, one of which has two addresses and one no configured address;    *)
(* one list of hosts repeats an address, one is too short.                  *)
(***************************************************************************)
EXTENDS InstallOverlays, Launch

MCEntries == <<"runner", "trace", "attention">>

MCAddress == [m \in Machine |->
    CASE m = "head" -> {"10.0.0.1", "10.0.1.1"} [] m = "second" -> {"10.0.0.2"} [] m = "spare" -> {}]
MCHostLists ==
    {<<"10.0.0.1", "10.0.0.2">>, <<"10.0.0.1", "10.0.0.1">>, <<"10.0.0.1">>}

VARIABLE subject

MCInit ==
    /\ subject \in {"install", "launch"}
    /\ Init /\ LaunchInit
    /\ subject = "install" => hosts = <<"10.0.0.1", "10.0.0.2">>
    /\ subject = "launch" => \A e \in Entry : disk[e] = "missing"

MCNext ==
    /\ \/ subject = "install" /\ Next /\ UNCHANGED launchVars
       \/ subject = "launch" /\ LaunchNext /\ UNCHANGED vars
    /\ UNCHANGED subject

MCSpec == MCInit /\ [][MCNext]_<<vars, launchVars, subject>>
=============================================================================
