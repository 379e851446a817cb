------------------------------- MODULE Launch -------------------------------
(***************************************************************************)
(* scripts/launch.py --execute: operators start the ranks of one recipe,    *)
(* each with a process of its own that validates the configuration, checks  *)
(* the machine it is on and starts a container.  Launches of the same or of *)
(* other ranks may run at once, on the right machine or a wrong one.        *)
(* Containers end and are removed, and other programs use the GPU; a new    *)
(* container holds the GPU only once it has begun to load.                  *)
(***************************************************************************)
EXTENDS Integers, Sequences, FiniteSets, Functions

CONSTANTS
    Machine,     \* the Sparks
    Address,     \* Address[m]: addresses of the socket interface
    HostLists,   \* what config['hosts'] may be
    NumRanks,    \* ranks of the recipe (8)
    Operator,    \* launches that may run at once
    MaxLaunches  \* bound: launches

\* An address belongs to one machine, and only one of a machine's is configured.
ASSUME LaunchAssumption ==
    /\ NumRanks \in Nat \ {0} /\ MaxLaunches \in Nat
    /\ \A h \in HostLists : h \in Seq(Range(h))
    /\ \A m, n \in Machine : m # n => Address[m] \cap Address[n] = {}
    /\ \A h \in HostLists, m \in Machine : Cardinality(Range(h) \cap Address[m]) <= 1

VARIABLES
    hosts,       \* config['hosts'], the same in every launch
    launcher,    \* launcher[o]: the launch in progress: where it is, machine, rank
    container,   \* container[m][r]: the container of that name on m
    foreign,     \* foreign[m]: another compute process on m, "early" if no launch
                 \* or rank on m had found the GPU idle when it began
    launches     \* launches begun

launchVars == <<hosts, launcher, container, foreign, launches>>

Rank == 0 .. (NumRanks - 1)
Idle == [at |-> "idle", machine |-> CHOOSE m \in Machine : TRUE, rank |-> 0]
Live == {"starting", "computing"}

LaunchInit ==
    /\ hosts \in HostLists
    /\ launcher = [o \in Operator |-> Idle]
    /\ container = [m \in Machine |-> [r \in Rank |-> "none"]]
    /\ foreign = [m \in Machine |-> "none"]
    /\ launches = 0

\* Fault: an address may be given to two ranks.
RepeatedHosts(h) == Len(h) = NumRanks

ValidHosts(h) == Len(h) = NumRanks /\ Cardinality(Range(h)) = NumRanks

\* command: a launch with an invalid configuration or rank ends here.
Command(o) ==
    /\ launcher[o] = Idle /\ launches < MaxLaunches
    /\ \E m \in Machine, r \in 0 .. NumRanks :
         launcher' = [launcher EXCEPT ![o] =
             IF ValidHosts(hosts) /\ r \in Rank
             THEN [at |-> "command", machine |-> m, rank |-> r] ELSE Idle]
    /\ launches' = launches + 1
    /\ UNCHANGED <<hosts, container, foreign>>

\* Fault: any configured address will do.
OnAnyHost(m, r) == Range(hosts) \cap Address[m] # {}

OnItsHost(m, r) == hosts[r + 1] \in Address[m]

\* preflight up to the RDMA devices: the network may still be the example's, the model
\* incomplete, the address another machine's, a device inactive.
CheckHost(o) ==
    /\ launcher[o].at = "command"
    /\ \E ok \in BOOLEAN :
         launcher' = [launcher EXCEPT ![o] =
             IF ok /\ OnItsHost(@.machine, @.rank) THEN [@ EXCEPT !.at = "host"] ELSE Idle]
    /\ UNCHANGED <<hosts, container, foreign, launches>>

\* Fault: only the recipe's own containers count.
BusyWithRanks(m) == \E r \in Rank : container[m][r] = "computing"

Busy(m) == foreign[m] # "none" \/ \E r \in Rank : container[m][r] = "computing"

\* preflight asks for the GPU's compute processes.
LookAtGpu(o) ==
    /\ launcher[o].at = "host"
    /\ launcher' = [launcher EXCEPT ![o] =
           IF Busy(@.machine) THEN Idle ELSE [@ EXCEPT !.at = "preflight"]]
    /\ UNCHANGED <<hosts, container, foreign, launches>>

\* docker run --name refuses a name that is taken, also by a stopped container.
Run(o) ==
    /\ launcher[o].at = "preflight"
    /\ launcher' = [launcher EXCEPT ![o] = Idle]
    /\ LET l == launcher[o]
       IN  container' = IF container[l.machine][l.rank] = "none"
                        THEN [container EXCEPT ![l.machine][l.rank] = "starting"]
                        ELSE container
    /\ UNCHANGED <<hosts, foreign, launches>>

\* The container begins to load, ends (--restart no), and is removed by an operator.
Container ==
    /\ \E m \in Machine, r \in Rank : \E s \in {"none", "computing", "stopped"} :
         /\ <<container[m][r], s>> \in
              {<<"starting", "computing">>, <<"starting", "stopped">>,
               <<"computing", "stopped">>, <<"stopped", "none">>}
         /\ container' = [container EXCEPT ![m][r] = s]
    /\ UNCHANGED <<hosts, launcher, foreign, launches>>

\* A machine somebody has found idle for a rank, or where a rank runs.
Claimed(m) ==
    \/ \E o \in Operator : launcher[o].at = "preflight" /\ launcher[o].machine = m
    \/ \E r \in Rank : container[m][r] \in Live

Foreign ==
    /\ \E m \in Machine :
         foreign' = [foreign EXCEPT ![m] =
             IF @ # "none" THEN "none" ELSE IF Claimed(m) THEN "late" ELSE "early"]
    /\ UNCHANGED <<hosts, launcher, container, launches>>

LaunchNext ==
    \/ \E o \in Operator : Command(o) \/ CheckHost(o) \/ LookAtGpu(o) \/ Run(o)
    \/ Container \/ Foreign

LaunchSpec == LaunchInit /\ [][LaunchNext]_launchVars

-----------------------------------------------------------------------------
\* "The recipe uses one rank per Spark": whatever is launched where and how often,
\* a machine runs at most the one rank whose address it has, and only a program that
\* began after the launcher found the GPU idle shares the GPU with it.  A container
\* that is still starting does not hold the GPU, so a second launch finds it idle:
\* the addresses and the container's name have to keep the ranks apart.
RankAlone ==
    \A m \in Machine : \A r \in Rank :
        container[m][r] \in Live =>
            /\ hosts[r + 1] \in Address[m]
            /\ \A q \in Rank \ {r} : container[m][q] \notin Live
            /\ \A n \in Machine \ {m} : container[n][r] \notin Live
            /\ foreign[m] # "early"
=============================================================================
