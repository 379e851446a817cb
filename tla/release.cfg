SPECIFICATION MCSpec
CONSTANTS
    Entries <- MCEntries
    Original = {"runner", "attention"}
    MaxRuns = 3
    Machine = {"head", "second", "spare"}
    Address <- MCAddress
    HostLists <- MCHostLists
    NumRanks = 2
    Operator = {"o1", "o2"}
    MaxLaunches = 4
INVARIANTS
    OutcomeIsTrue
    RankAlone
\* The installer stops after MaxRuns runs.
CHECK_DEADLOCK FALSE
