SPECIFICATION Spec
CONSTANTS
    Runs = {"r1"}
    Sites <- MCSites
    Object <- MCObject
    Pre <- MCPre
    Post <- MCPost
    Cost <- MCCost
    MaxBytes = 6
    Calls <- MCCalls
    FirstOnly = {"collective"}
    OwnAtStart <- MCAnyOwn
    SaveTensors = TRUE
    MaxExecutes = 2
    MaxRestarts = 1
INVARIANTS
    NothingStaysWrapped
    EvidenceIsOneCall
\* The model stops after MaxExecutes calls.
CHECK_DEADLOCK FALSE
