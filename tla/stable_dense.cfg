SPECIFICATION OpsSpec
CONSTANTS
    NumSMs = 3
    N = 5
    K = 5
    BlockM = 1
    LargeBlockM = 2
    Threshold = 5
    BlockN = 2
    BlockK = 2
    GroupSizeM = 2
    Configs <- MCConfigs
    MaxRows = 6
    MaxCalls = 1
    Platforms = {"sm80", "cuda", "xpu"}
    Flags = {TRUE, FALSE}
    Operations <- MCOperations
    RBlock = 2
    MaxInits = 2
INVARIANTS
    OwnProducts
    OverridesOnce
    OpsOwnElements
\* The model stops after MaxCalls calls.
CHECK_DEADLOCK FALSE
