SPECIFICATION Spec
CONSTANTS
    NumLayers = 2
    HybridPattern <- MCPattern
    MoeFreq <- MCMoeFreq
    Geometry <- MCGeometry
    CkptTP = 2
    Block = 2
    NumExperts = 4
    AuxLayers = {0, 1, 2}
    Tokens = 3
    Deployments <- MCDeployments
    Files <- MCFiles
INVARIANTS
    QkvRowsOwn
    OrderIndependentLoad
    StagesCompose
\* A rank stops when its pass is done, and when it refuses to be built or loaded.
CHECK_DEADLOCK FALSE
