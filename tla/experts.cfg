SPECIFICATION MCSpec
CONSTANTS
    GlobalExperts = 3
    ExpertMap <- MCExpertMap
    CallKinds <- MCCallKinds
    MaxTokens = 3
    BlockSizes <- MCBlockSizes
    ByteBlock = 2
    N = 1
    K = 3
    Devices <- MCDevices
    RegChoices = {40, 85, 170}
    Gemms <- MCGemms
    Tokens = {1, 16, 16384}
    RowsPerToken = 8
    NumExperts = 384
    NumBits = 4
    GroupSize = 32
    Stages = 4
    Warps = 2
    SubTiles = 2
    Launches <- MCLaunches
    Formats <- MCFormats
    WordChoices <- MCWordChoices
    ScaleWords <- MCScaleWords
INVARIANTS
    CanonicalLayout
    OutputsAreLocalSums
    GridFits
    ConfigIgnoresBatch
    ProductsInOrder
    ResultIsWholeSlice
    WeightsAreExact
