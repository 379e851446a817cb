SPECIFICATION RanksSpec
CONSTANTS
    NumReqs = 3
    NumSlots = 2
    Ranks = {k0, k1}
    MaxOutputs = 3
SYMMETRY RankSymmetry
INVARIANTS
    RanksAgree
    SlotsHoldLive
\* The model stops when every rank has executed the last of MaxOutputs outputs.
CHECK_DEADLOCK FALSE
