SPECIFICATION LiveSpec
CONSTANTS
    Stages <- MCStages
    Timeout = 1
    Trigger = 1
INVARIANTS
    OkInTime
    MixedPassMeansOverlap
PROPERTIES
    PacketEnds
\* The program ends.
CHECK_DEADLOCK FALSE
