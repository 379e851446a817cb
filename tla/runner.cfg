SPECIFICATION Spec
CONSTANTS
    NumReqs = 2
    NumSlots = 2
    NumDrafts = 2
    PromptLen <- MCPromptLen
    MaxLen = 4
    MaxPreempts = 1
INVARIANTS
    OutputsAreTargets
    CountsAreTrue
    RowsAreOwn
    SamplesLastStep
\* The engine stops on a raise, and is idle when every request is done.
CHECK_DEADLOCK FALSE
