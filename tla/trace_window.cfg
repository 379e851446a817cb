SPECIFICATION TraceSpec
CONSTANTS
    Req = {"a", "other"}
    Prompt <- MCPrompt
    Configs <- MCConfigs
    Torn = Torn
    NumDrafts = 2
    Slack = 3
    MaxOut = 4
    MaxEdits = 1
    MaxPreempts = 1
    MaxChunks = 1
INVARIANTS
    WindowCovered
\* The engine stops on an exception, and when every request is done.
CHECK_DEADLOCK FALSE
