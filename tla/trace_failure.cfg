SPECIFICATION TraceSpec
CONSTANTS
    Req = {"a", "other"}
    Prompt <- MCPrompt
    Configs <- MCAnyConfigs
    Torn = Torn
    NumDrafts = 1
    Slack = 2
    MaxOut = 2
    MaxEdits = 1
    MaxPreempts = 1
    MaxChunks = 1
INVARIANTS
    DiagnosticsNeverFailRequests
\* The engine stops on an exception, and when every request is done.
CHECK_DEADLOCK FALSE
