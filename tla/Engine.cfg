CONSTANTS
    Events = {e1, e2}
    Trajs = {t1}
    Files = {f1}
    Kinds = {"Started", "Lifecycle", "Prompt", "ToolCall", "Output", "Unsupported",
             "ShellCommand", "WebFetch", "FileRead", "FileWrite", "FileDelete",
             "FileResult"}
    Labels = {1, 3}
    NoEvent = NoEvent
    MaxFaults = 1
SPECIFICATION Spec
INVARIANTS HighWaterMark NoStepLost
    RefusedBodyNotStored LedgersAgree AnsweredIsRecorded
PROPERTIES LabelFallsOnlyOnStarted EgressSeesHighWaterMark
SYMMETRY EventSymmetry
CHECK_DEADLOCK FALSE
