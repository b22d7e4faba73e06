CONSTANTS
    Events = {e1, e2}
    Trajs = {t1, t2}
    Files = {f1}
    Kinds = {"Prompt", "FileResult", "Unsupported"}
    Labels = {1, 3}
    NoEvent = NoEvent
    MaxFaults = 1
SPECIFICATION FairSpec
PROPERTIES AtomicUpdates EveryCallEnds
CHECK_DEADLOCK FALSE
