CONSTANTS
    Events = {e1, e2}
    Trajs = {t1}
    Files = {f1}
    Kinds = {"Started", "Output", "WebFetch"}
    Labels = {3}
    NoEvent = NoEvent
    MaxFaults = 0
SPECIFICATION FairSpec
PROPERTIES LabelNeverFalls
CHECK_DEADLOCK FALSE
