CONSTANTS
    Events = {e1, e2}
    Kinds = {"TurnEnd", "Terminal"}
    MaxPermits = 1
    MaxDeletes = 0
    MaxFaults = 1
SPECIFICATION FairSpec
PROPERTIES ScansNeverHoldRpc ScansEnd
CHECK_DEADLOCK FALSE
