SPECIFICATION Spec
CONSTANTS
    MAX_SPARKLINE_CELLS = 3
    Hits = {p}
    Written = {"shell", "shell_output", "adjudicated", "message_scan", "digest"}
    Calls = {c1}
    Found = {p}
    Times = {1, 2}
    MaxRows = 3
    MaxScans = 1
INVARIANTS
    VerdictsReachTheirRows
    SameTreeAsPage
CHECK_DEADLOCK FALSE
