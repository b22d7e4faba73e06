CONSTANTS
    Events = {e1, e2}
    Kinds = {"Step", "Terminal", "ScannerOutput"}
    MaxPermits = 2
    MaxDeletes = 1
    MaxFaults = 1
SPECIFICATION Spec
INVARIANTS PermitsConserved RecordWasStored TranscriptCoversTrigger
SYMMETRY EventSymmetry
CHECK_DEADLOCK FALSE
