SPECIFICATION Spec
CONSTANTS
    Shapes <- SomeShapes
    Texts = {t1, t2}
    BatchSize = 2
    MaxShape = 4
    MaxTurns = 3
    MaxFaults = 2
INVARIANTS
    NoTailLost
    OnceWithoutFaults
SYMMETRY TextSymmetry
CHECK_DEADLOCK FALSE
