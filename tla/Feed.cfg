SPECIFICATION Spec
CONSTANTS
    Runs = {r1, r2}
    Agents = {a1}
    Owner <- OneOwner
    MaxWrites = 2
    MaxTroubles = 1
SYMMETRY RunSymmetry
INVARIANTS
    FeedIsCurrent
    StripsAreCurrent
CHECK_DEADLOCK FALSE
