CONSTANTS
    Events = {e1, e2, e3}
    Times = {1, 2, 3}
    CHANNEL_CAPACITY = 1
SPECIFICATION FairSpec
INVARIANTS NoRowSkipped
PROPERTIES EveryRowDelivered
CHECK_DEADLOCK FALSE
