CONSTANTS
    Callers = {c1, c2}
    MaxCalls = 5
    MaxWrites = 3
    MaxTime = 3
    DEFAULT_PAGE_SIZE = 1
    MAX_PAGE_SIZE = 2
SPECIFICATION Spec
INVARIANTS
    CedarAnswersAreTrue
    ConsoleShowsTheStore
    WireKeepsMeaning
    CommandsSeen
    ReportIsRight
    ServesWhatIsConfigured
    WholeOrOpen
    HooksKeepTheContract
    SizesHold
    CommandIsOurs
CHECK_DEADLOCK FALSE
