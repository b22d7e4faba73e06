SPECIFICATION Spec
CONSTANTS
    Requests <- MCInputs
    Handler <- MCHandle
    OnFailure <- MCDegraded
    Unread <- MCUnread
    InRunLoop <- MCGuarded
    MustRefuse <- MCEnforces
    Refused <- MCBlocks
    Asked <- MCAsks
    MostCalls <- MCMostCalls
    Gating <- MCGating
    Budgets = {1, 2}
    RpcTimeout = 1
    HostDeadline = 2
    MaxStartup = 1
INVARIANTS
    FailClosed
    ResultMatchesAction
PROPERTIES
    GateImplemented
    HookAnswers
CHECK_DEADLOCK FALSE
