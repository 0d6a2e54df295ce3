\* Two subjects; sessions renewed at once exhaust a budget of one.
SPECIFICATION FairSpec
CONSTANTS
    Subject = {a, b}
    Policy <- MCPolicy
    None = None
    Budget = 1
    Retry = 1
    Discovery = 1
    Horizon = 2
    MaxOps = 1
    MaxEdits = 2
INVARIANTS DeadlinesMet OperationsSettle GuardReported
PROPERTIES TimeOwned AdvanceEnds
