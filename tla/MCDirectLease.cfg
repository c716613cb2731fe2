CONSTANTS
    Lifecycles = {"transient-switched", "predeclared-direct"}
    Delay = 8
    Slack = 2
    DispatchTimeout = 1
    Accuracy = 1
    MinBudget = 2
    LaunchReserve = 4
    MaxTime = 11
    MaxReplaced = 1
SPECIFICATION Spec
INVARIANTS
    ArmedNeverOverdue
    RollbackKeepsPromise
    DisarmedNeverFires
PROPERTY ArmedEnds
CHECK_DEADLOCK FALSE
