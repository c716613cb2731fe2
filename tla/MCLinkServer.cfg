CONSTANTS
    LeaseSeconds = 7
    StopSeconds = 1
    Reserve = 2
    MinBudget = 4
    MaxTime = 9
SPECIFICATION Spec
INVARIANTS
    ServerInsideLease
    StoppedStaysTrue
    CompletedIsNatural
PROPERTY OwnedOnce
CHECK_DEADLOCK FALSE
