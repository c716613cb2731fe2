CONSTANTS
    Lifecycles = {"transient-switched", "predeclared-direct"}
    Mortal = {"launcher", "controller"}
    EarlyFire = FALSE
    LockGivesUp = FALSE
    DelayedActs <- NoneLate
    MaxLate = 0
SPECIFICATION Spec
PROPERTIES BorrowedReturned RunningCancelled KeepsPromise
CHECK_DEADLOCK FALSE
