CONSTANTS
    Lifecycles = {"transient-switched", "predeclared-direct"}
    Mortal = {"launcher", "controller", "finalizer", "head", "worker"}
    EarlyFire = TRUE
    LockGivesUp = TRUE
    DelayedActs <- AllLate
    MaxLate = 1
SPECIFICATION Spec
CHECK_DEADLOCK FALSE
INVARIANTS
    NoRestoreWhileRunning
    DisarmedMeansReturned
    EvidenceStaysTrue
    PayloadKeepsNetwork
