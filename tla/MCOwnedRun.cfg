CONSTANTS
    Rank = {0, 1}
    Front = 1
SPECIFICATION Spec
INVARIANTS
    StagedMeansReplicated
    NoModelBeforeAllReady
    PositiveMeansSettled
PROPERTY ParentEnds
CHECK_DEADLOCK FALSE
