CONSTANTS
    Disconnects <- OneDisconnect
    Reviewed <- OneDisconnect
    Lingers = TRUE
    MaxDrift = 1
SPECIFICATION Spec
INVARIANTS
    Restorable
    NeverBothFabrics
PROPERTIES
    RestoredTruthful
    RestoreGivesUpForOthers
CHECK_DEADLOCK FALSE
