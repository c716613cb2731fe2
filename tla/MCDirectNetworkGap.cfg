CONSTANTS
    Disconnects = {}
    Reviewed = {}
    Lingers = FALSE
    MaxDrift = 0
SPECIFICATION Spec
INVARIANTS
    StartedRestorable
CHECK_DEADLOCK FALSE
