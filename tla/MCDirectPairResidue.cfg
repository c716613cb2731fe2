CONSTANTS
    Lifecycles = {"predeclared-direct"}
    Mortal = {"launcher", "controller"}
    EarlyFire = FALSE
    LockGivesUp = FALSE
    DelayedActs <- LateRules
    MaxLate = 1
SPECIFICATION Spec
INVARIANT NoRuleResidue
CHECK_DEADLOCK FALSE
