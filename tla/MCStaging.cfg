CONSTANTS
    Offset <- TwoClocks
    Delay = 8
    LaunchReserve = 1
    Allowance = 6
    DispatchReserve = 1
    Pause = 1
    MaxTime = 9
    Package = "package"
    LinkSlots <- ServerAndClient
    MaxLate = 2
SPECIFICATION StagingSpec
INVARIANTS
    PassMeansQuiet
    StartsOnlyStaged
PROPERTIES
    EntersProtected
CHECK_DEADLOCK FALSE
