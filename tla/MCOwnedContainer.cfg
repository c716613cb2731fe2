CONSTANT Faults = {"stray", "podman", "guard"}
SPECIFICATION Spec
INVARIANTS
    PositiveStaysTrue
    StoppedGuardsNothing
    DisarmedIsQuiet
PROPERTIES
    StartedEnds
CHECK_DEADLOCK FALSE
