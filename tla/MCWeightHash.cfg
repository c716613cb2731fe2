CONSTANTS
    Files = {f1, f2}
    MaxWrites = 2
SPECIFICATION Spec
SYMMETRY Symmetry
INVARIANTS
    HashOfOneTree
    PrintedIsOver
CHECK_DEADLOCK FALSE
