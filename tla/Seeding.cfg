SPECIFICATION Spec
CONSTANTS
    MaxPods = 2
    Nodes = {n1, n2}
    Strategies = {"Recreate"}
    Persistence = {TRUE}
    MaxEdits = 0
    Faults = {"init_fails"}
    MaxFaults = 1
    NoObject = NoObject
INVARIANTS
    ServesWhole
CHECK_DEADLOCK FALSE
