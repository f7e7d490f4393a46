SPECIFICATION Spec
CONSTANTS
    MaxPods = 2
    Nodes = {n1, n2}
    Strategies = {"", "Recreate"}
    Persistence = {TRUE}
    MaxEdits = 1
    Faults = {"lost_call", "operator_crash", "container_crash", "init_fails"}
    MaxFaults = 1
    NoObject = NoObject
INVARIANTS
    TypeOK
    ConfigNotOlder
    StartedIsUntouched
    RolledOutIsServed
    IdleIsDone
CHECK_DEADLOCK FALSE
PROPERTIES
    RolloutSpec
    OldKeepsServing
    Settles
    StatusTells
