\* Every step of a pass, over Sites that cannot all be served, one edit.
\* A cluster nobody disturbs settles, so the machine may stop.
SPECIFICATION FairSpec
CONSTANTS
    o1 = o1
    o2 = o2
    t1 = t1
    t2 = t2
    plain = plain
    tuned = tuned
    Configs = {plain, tuned}
    DefaultMariaDBRef = FALSE
    RotatedKeys = {"FB_PASSWORD"}
    Absent = Absent
    Unset = Unset
    NoOwner = NoOwner
    OtherOwner = OtherOwner
    Edited = Edited
    Operators = {o1}
    Tokens = {t1}
    Steps <- AllSteps
    Specs <- WithRefused
    Disturbances = {"edit_spec"}
    MaxDisturbances = 1
    MaxLag = 2
    Tampered = {}
PROPERTIES
    Converges
    StatusCatchesUp
CHECK_DEADLOCK FALSE
