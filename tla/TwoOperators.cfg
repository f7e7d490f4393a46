\* Two operators without leader election, two disturbances.
\* A cluster nobody disturbs settles, so the machine may stop.
SPECIFICATION Spec
CONSTANTS
    o1 = o1
    o2 = o2
    t1 = t1
    t2 = t2
    plain = plain
    tuned = tuned
    Configs = {plain, tuned}
    DefaultMariaDBRef = FALSE
    RotatedKeys = {"FB_PASSWORD"}
    Absent = Absent
    Unset = Unset
    NoOwner = NoOwner
    OtherOwner = OtherOwner
    Edited = Edited
    Operators = {o1, o2}
    Tokens = {t1, t2}
    Steps <- JustSecret
    Specs <- BareAndClaimed
    Disturbances = {"edit_spec", "lost_reply", "crash", "drift"}
    MaxDisturbances = 2
    MaxLag = 2
    Tampered = {"Secret"}
SYMMETRY Interchangeable
PROPERTIES
    VaultSpec
    OperatorsKeepKeys
    StatusNeverGoesBack
CHECK_DEADLOCK FALSE
