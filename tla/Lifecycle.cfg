\* One operator; the Site is edited, deleted and created again, the operator
\* restarts, two of these in any order.  A cluster nobody disturbs settles, so the machine may stop.
SPECIFICATION Spec
CONSTANTS
    o1 = o1
    o2 = o2
    t1 = t1
    t2 = t2
    plain = plain
    tuned = tuned
    Configs = {plain, tuned}
    DefaultMariaDBRef = FALSE
    RotatedKeys = {"FB_PASSWORD"}
    Absent = Absent
    Unset = Unset
    NoOwner = NoOwner
    OtherOwner = OtherOwner
    Edited = Edited
    Operators = {o1}
    Tokens = {t1}
    Steps <- SecretPodVolume
    Specs <- WithNamed
    Disturbances = {"edit_spec", "delete_site", "create_site", "crash"}
    MaxDisturbances = 2
    MaxLag = 2
    Tampered = {}
INVARIANTS
    SecretBeforePod
PROPERTIES
    DetachBeforeDelete
CHECK_DEADLOCK FALSE
