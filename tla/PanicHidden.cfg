\* A size that does not parse.  A cluster nobody disturbs settles, so the machine may stop.
SPECIFICATION FairSpec
CONSTANTS
    o1 = o1
    o2 = o2
    t1 = t1
    t2 = t2
    plain = plain
    tuned = tuned
    Configs = {plain, tuned}
    DefaultMariaDBRef = FALSE
    RotatedKeys = {"FB_PASSWORD"}
    Absent = Absent
    Unset = Unset
    NoOwner = NoOwner
    OtherOwner = OtherOwner
    Edited = Edited
    Operators = {o1}
    Tokens = {t1}
    Steps <- SecretPodVolume
    Specs <- SizeEdited
    Disturbances = {"edit_spec"}
    MaxDisturbances = 1
    MaxLag = 2
    Tampered = {}
PROPERTIES
    FailureSurfaces
CHECK_DEADLOCK FALSE
