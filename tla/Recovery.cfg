\* Anything a user or the network may do, once, at any moment; a Site that is deleted
\* may come back under the same name while its objects are still being collected.
\* A cluster nobody disturbs settles, so the machine may stop.
SPECIFICATION FairSpec
CONSTANTS
    o1 = o1
    o2 = o2
    t1 = t1
    t2 = t2
    plain = plain
    tuned = tuned
    Configs = {plain, tuned}
    DefaultMariaDBRef = FALSE
    RotatedKeys = {"FB_PASSWORD"}
    Absent = Absent
    Unset = Unset
    NoOwner = NoOwner
    OtherOwner = OtherOwner
    Edited = Edited
    Operators = {o1}
    Tokens = {t1}
    Steps <- SecretPodVolume
    Specs <- BareAndClaimed
    Disturbances = {"delete", "drift", "disown", "seize", "occupy", "recount", "lost_call", "lost_reply", "crash", "resync", "delete_site", "create_site"}
    MaxDisturbances = 1
    MaxLag = 2
    Tampered = {"Secret", "Deployment", "Volume"}
INVARIANTS
    TypeOK
    NothingMissed
PROPERTIES
    Converges
    StatusCatchesUp
CHECK_DEADLOCK FALSE
