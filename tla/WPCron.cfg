\* Four Sites, a deadline that has room for two that linger, every change at any moment.
SPECIFICATION Spec
CONSTANTS
    SiteCount = 4
    Interval = 3
    Deadline = 3
    BackoffLimit = 1
    MaxChanges = 2
INVARIANTS
    TypeOK
    CalledInTime
PROPERTIES
    AlarmIsSystemic
