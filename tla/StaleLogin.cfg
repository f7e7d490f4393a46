SPECIFICATION Spec
CONSTANTS
    c1 = c1
    c2 = c2
    main = main
    spare = spare
    Sites <- One
    Wishes <- AllOptIn
    Clusters = {c1, c2}
    Databases = {main, spare}
    DefaultCluster = c1
    NoRef = NoRef
    Absent = Absent
    MaxBirths = 2
    MaxEdits = 1
PROPERTIES
    CredentialsWork
CHECK_DEADLOCK FALSE
