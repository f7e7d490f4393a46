SPECIFICATION Spec
CONSTANTS
    c1 = c1
    c2 = c2
    main = main
    spare = spare
    Sites <- ShopAndBlog
    Wishes <- ShopMoves
    Clusters = {c1, c2}
    Databases = {main, spare}
    DefaultCluster = c1
    NoRef = NoRef
    Absent = Absent
    MaxBirths = 1
    MaxEdits = 2
INVARIANTS
    TypeOK
PROPERTIES
    LoginKept
    CredentialsWork
    NothingLeft
CHECK_DEADLOCK FALSE
