\* Every spec there is.  The machine stops once the verdict is given.
SPECIFICATION Spec
CONSTANTS
    Configs = {plain}
    DefaultMariaDBRef = FALSE
INVARIANTS
    EnvRefsGenerated
    CredentialsComplete
    RoutesServed
    ClaimMatchesVolume
CHECK_DEADLOCK FALSE
