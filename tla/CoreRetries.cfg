\* Three runs, two keys and both directions between two versions.
SPECIFICATION Spec
CONSTANTS
    Runs = {r1, r2, r3}
    k1 = k1
    k2 = k2
    v1 = v1
    v2 = v2
    v3 = v3
    Keys = {k1, k2}
    Versions = {v1, v2}
    Asks <- AllAsks
    NoRun = NoRun
SYMMETRY Symmetry
INVARIANTS TypeOK KeyBindsOneRequest ReceiptsAreTrue CrashIsRetryable
PROPERTIES SuccessIsFinal ImplementsVersionStore
\* Every invocation ends: the terminal states are meant.
CHECK_DEADLOCK FALSE
