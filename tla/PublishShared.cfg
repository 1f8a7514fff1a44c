\* Two runs, two current files under roots of their own, one objects root.
SPECIFICATION FairSpec
CONSTANTS
    a = a
    b = b
    d1 = d1
    d2 = d2
    Runs = {r1, r2}
    Files = {a, b}
    Roots = {d1, d2}
    RootsOf <- SeparateRoots
    Versions = {v1, v2}
    Link = Link
    Torn = Torn
    NoRun = NoRun
    MaxEdits = 0
    MaxForeign = 0
INVARIANTS TypeOK SharingIsHarmless ReceiptTruth
PROPERTIES ImplementsVersionStore EveryRunEnds
\* Every invocation ends: the terminal states are meant.
CHECK_DEADLOCK FALSE
