\* A link appears where the current file was while the objects are archived.
SPECIFICATION Spec
CONSTANTS
    a = a
    b = b
    d1 = d1
    d2 = d2
    Runs = {r1, r2}
    Files = {a, b}
    Roots = {d1, d2}
    RootsOf <- SeparateRoots
    Versions = {v1, v2}
    Link = Link
    Torn = Torn
    NoRun = NoRun
    MaxEdits = 1
    MaxForeign = 0
INVARIANT RejectedMeansNoEffect
\* Every invocation ends: the terminal states are meant.
CHECK_DEADLOCK FALSE
