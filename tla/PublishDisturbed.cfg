\* Two runs reach one file under different locks while others write as well.
SPECIFICATION Spec
CONSTANTS
    a = a
    b = b
    d1 = d1
    d2 = d2
    Runs = {r1, r2}
    Files = {a}
    Roots = {d1, d2}
    RootsOf <- NestedRoots
    Versions = {v1, v2, v3}
    Link = Link
    Torn = Torn
    NoRun = NoRun
    MaxEdits = 1
    MaxForeign = 1
SYMMETRY Symmetry
INVARIANTS NoLostVersion NoTornBytes ReceiptTruth Recoverable
CHECK_DEADLOCK FALSE
