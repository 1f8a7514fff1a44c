\* Two runs, rivals and sharers, two failures, a lock for each scope.
SPECIFICATION FairSpec
CONSTANTS
    Runs = {r1, r2}
    i1 = i1
    i2 = i2
    c1 = c1
    c2 = c2
    m1 = m1
    m2 = m2
    Ids = {i1, i2}
    Contents = {c1, c2}
    Results <- RivalResults
    LockOf <- ScopeLocks
    NoRun = NoRun
    MaxFaults = 2
INVARIANTS TypeOK CatalogueConsistent ReceiptsAreTrue
PROPERTIES ImplementsCatalogue EveryRunEnds OneIsAdmitted
\* Every run ends: the terminal states are meant.
CHECK_DEADLOCK FALSE
