\* Two runs, two files that share an archive but not their lock, two failures.
SPECIFICATION FairSpec
CONSTANTS
    Runs = {r1, r2}
    a = a
    b = b
    v1 = v1
    v2 = v2
    Files = {a, b}
    Versions = {v1, v2}
    Requests <- TwoFileRequests
    LockOf <- ScopeLocks
    Torn = Torn
    NoRun = NoRun
    MaxFaults = 2
INVARIANTS TypeOK NoLostVersion ReceiptsAreTrue
PROPERTIES ImplementsVersionArchive EveryRunEnds
\* Every run ends: the terminal states are meant.
CHECK_DEADLOCK FALSE
