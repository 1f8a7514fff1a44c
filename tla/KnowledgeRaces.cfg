\* Two runs under one key or two, a rival and a superseding result, two failures.
SPECIFICATION FairSpec
CONSTANTS
    Runs = {r1, r2}
    k1 = k1
    k2 = k2
    Requests <- KnowledgeRequests
    i1 = i1
    i2 = i2
    c1 = c1
    s1 = s1
    s2 = s2
    Ids = {i1, i2}
    Contents = {c1}
    Sources = {s1, s2}
    Results <- KnowledgeResults
    NoResult = NoResult
    LockOf <- ScopeLocks
    NoRun = NoRun
    MaxFaults = 2
INVARIANTS TypeOK ReceiptsAreTrue
PROPERTIES ImplementsKnowledgeBase EveryRunEnds
\* Every run ends: the terminal states are meant.
CHECK_DEADLOCK FALSE
