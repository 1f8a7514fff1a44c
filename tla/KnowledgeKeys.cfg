\* One key for two requests that race; nothing fails.
SPECIFICATION Spec
CONSTANTS
    Runs = {r1, r2}
    k1 = k1
    k2 = k2
    Requests <- KnowledgeRequests
    i1 = i1
    i2 = i2
    c1 = c1
    s1 = s1
    s2 = s2
    Ids = {i1, i2}
    Contents = {c1}
    Sources = {s1, s2}
    Results <- KnowledgeResults
    NoResult = NoResult
    LockOf <- ScopeLocks
    NoRun = NoRun
    MaxFaults = 0
INVARIANTS KeyBindsOneRequest
\* Every run ends: the terminal states are meant.
CHECK_DEADLOCK FALSE
