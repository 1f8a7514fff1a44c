\* Two runs, any keys, requests that cross among three versions; with fairness.
SPECIFICATION FairSpec
CONSTANTS
    Runs = {r1, r2}
    k1 = k1
    k2 = k2
    v1 = v1
    v2 = v2
    v3 = v3
    Keys = {k1, k2}
    Versions = {v1, v2, v3}
    Asks <- CrossingAsks
    NoRun = NoRun
INVARIANTS CrashIsRetryable
PROPERTIES SuccessWasSeen EveryRunEnds
\* Every invocation ends: the terminal states are meant.
CHECK_DEADLOCK FALSE
