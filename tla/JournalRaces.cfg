\* Two runs on a task that is new, opened or closed, under two evidence roots.
SPECIFICATION FairSpec
CONSTANTS
    Runs = {r1, r2}
    Roots = {h1, h2}
    k0 = k0
    k1 = k1
    k2 = k2
    none = none
    Bodies <- TaskBodies
    Asks <- TaskAsks
    Journals <- TaskJournals
    NoRun = NoRun
    NoHead = NoHead
    MaxFaults = 2
INVARIANTS TypeOK JournalIsSound ReceiptsAreTrue AppendsOnce
PROPERTIES ImplementsTaskLog EveryRunEnds HeadMovesOn
\* Every run ends: the terminal states are meant.
CHECK_DEADLOCK FALSE
