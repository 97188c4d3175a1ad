CONSTANTS
    Pods = {p1, p2}
    Upgrades = {u1, u2}
    Versions = {v1}
    MaxTime = 1
    MaxUpdates = 2
    MaxMishaps = 1
    Missing = Missing
SPECIFICATION FairSpecUpdates
INVARIANTS SuccessIsReal
PROPERTIES FinishedOnce RecordsClose
CHECK_DEADLOCK FALSE
