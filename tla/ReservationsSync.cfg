\* Changes, deletions and restarts while the reservations are sent, and a
\* connection that returns.
SPECIFICATION FairSpec
CONSTANTS
    grill = grill
    hall = hall
    u101 = u101
    u102 = u102
    w1 = w1
    w2 = w2
    Areas = {grill}
    Units = {u101}
    Updaters = {w1}
    NoRow = NoRow
    Nobody = Nobody
    AdvanceDays = 1
    LimitDays = 1
    BatchLimit = 1
    MaxId = 2
    MaxClock = 3
    LastDay = 0
    MaxRequests = 2
    MaxCrashes = 1
INVARIANTS
    SyncedIsCurrent
PROPERTIES
    EveryRevisionReachesSheet
CHECK_DEADLOCK FALSE
