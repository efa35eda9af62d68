\* A reservation set back to reservada between the check and the DELETE.
SPECIFICATION Spec
CONSTANTS
    grill = grill
    hall = hall
    u101 = u101
    u102 = u102
    w1 = w1
    w2 = w2
    Areas = {grill}
    Units = {u101}
    Updaters = {w1}
    NoRow = NoRow
    Nobody = Nobody
    AdvanceDays = 1
    LimitDays = 1
    BatchLimit = 1
    MaxId = 1
    MaxClock = 3
    LastDay = 0
    MaxRequests = 2
    MaxCrashes = 0
PROPERTIES
    ActiveNeverDeleted
CHECK_DEADLOCK FALSE
