\* Two requests at once for two areas and two apartments, around midnight.
SPECIFICATION DeskSpec
CONSTANTS
    grill = grill
    hall = hall
    u101 = u101
    u102 = u102
    w1 = w1
    w2 = w2
    Areas = {grill, hall}
    Units = {u101, u102}
    Updaters = {w1, w2}
    NoRow = NoRow
    Nobody = Nobody
    AdvanceDays = 1
    LimitDays = 1
    BatchLimit = 1
    MaxId = 2
    MaxClock = 3
    LastDay = 1
    MaxRequests = 2
    MaxCrashes = 0
INVARIANTS
    TypeOK
    NoDoubleBooking
    OneMailPerCancellation
PROPERTIES
    CancelledInTime
    ReservationLifeSpec
SYMMETRY Interchangeable
CHECK_DEADLOCK FALSE
