\* A reservation with a guest is deleted.
SPECIFICATION Spec
CONSTANTS
    c1 = c1
    c2 = c2
    c3 = c3
    g1 = g1
    u1 = u1
    u2 = u2
    Kinds = {"reservation"}
    Ids = {1}
    Codes = {}
    Guests = {g1}
    Callers = {}
    TTL = 1
    NoRow = NoRow
    Deleted = Deleted
    MaxClock = 1
    MaxCrashes = 0
INVARIANTS
    NoOrphanGuests
CHECK_DEADLOCK FALSE
