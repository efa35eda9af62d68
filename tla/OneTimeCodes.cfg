\* Each service in turn: codes replaced, expired and used by calls that
\* overlap, while their subjects change.
SPECIFICATION Spec
CONSTANTS
    c1 = c1
    c2 = c2
    c3 = c3
    g1 = g1
    u1 = u1
    u2 = u2
    Kinds = {"reservation", "delivery", "photo"}
    Ids = {1}
    Codes = {c1, c2, c3}
    Guests = {g1}
    Callers = {u1, u2}
    TTL = 1
    NoRow = NoRow
    Deleted = Deleted
    MaxClock = 3
    MaxCrashes = 1
INVARIANTS
    TypeOK
    OneLiveCode
    SignedInTime
    MailedOnce
    WithdrawnOrDeleted
    SignedWithdrawal
PROPERTIES
    SignatureKept
SYMMETRY Interchangeable
CHECK_DEADLOCK FALSE
