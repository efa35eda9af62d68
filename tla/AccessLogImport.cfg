SPECIFICATION Spec
CONSTANTS
    Documents = {d1}
    Tokens = {t1, t2}
    MaxId = 3
    MaxCrashes = 0
    Callers = {c1}
    Importers = {i1, i2}
    Installations <- ImportInstallations
    Blank = Blank
    NoRow = NoRow
    Nobody = Nobody
INVARIANTS
    OneActivePerDocument
PROPERTIES
    CompletedStaysCompleted
    OnlyAckLeavesQueue
CHECK_DEADLOCK FALSE
