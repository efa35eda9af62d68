\* Every kind: changes, imports, lost answers, a restart, and a connection
\* that returns.
SPECIFICATION FairSpec
CONSTANTS
    i1 = i1
    Kinds <- AllKinds
    Importers = {i1}
    NoRow = NoRow
    MaxId = 2
    MaxClock = 3
    MaxCrashes = 1
INVARIANTS
    TypeOK
    AcknowledgedInSheet
PROPERTIES
    FinishedStaysFinished
    OnlyAckLeavesQueue
    EveryRecordReachesSheet
CHECK_DEADLOCK FALSE
