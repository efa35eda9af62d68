\* Two callers of RunOnce, an import, lost answers, a restart, and a
\* connection that returns.
SPECIFICATION FairSpec
CONSTANTS
    Documents = {d1}
    Tokens = {t1, t2}
    MaxId = 2
    MaxCrashes = 1
    Callers = {c1, c2}
    Importers = {i1}
    Installations <- SyncInstallations
    Blank = Blank
    NoRow = NoRow
    Nobody = Nobody
INVARIANTS
    TypeOK
    AcknowledgedInSheet
PROPERTIES
    NoSecondSheetRow
    SheetRowsOnlyAdvance
    EveryVisitReachesSheet
CHECK_DEADLOCK FALSE
