SPECIFICATION FairSpec
CONSTANTS
    Documents = {d1}
    Tokens = {t1}
    MaxId = 1
    MaxCrashes = 0
    Callers = {c1}
    Importers = {}
    Installations <- FreshOnly
    Blank = Blank
    NoRow = NoRow
    Nobody = Nobody
PROPERTIES
    EveryCheckoutReachesSheet
CHECK_DEADLOCK FALSE
