\* An import while the change of a resident waits for the sheet.
SPECIFICATION Spec
CONSTANTS
    i1 = i1
    Kinds = {"resident"}
    Importers = {i1}
    NoRow = NoRow
    MaxId = 1
    MaxClock = 2
    MaxCrashes = 0
PROPERTIES
    ResidentChangeSurvives
CHECK_DEADLOCK FALSE
