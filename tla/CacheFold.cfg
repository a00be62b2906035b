SPECIFICATION Spec
CONSTANTS
    a = a
    b = b
    m = m
    n = n
    Ids <- MCIds
    Keys <- MCKeys
    Retention = 2
    MaxSupp = 1
    MaxReports = 2
    MaxTime = 4
    None = None
INVARIANTS TypeOK
PROPERTIES OutdatedStaysHidden DriftHidesOnlyOlder StaleKeepsSuppression RowsNeverGoBack CliKeepsNewer
SYMMETRY MeterSymmetry
