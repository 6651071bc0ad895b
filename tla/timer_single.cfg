SPECIFICATION FairSpec
CONSTANTS
    NumJobs = 2
    Proc = {p1, p2}
    Nobody = Nobody
    MaxEdits = 2
    MaxReads = 1
    MaxWrites = 0
    MaxReloads = 0
INVARIANTS
    TypeOK
    ListDescribesCron
    TableSurvives
PROPERTIES
    ScanReconciles
    Converges
