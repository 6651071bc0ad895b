SPECIFICATION FairSpec
CONSTANTS
    NumJobs = 2
    Proc = {p1, p2}
    Nobody = Nobody
    MaxEdits = 2
    MaxReads = 0
    MaxWrites = 0
    MaxReloads = 1
PROPERTIES
    EveryDueJobRuns
