SPECIFICATION Spec
CONSTANTS
    NumJobs = 2
    Proc = {p1, p2}
    Nobody = Nobody
    MaxEdits = 2
    MaxReads = 0
    MaxWrites = 1
    MaxReloads = 1
INVARIANTS
    MutualElimination
    SharedIdsDistinct
