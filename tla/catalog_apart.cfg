SPECIFICATION Spec
CONSTANTS
    Handler = {h1, h2}
    Loader = loader
    Job = {a1, a2}
    Group = {g1, g2}
    NoEntry = NoEntry
    PageSize = 1
    MaxRequests = 4
    MaxBusy = 2
    MaxSame = 1
    MaxErrors = 1
    MaxLoads = 1
SYMMETRY Symmetry
INVARIANTS
    TypeOK
    StoresAgree
    EntryHasRow
    OwnersFollowForm
CHECK_DEADLOCK FALSE
