SPECIFICATION Spec
CONSTANTS
    Handler = {h1}
    Loader = loader
    Job = {a1}
    Group = {}
    NoEntry = NoEntry
    PageSize = 1
    MaxRequests = 3
    MaxBusy = 1
    MaxSame = 1
    MaxErrors = 0
    MaxLoads = 0
SYMMETRY Symmetry
INVARIANTS
    OwnersAreOfForm
CHECK_DEADLOCK FALSE
