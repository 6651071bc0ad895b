SPECIFICATION Spec
CONSTANTS
    Handler = {h1, h2}
    Loader = loader
    Job = {a1}
    Group = {}
    NoEntry = NoEntry
    PageSize = 1
    MaxRequests = 2
    MaxBusy = 2
    MaxSame = 2
    MaxErrors = 0
    MaxLoads = 0
SYMMETRY Symmetry
INVARIANTS
    AuthorIsRequester
CHECK_DEADLOCK FALSE
