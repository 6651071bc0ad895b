SPECIFICATION FairSpec
CONSTANTS
    s1 = s1
    s2 = s2
    a1 = a1
    Slave = {s1, s2}
    Address = {a1}
    AddrOf <- MCAddrOf
    NoAddress = NoAddress
    NoName = NoName
    Watcher = {w1, w2}
    Handler = {h1}
    Budgets <- OneFault
INVARIANTS
    TypeOK
    OfflineRowsAreGone
PROPERTIES
    GoneRowsGoOffline
