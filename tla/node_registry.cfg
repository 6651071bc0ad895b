SPECIFICATION FairSpec
CONSTANTS
    s1 = s1
    s2 = s2
    a1 = a1
    a2 = a2
    Slave = {s1, s2}
    Address = {a1, a2}
    AddrOf <- OneNode
    Manager = {m1, m2}
    NoManager = NoManager
    Budgets <- MCBudgets
INVARIANTS
    TypeOK
    ListUniqueAddr
    ClaimsAreLocal
    ClaimedIsWatched
PROPERTIES
    ClaimsConverge
