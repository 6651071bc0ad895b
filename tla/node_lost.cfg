SPECIFICATION FairSpec
CONSTANTS
    s1 = s1
    s2 = s2
    a1 = a1
    a2 = a2
    Slave = {s1, s2}
    Address = {a1, a2}
    AddrOf <- TwoNodes
    Manager = {m1}
    NoManager = NoManager
    Budgets <- NoFaults
PROPERTIES
    ServingIsListed
