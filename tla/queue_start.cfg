SPECIFICATION Spec
CONSTANTS
    s1 = s1
    s2 = s2
    s3 = s3
    a1 = a1
    a2 = a2
    a3 = a3
    g1 = g1
    g2 = g2
    Handler = {h1}
    Slave = {s1, s2, s3}
    Address = {a1, a2, a3}
    AddrOf <- SlaveAddrs
    Group = {g1, g2}
    GroupOf <- AddrGroups
    Job = {j1}
    None = None
    Budgets <- OneRequest
INVARIANTS
    StartedNodesJoin
CHECK_DEADLOCK FALSE
