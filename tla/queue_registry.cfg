SPECIFICATION Spec
CONSTANTS
    s1 = s1
    s2 = s2
    s3 = s3
    a1 = a1
    a2 = a2
    a3 = a3
    g1 = g1
    g2 = g2
    Handler = {h1, h2}
    Slave = {s1, s2, s3}
    Address = {a1, a2, a3}
    AddrOf <- SlaveAddrs
    Group = {g1, g2}
    GroupOf <- AddrGroups
    Job = {j1, j2}
    None = None
    Budgets <- Mixes
SYMMETRY Symmetry
INVARIANTS
    TypeOK
    MqJobsRecorded
    QueuesFollowJobList
CHECK_DEADLOCK FALSE
