SPECIFICATION Spec
CONSTANTS
    rpc = rpc
    http = http
    mq = mq
    bad = bad
    odd = odd
    mail = mail
    Job = {rpc, http, mq, bad, odd, mail}
    Kind <- Kinds
    Valid = {rpc, http, mq, odd, mail}
    Enabled = {mq}
    Timed = {}
    Depend <- Depends
    Children <- ChildrenOf
    Route <- Routes
    MailJob = mail
    None = None
    Proc = {p1}
    NumNodes = 2
    MaxId = 2
    MaxFires = 2
    MaxErrors = 0
    MaxCrashes = 0
    MaxReloads = 0
INVARIANTS
    RoundRobin
CHECK_DEADLOCK FALSE
