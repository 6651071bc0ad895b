SPECIFICATION Spec
CONSTANTS
    rpc = rpc
    http = http
    mq = mq
    bad = bad
    odd = odd
    mail = mail
    Job = {rpc, http, mq, bad, odd, mail}
    Kind <- Kinds
    Valid = {rpc, http, mq, odd, mail}
    Enabled = {http}
    Timed = {}
    Depend <- Depends
    Children <- ChildrenOf
    Route <- Routes
    MailJob = mail
    None = None
    Proc = {p1, p2}
    NumNodes = 1
    MaxId = 1
    MaxFires = 1
    MaxErrors = 0
    MaxCrashes = 0
    MaxReloads = 1
PROPERTIES
    DrainedHttpDone
CHECK_DEADLOCK FALSE
