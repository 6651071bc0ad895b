SPECIFICATION Spec
CONSTANTS
    rpc = rpc
    http = http
    mq = mq
    bad = bad
    odd = odd
    mail = mail
    Job = {rpc, http, mq, bad, odd, mail}
    Kind <- Kinds
    Valid = {rpc, http, mq, odd, mail}
    Enabled = {rpc, http, mq, bad, mail}
    Timed = {odd}
    Depend <- Depends
    Children <- ChildrenOf
    Route <- Routes
    MailJob = mail
    None = None
    Proc = {p1}
    NumNodes = 2
    MaxId = 3
    MaxFires = 2
    MaxErrors = 1
    MaxCrashes = 1
    MaxReloads = 0
INVARIANTS
    TypeOK
    LogTellsOutcome
    StrongAfterSuccess
    OneRowEach
CHECK_DEADLOCK FALSE
