SPECIFICATION Spec
CONSTANTS
    p1 = p1
    p2 = p2
    p3 = p3
    l1 = l1
    l2 = l2
    l3 = l3
    Proc = {p1, p2}
    Listener = {l1, l2}
    HostOf <- OneEach
    NumQueues = 1
    MaxSent = 2
    MaxErrors = 0
    MaxRewrites = 0
    MaxCrashes = 0
    MaxReloads = 1
PROPERTIES
    OrderlyExitLosesNothing
