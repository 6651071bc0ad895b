SPECIFICATION Spec
CONSTANTS
    p1 = p1
    p2 = p2
    p3 = p3
    l1 = l1
    l2 = l2
    l3 = l3
    Proc = {p1, p2}
    Listener = {l1, l2}
    HostOf <- OneEach
    NumQueues = 2
    MaxSent = 5
    MaxErrors = 0
    MaxRewrites = 1
    MaxCrashes = 1
    MaxReloads = 0
INVARIANTS
    TypeOK
PROPERTIES
    HandsOverInOrder
