SPECIFICATION FairSpec
CONSTANTS
    p1 = p1
    p2 = p2
    p3 = p3
    l1 = l1
    l2 = l2
    l3 = l3
    Proc = {p1, p2}
    Listener = {l1, l2, l3}
    HostOf <- TwoInSecond
    NumQueues = 1
    MaxSent = 2
    MaxErrors = 1
    MaxRewrites = 0
    MaxCrashes = 0
    MaxReloads = 1
INVARIANTS
    NothingSkipped
PROPERTIES
    EveryMessageTaken
