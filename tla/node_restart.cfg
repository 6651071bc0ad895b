SPECIFICATION FairSpec
CONSTANTS
    NumSlaves = 4
    MaxReloads = 1
    MaxCallers = 2
    DayInSeconds = 2
    TimeOut <- MCTimeOut
    Budgets <- MCBudgets
INVARIANT StopReachesAll
CHECK_DEADLOCK FALSE
