SPECIFICATION FairSpec
CONSTANTS
    NumSlaves = 3
    MaxReloads = 1
    MaxCallers = 2
    DayInSeconds = 2
    TimeOut <- MCTimeOut
    Budgets <- MCDrainBudgets
PROPERTY ReloadCompletes
CHECK_DEADLOCK FALSE
