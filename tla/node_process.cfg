SPECIFICATION FairSpec
CONSTANTS
    NumSlaves = 4
    MaxReloads = 1
    MaxCallers = 2
    DayInSeconds = 2
    TimeOut <- MCTimeOut
    Budgets <- MCBudgets
INVARIANTS
    TypeOK
    OneSlaveStays
    DrainWaits
    AnsweredIsOver
PROPERTIES
    KeepsServing
    CallsReturn
    OldSlavesLeave
    KeepsPromise
CHECK_DEADLOCK FALSE
