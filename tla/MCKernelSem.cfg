SPECIFICATION FairSpec
CONSTANTS
    high = high
    mid = mid
    low = low
    Idle = Idle
    Tasks = {high, mid, low}
    Priority <- MCPriority
    Wait <- MCWait
    NTasks = 5
    MaxPended = 2
INVARIANTS
    TypeOK
    NoForgottenGive
    HighestRuns
    KernelInv
PROPERTIES
    Implements
    Served
    TimesOut
