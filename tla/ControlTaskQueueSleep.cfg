SPECIFICATION Spec
CONSTANTS
    Users = {u1, u2}
    Loop = loop
    Tasks = {t1, t2}
    NoThread = none
    NoTask = notask
    Deadlines = {1, 2}
    Workloads <- TwoCalls
    MaxTime = 2
INVARIANT SleepersKept
PROPERTY WaitReturns
