SPECIFICATION Spec
CONSTANTS
    Users = {u1, u2}
    Waiters = {u1, u2}
    Frames = {f1}
    Proc = proc
    NoThread = none
    Configs = {TRUE, FALSE}
    MinSubframes = 1
    MaxSubframes = 2
SYMMETRY UserSymmetry
INVARIANTS
    PipelineExclusive
    SchedulerSerialized
    PendingCount
    RunOnce
    WaitReturnsLast
    SafeToDestroy
CHECK_DEADLOCK FALSE
