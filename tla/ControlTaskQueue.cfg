SPECIFICATION Spec
CONSTANTS
    Users = {u1, u2}
    Loop = loop
    Tasks = {t1}
    NoThread = none
    NoTask = notask
    Deadlines = {0, 2}
    Workloads <- AllKinds
    MaxTime = 2
SYMMETRY UserSymmetry
INVARIANTS
    ReadyOnce
    SizeCounts
    WaiterWoken
    OnlyCancelPanics
    NoTaskForgotten
