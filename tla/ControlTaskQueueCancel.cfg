SPECIFICATION Spec
CONSTANTS
    Users = {u1, u2}
    Loop = loop
    Tasks = {t1}
    NoThread = none
    NoTask = notask
    Deadlines = {2}
    Workloads <- FourCalls
    MaxTime = 2
SYMMETRY UserSymmetry
INVARIANT NeverCancelledTwice
