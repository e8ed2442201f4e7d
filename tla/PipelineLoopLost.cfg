SPECIFICATION Spec
CONSTANTS
    Users = {u1, u2}
    Waiters = {u1, u2}
    Frames = {f1}
    Proc = proc
    NoThread = none
    Configs = {TRUE, FALSE}
    MinSubframes = 2
    MaxSubframes = 2
SYMMETRY UserSymmetry
INVARIANT
    NoTaskLeftBehind
CHECK_DEADLOCK FALSE
