SPECIFICATION TimerSpec
CONSTANTS
    Setters = {s1, s2}
    Deadlines <- DeadlineValues
    ClockOffsets = {0, 100}
    MaxCalls = 5
    MaxTime = 1
INVARIANTS
    NoLostWakeup
    PostsBounded
PROPERTY WakesWhenDue
CHECK_DEADLOCK FALSE
