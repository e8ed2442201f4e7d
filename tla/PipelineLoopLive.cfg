SPECIFICATION FairSpec
CONSTANTS
    Users = {u1}
    Waiters = {}
    Frames = {f1}
    Proc = proc
    NoThread = none
    Configs = {TRUE}
    MinSubframes = 2
    MaxSubframes = 2
PROPERTIES
    FrameCompletes
    TaskCompletes
CHECK_DEADLOCK FALSE
