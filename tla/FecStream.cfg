SPECIFICATION Spec
CONSTANTS
    Schemes = {"rs8m", "ldpc"}
    SnMod = 16
    SbnMod = 8
    FirstSn = 14
    FirstSbn = 7
    MaxBlockLength = 6
    BlockSizes <- MCBlockSizes
    FirstSizes <- MCFirstSizes
    PayloadSizes = {1, 2}
    FirstPayload = 1
    MaxPackets <- MCMaxPackets
    MaxEvents = 1
    MaxSbnJump = 1
CHECK_DEADLOCK FALSE
INVARIANT OnlyRepairAgainPanics
PROPERTIES InOrder SkipsOnlyLost NoDataMeansEmpty
