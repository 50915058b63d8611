SPECIFICATION LoopSpec
CONSTANTS
    AnchorTexts = {a1}
    AnchorSize = 2
    Roles = {"user"}
    TurnSizes = {1, 3}
    SummarySizes = {1, 2}
    Threshold = 6
    RetirePercent = 50
    MaxTurns = 6
    BlockSize = 2
    Capacity = 5
    MaxModelLen = 10
    MaxRuns = 2
INVARIANTS
    NoFalseAlarm
    MonotonePrefixGrowth
    AlignedEventsLoseNothing
CHECK_DEADLOCK FALSE
