SPECIFICATION RecorderSpec
CHECK_DEADLOCK FALSE
CONSTANTS
    Trajectories <- MCTrajectories
    UnitSizes = {1, 3}
    AnchorTokens = 2
    Window = 4
    MinSteps = 2
    MaxSteps = 5
    MaxStarts = 2
INVARIANT ResumedIsComplete
