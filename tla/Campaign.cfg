SPECIFICATION CampaignSpec
CHECK_DEADLOCK FALSE
CONSTANTS
    Trajectories <- MCTrajectories
    UnitSizes = {1, 3}
    AnchorTokens = 2
    Window = 4
    MinSteps = 1
    MaxSteps = 4
    MaxStarts = 2
    Outgrowing = {"none"}
    ReplaySteps = 2
    CommitLines = {0, 3}
    MaxInvocations = 2
INVARIANTS WindowOnlyMovesForward SliceIsComparison NthRunsAgree InputsExist
