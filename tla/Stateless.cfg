SPECIFICATION Spec
CONSTANTS
    AnchorSize = 4
    TurnSizes = {1, 2}
    SummarySizes = {1, 2}
    Threshold = 6
    RetirePercent = 50
    WindowTurns = 3
    MaxTurns = 12
    LeastTokens = 1
    MostTokens = 2
    MostSummary = 2
    MaxFolds = 3
    MaxLeft = 4
INVARIANTS
    TypeOK
    OneSummaryOfThePast
    KeepsTheWindow
    CompactedContextBounded
PROPERTY
    ImplementsPolicy
CHECK_DEADLOCK FALSE
