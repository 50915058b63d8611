SPECIFICATION Spec
CONSTANTS
    AnchorTexts = {a1, a2}
    AnchorSize = 1
    Roles = {"user", "tool"}
    TurnSizes = {1, 3}
    SummarySizes = {1}
    Threshold = 8
    ProtectRecent = 2
    LargeTool = 3
    Small = 2
    MaxTurns = 8
INVARIANTS
    TypeOK
    OnlyLargeToolTurnsVanish
    RecentTurnsProtected
    SummariesInOrder
PROPERTIES
    ImplementsPolicy
    FiredIsDivergence
CHECK_DEADLOCK FALSE
