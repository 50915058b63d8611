SPECIFICATION Spec
CONSTANTS
    AnchorTexts = {a1, a2}
    AnchorSize = 4
    Roles = {"user"}
    TurnSizes = {1, 3}
    SummarySizes = {1, 2}
    Threshold = 7
    RetirePercent = 30
    MaxTurns = 9
INVARIANTS
    TypeOK
    HarnessContract
    EveryTurnAccountedFor
    NewestTurnKept
PROPERTIES
    ImplementsPolicy
    DivergesAtNewestSummary
CHECK_DEADLOCK FALSE
