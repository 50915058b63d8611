CONSTANTS
    BlockSize = 2
    Capacity = 4
    LargeToolChars = 3
    MaxRequests = 4
    Prompts <- MCPrompts
SPECIFICATION Spec
INVARIANTS
    TypeOK
    OnlyOneAboveGoesWrong
    TierRemembers
    BlocksJudgedByTurns
CHECK_DEADLOCK FALSE
