\* threshold_tokens = 0.6 * max_model_len, as in configs/policies; every turn
\* and every summary is small against the window.
SPECIFICATION Spec
CONSTANTS
    AnchorTexts = {a1}
    AnchorSize = 2
    Roles = {"user"}
    TurnSizes = {2}
    SummarySizes = {1}
    Threshold = 12
    RetirePercent = 50
    MaxTurns = 40
    MaxModelLen = 20
INVARIANT
    CompactedContextFits
CHECK_DEADLOCK FALSE
