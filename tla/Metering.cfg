\* Both kinds of server.  The timeout outlasts what one request may be owed,
\* not what a server that lags may owe after several.
SPECIFICATION Spec
CONSTANTS
    BlockSize = 2
    PromptBlocks = 3
    SettlePolls = 3
    MaxCalls = 3
INVARIANTS
    TypeOK
    ReportsItsOwnReuse
    SettledOnReturn
    WrongByWhatIsOwed
    NothingCountedTwice
CHECK_DEADLOCK FALSE
