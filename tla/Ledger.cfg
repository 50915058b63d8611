SPECIFICATION Spec
CHECK_DEADLOCK FALSE
CONSTANTS
    Accounts <- MCAccounts
    CommandLines <- MCCommandLines
    Transactions <- MCTransactions
    Initial <- MCInitial
    Amounts <- MCAmounts
    Cycles = 1
    MaxSweeps = 3
INVARIANTS TypeOK FaithfulRunVerifies RowIsHonest SameEpisodesPerScale
