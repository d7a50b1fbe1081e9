SPECIFICATION NotifyFairSpec
CONSTANTS
    Notificators <- MCNotificators
    IsDepositSideCalculation = TRUE
    Attempts = 3
    MaxIncomes = 2
    MaxBlocks = 2
    MaxCrashes = 1
INVARIANTS NoDuplicates LostOnlyByExit
PROPERTY EveryBlockSaved
CHECK_DEADLOCK FALSE
