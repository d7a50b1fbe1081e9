SPECIFICATION Spec
CONSTANTS
    d1 = d1
    d2 = d2
    Deposits <- MCDeposits
    Lifetime = 0
    Lag = 1
    Cutoff = 0
    ExpireDelay = 1
    MaxIncomes = 2
    MaxForeign = 1
    MaxMemos = 2
    MaxTime = 4
SYMMETRY Symmetry
CONSTRAINT ScannerGoesOn
ACTION_CONSTRAINT OwnWallet
INVARIANTS TypeOK OneLivePerDeposit NoBlockRefused NoStrandedDeposit AmountsBalance
CHECK_DEADLOCK FALSE
PROPERTY ImplementsLifecycle
