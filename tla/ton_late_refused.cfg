SPECIFICATION Spec
CONSTANTS
    d1 = d1
    d2 = d2
    Deposits <- MCDeposits
    Lifetime = 2
    Lag = 1
    Cutoff = 0
    SendDelay = 3
    ExpireDelay = 1
    MaxPayments = 2
    MaxMemos = 2
    MaxTime = 6
INVARIANT NoBlockRefused
CHECK_DEADLOCK FALSE
SYMMETRY Symmetry
