SPECIFICATION Spec
CONSTANTS
    d1 = d1
    d2 = d2
    Dests <- MCDests
    NoDest = NoDest
    Lifetime = 1
    Lag = 1
    Period = 2
    ExpireDelay = 2
    Skew = 0
    BlockGap = 1
    MaxRequests = 2
    MaxMsgs = 2
    MaxTime = 6
SYMMETRY Symmetry
INVARIANTS NoDoublePayment ExpiredIsVoid NoBlockRefused StatusTruthful OneOpenRow OneLiveMessage
CHECK_DEADLOCK FALSE
PROPERTY ImplementsLifecycle
