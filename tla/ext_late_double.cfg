SPECIFICATION Spec
CONSTANTS
    d1 = d1
    d2 = d2
    Dests <- MCDests
    NoDest = NoDest
    Lifetime = 1
    Lag = 1
    Period = 0
    ExpireDelay = 3
    Skew = 0
    BlockGap = 1
    MaxRequests = 1
    MaxMsgs = 2
    MaxTime = 6
SYMMETRY Symmetry
INVARIANT NoDoublePayment
CHECK_DEADLOCK FALSE
