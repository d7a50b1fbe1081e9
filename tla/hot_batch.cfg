SPECIFICATION Spec
CONSTANTS
    Ton = "TON"
    Jettons = {"J"}
    o1 = o1
    cold = cold
    p1 = p1
    p2 = p2
    Outside <- MCOutside
    Internal <- MCInternal
    ColdWallet = cold
    JettonTon = 1
    HotWalletMax <- MCMax
    HotWalletResidual <- MCResidual
    MsgLimit = 1
    MaxRequests = 2
    MaxAmount = 2
    MaxBalance = 3
SYMMETRY MCSymmetry
INVARIANTS TypeOK Affordable DistinctDests BatchFits OneColdPerCurrency
CHECK_DEADLOCK FALSE
