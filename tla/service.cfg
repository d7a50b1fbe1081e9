SPECIFICATION FairSpec
CONSTANTS
    p1 = p1
    d1 = d1
    d2 = d2
    own = own
    other = other
    bad = bad
    Proxies <- MCProxies
    Deposits <- MCDeposits
    Jettons <- MCJettons
    JettonWallets <- MCJettonWallets
    TonPayees <- MCTonPayees
    DepositJetton = own
    NoJetton = NoJetton
    BadMasters <- MCBadMasters
    AddressOrder <- MCAddressOrder
    HotLimit = 2
    DepositLimit = 1
    HotTon = 1
    Lag = 1
    MaxRequests = 2
    MaxTonPayments = 1
    MaxJettonPayments = 2
    MaxExecutions = 2
    MaxFaults = 1
INVARIANTS SentAtMostOnce IncomeAccountedFor NoBlockRefused
PROPERTIES ProcessedIsFinal ProxyRequestsProcessed FilledUntilSwept
CHECK_DEADLOCK FALSE
