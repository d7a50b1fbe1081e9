SPECIFICATION Spec
CONSTANTS
    h1 = h1
    h2 = h2
    u1 = u1
    u2 = u2
    usd = usd
    eur = eur
    master = master
    Handlers <- MCHandlers
    Users <- MCUsers
    NoUser = NoUser
    Withdrawals <- MCWithdrawals
    Ton = Ton
    Configs <- MCConfigs
    InShard <- MCInShard
    DefaultId = 1
    MaxUint32 = 4
    MaxPayments = 2
    MaxFaults = 1
    MaxRestarts = 3
INVARIANTS NewAddressesCredited BookMatchesTables NoConflict UniqueRequests OneCurrencyPerMaster
CHECK_DEADLOCK FALSE
