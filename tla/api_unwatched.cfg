SPECIFICATION Spec
CONSTANTS
    h1 = h1
    h2 = h2
    u1 = u1
    u2 = u2
    usd = usd
    eur = eur
    master = master
    Handlers <- MCHandlers
    Users <- MCUsers
    NoUser = NoUser
    Withdrawals <- MCWithdrawals
    Ton = Ton
    Configs <- MCConfigs
    InShard <- MCInShard
    DefaultId = 1
    MaxUint32 = 4
    MaxPayments = 1
    MaxFaults = 1
    MaxRestarts = 2
INVARIANT ListedIsWatched
CHECK_DEADLOCK FALSE
