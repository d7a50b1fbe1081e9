SPECIFICATION FairSpec
CONSTANTS
    Home <- MCHome
    None = None
    MaxSeqno = 4
    MaxMasters = 3
    MaxRestarts = 1
    Width = 6
    ShardBits = 3
INVARIANTS SavedIsChain Decides
PROPERTY CatchesUp
CHECK_DEADLOCK FALSE
