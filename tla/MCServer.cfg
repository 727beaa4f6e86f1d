\* The system stops when every connection is answered.
CONSTANTS
    TotalBlocks = 2
    BlockSize = 2
    MaxRequests = 3
    PromptLens = {1, 3, 5}
    MaxNews = {1, 3}
    MaxConnections = 3
SPECIFICATION ServerFairSpec
CHECK_DEADLOCK FALSE
INVARIANTS
    OneAtATime
    PoolIsWhole
    RepliesAreRight
PROPERTIES
    StuckForGood
    FittingAnswered
