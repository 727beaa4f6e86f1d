\* The system stops when every connection is answered.
CONSTANTS
    TotalBlocks = 2
    BlockSize = 2
    MaxRequests = 2
    PromptLens = {1, 3}
    MaxNews = {1, 3}
    MaxConnections = 2
SPECIFICATION ServerFairSpec
CHECK_DEADLOCK FALSE
PROPERTIES
    EveryConnectionAnswered
