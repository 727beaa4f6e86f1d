\* The system stops when every connection is answered.
CONSTANTS
    TotalBlocks = 3
    BlockSize = 2
    MaxRequests = 3
    PromptLens = {1, 3}
    MaxNews = {1, 3}
    MaxConnections = 3
    MaxFaults = 2
SPECIFICATION ServerFaultSpec
CHECK_DEADLOCK FALSE
INVARIANTS
    RepliedRight
PROPERTIES
    RepliedUndamaged
