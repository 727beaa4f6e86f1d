CONSTANTS
    TotalBlocks = 3
    BlockSize = 2
    MaxRequests = 3
    PromptLens = {1, 2, 3}
    MaxNews = {1, 3}
    MaxFaults = 2
SPECIFICATION FaultSpec
INVARIANTS
    NobodyForgotten
    NoBlockShared
    NoBlockLost
    DamageContained
    
PROPERTIES
    HeldBlocksStay
