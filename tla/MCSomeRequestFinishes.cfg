CONSTANTS
    TotalBlocks = 2
    BlockSize = 1
    MaxRequests = 2
    PromptLens = {1}
    MaxNews = {1}
SPECIFICATION FairSpec
PROPERTIES
    SomeRequestFinishes
