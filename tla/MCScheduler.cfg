CONSTANTS
    TotalBlocks = 3
    BlockSize = 2
    MaxRequests = 3
    PromptLens = {1, 2, 3}
    MaxNews = {0, 1, 4}
SPECIFICATION FairSpec
INVARIANTS
    StatusMatchesPlace
    BilledExactly
    CacheNeverExhausted
    TableIsOwned
    TodoIsRunning
    OldestFirst
    RetrySucceeds
    LeakBounded
    AdmissionFair
    ResultsMatchStatus
PROPERTIES
    PoolSpec
    Lifecycle
    RunningEnds
    ServedUnlessStarved
