SPECIFICATION FairSpec
CONSTANTS
    NumIds = 2
    Ids <- MCIds
    Priority <- MCPriority
    concurrency = 1
    maxRetries = 2
    HasBreaker = TRUE
    SaveMayFail = FALSE
    OrderedSaves = TRUE
    MaxCrashes = 0
    failureThreshold = 2
    successThreshold = 1
    timeoutMs = 1
    MonitorOn = TRUE
INVARIANTS
    StoreAgrees
PROPERTIES
    EveryItemSettles
    ImplementsRetryJobs
