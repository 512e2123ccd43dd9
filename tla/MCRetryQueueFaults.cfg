SPECIFICATION Spec
CONSTANTS
    NumIds = 2
    Ids <- MCIds
    Priority <- MCPriority
    concurrency = 2
    maxRetries = 2
    HasBreaker = FALSE
    SaveMayFail = TRUE
    OrderedSaves = TRUE
    MaxCrashes = 1
    failureThreshold = 2
    successThreshold = 1
    timeoutMs = 1
    MonitorOn = TRUE
INVARIANTS
    LimitsKept
    OneWorkerPerItem
    NoLostWakeup
    DurableCompletion
