SPECIFICATION MCSpec
CONSTANTS
    Calls = {c1, c2, c3}
    failureThreshold = 2
    successThreshold = 2
    timeoutMs = 2
    MonitorOn = TRUE
    MaxFailureCount = 3
    Requests = {r1, r2, r3}
    timeout = 1
    resetTimeout = 2
    errorThresholdPercentage = 50
    MaxOutcomes = 5
    Lookups = {l1, l2}
    cacheTTL = 2
    ttlMs = 1
    fetchTimeout = 2
    MaxVersion = 1
    Horizon = 6
    windowMs = 6
    maxRequests = 2
    burstSize = 3
    second = 2
    MaxSince = 12
    Flights = {f1, f2}
    bufferSize = 2
    MaxMetrics = 3
    Word = 262144
    Safe = 1048576
    Wide = 67108864
    Samples <- MCSamples
    Schemas <- MCSchemas
    Records <- MCRecords
    MaxItems = 12
    Messages <- MCMessages
    Single <- MCSingle
INVARIANTS
    BreakerConsistent
    StalenessBounded
    InvalidationHolds
    RateLimitSound
    ExportAccounted
    RoundTrip
PROPERTIES
    OpensOnEvidence
    OpenEventuallyProbes
    OpenShields
    CallsSettle
