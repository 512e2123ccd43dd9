SPECIFICATION TiersSpec
CONSTANTS
    p1 = p1  p2 = p2  v1 = v1  v2 = v2
    Clients = {p1}
    Values = {v1}
    TtlValues = {v1}
    None = None
    HasRedis = TRUE
    HasDisk = TRUE
    TierMayFail = FALSE
    CanRestart = FALSE
INVARIANTS
    ExpiredNotServed
