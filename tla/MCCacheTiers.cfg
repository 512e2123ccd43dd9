SPECIFICATION TiersSpec
CONSTANTS
    p1 = p1  p2 = p2  v1 = v1  v2 = v2
    Clients = {p1, p2}
    Values = {v1, v2}
    TtlValues = {v1}
    None = None
    HasRedis = TRUE
    HasDisk = TRUE
    TierMayFail = TRUE
    CanRestart = TRUE
INVARIANTS
    TiersAgree
    ReadsSound
SYMMETRY MCSymmetry
