SPECIFICATION MCSpec
CONSTANTS
    s1 = s1  e1 = e1  e2 = e2  c1 = c1  c2 = c2
    Subs = {s1}
    Events = {e1, e2}
    maxRetries = 3
    Calls = {c1, c2}
    CanRestart = TRUE
    k1 = k1  k2 = k2  t1 = t1  t2 = t2
    Clients = {k1, k2}
    Topics = {t1, t2}
    TopicSets <- TwoTopics
    MAX_BUFFER_SIZE = 2
    MaxConns = 2
    MaxEmits = 3
    a = a  b = b  c = c
    Nodes = {a, b, c}
    Weights = {1, 2}
    min_nodes = 1
    max_nodes = 3
    MaxEpoch = 1
    validator_count = 4
    MaxResets = 1
    MaxRepeats = 2
INVARIANTS
    NoSilentLoss
    StreamComplete
    QuorumsShare
    FlagsMeanQuorums
PROPERTIES
    SendsBounded
    KeepsRetryJobs
    EveryDeliverySettles
    RotationsSound
    RoundDecides
CHECK_DEADLOCK FALSE
