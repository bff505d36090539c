SPECIFICATION Spec
CONSTANTS
    u1 = u1  u2 = u2
    k1 = k1  k2 = k2
    api = api  cron = cron
    w1 = w1  w2 = w2  w3 = w3
    None = None
    Uploads = {u1, u2}
    Keys = {k1, k2}
    KeyOf <- DistinctKeys
    Procs = {api, cron}
    Api = api
    Workers = {w1, w2, w3}
    HostOf <- TwoAndOneWorker
    BatchSize = 1
    MaxUploadAttempts = 2
    BacklogLimit = 2
    MaxRestarts = 0
    Faults = {"claim", "put"}
    OverwritePolicy = "quiet"
CHECK_DEADLOCK TRUE
INVARIANT ClaimExclusive
INVARIANT AttemptsBounded
PROPERTY OncePerDrain
