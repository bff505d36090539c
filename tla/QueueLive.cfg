SPECIFICATION FairSpec
CONSTANTS
    u1 = u1  u2 = u2
    k1 = k1  k2 = k2
    api = api  cron = cron
    w1 = w1  w2 = w2  w3 = w3
    None = None
    Uploads = {u1, u2}
    Keys = {k1}
    KeyOf <- SameKey
    Procs = {api, cron}
    Api = api
    Workers = {w1, w2}
    HostOf <- OneWorkerEach
    BatchSize = 1
    MaxUploadAttempts = 2
    BacklogLimit = 2
    MaxRestarts = 0
    Faults = {"copy", "put"}
    OverwritePolicy = "quiet"
CHECK_DEADLOCK TRUE
PROPERTY EveryUploadSettles
