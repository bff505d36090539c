SPECIFICATION Spec
CONSTANTS
    A = A  B = B
    s1 = s1  s2 = s2  s3 = s3  s4 = s4
    h1 = h1  h2 = h2
    None = None
    Sessions = {s1, s2, s3, s4}
    Handlers = {h1, h2}
    Contents = {A, B}
    Size <- SameSize
    MaxChunks = 2
    MaxChunkAttempts = 2
    MaxEdits = 2
    MaxFaults = 1
    LateRequests = FALSE
    EditPolicy = "between"
    MaxFolderDeletes = 0
CHECK_DEADLOCK TRUE
INVARIANT RecordedIsDelivered
