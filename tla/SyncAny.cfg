SPECIFICATION Spec
CONSTANTS
    A = A  B = B
    s1 = s1  s2 = s2  s3 = s3  s4 = s4
    h1 = h1  h2 = h2
    None = None
    Sessions = {s1, s2, s3, s4}
    Handlers = {h1, h2}
    Contents = {A, B}
    Size <- Shrinking
    MaxChunks = 2
    MaxChunkAttempts = 2
    MaxEdits = 2
    MaxFaults = 1
    LateRequests = TRUE
    EditPolicy = "any"
    MaxFolderDeletes = 1
CHECK_DEADLOCK TRUE
SYMMETRY Symmetry
INVARIANT TypeOK
INVARIANT OrphansBounded
INVARIANT DeliveriesBounded
