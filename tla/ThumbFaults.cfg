SPECIFICATION FairSpec
CONSTANTS
    r1 = r1  r2 = r2  r3 = r3
    i1 = i1
    None = None
    Rows = {r1, r2, r3}
    Items = {i1}
    Paths <- PathsDef
    MaxContents = 3
    Supported = {"jpg"}
    Limit = 2
    MaxFailures = 1
    MaxMoves = 2
    Overlaps = "none"
CHECK_DEADLOCK FALSE
INVARIANT TypeOK
INVARIANT ThumbShowsFile
PROPERTY EveryImageGetsThumb
