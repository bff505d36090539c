SPECIFICATION Spec
CONSTANTS
    c1 = c1  c2 = c2
    None = None
    Ids = {1, 2, 3, 4}
    Creators = {c1, c2}
    Paths <- PathsDef
    Names <- NamesDef
    SortKey <- ByName
    DefaultPageSize = 2
    MaxPageSize = 3
    PageSize = 0
    MaxChanges = 5
    Overlaps = "none"
CHECK_DEADLOCK FALSE
SYMMETRY Symmetry
INVARIANT FolderTree
INVARIANT NothingSkipped
