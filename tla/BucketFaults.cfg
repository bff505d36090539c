SPECIFICATION Spec
CONSTANTS
    root = root  docs = docs
    f = f  v = v
    c1 = c1  c2 = c2
    i1 = i1  i2 = i2
    r1 = r1  r2 = r2  r3 = r3  r4 = r4
    None = None
    Marker = Marker
    Root = root
    Folders = {root, docs}
    Names = {f}
    Versions = {v}
    Contents = {c1, c2}
    Items = {i1, i2}
    Rows = {r1, r2, r3}
    Failing = {"ensure", "archive row", "put", "content", "create row", "delete source", "location", "delete original", "create item", "drop row", "delete batch", "leftover", "hide", "copy back", "delete recycled", "unhide", "drop item", "purge object", "hard delete"}
    MaxDamage = 1
    Collisions = "none"
CHECK_DEADLOCK FALSE
SYMMETRY Symmetry
INVARIANT ListedHasObject
INVARIANT ListedOnce
INVARIANT EveryVersionReachable
PROPERTY NothingLost
