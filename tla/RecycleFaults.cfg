SPECIFICATION Spec
CONSTANTS
    root = root  docs = docs
    f = f  g = g
    c1 = c1  c2 = c2  c3 = c3
    i1 = i1  i2 = i2  i3 = i3
    r1 = r1  r2 = r2  r3 = r3  r4 = r4  r5 = r5  r6 = r6
    None = None
    Root = root
    Folders = {root, docs}
    Names = {f}
    Contents = {c1, c2}
    Items = {i1, i2}
    Rows = {r1, r2, r3, r4}
    Failing = {"create file", "update file", "create item", "delete file", "hide", "unhide", "update location", "delete item", "hard delete", "purge item"}
    MaxDamage = 1
    Generations = "one"
CHECK_DEADLOCK FALSE
SYMMETRY Symmetry
INVARIANT TypeOK
INVARIANT ListedFileHasBytes
INVARIANT ListedOnce
INVARIANT ItemHasBytes
PROPERTY NothingLost
PROPERTY RestoreBringsBack
