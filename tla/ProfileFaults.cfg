SPECIFICATION Spec
CONSTANTS
    p1 = p1  p2 = p2
    sA = sA  sB = sB
    f1 = f1  f2 = f2
    d1 = d1  d2 = d2
    None = None
    Torn = Torn
    Procs = {p1, p2}
    Servers = {sA, sB}
    Folders = {f1, f2}
    Drives = {d1, d2}
    Home <- HomeDef
    MaxCommands = 4
    MaxCrashes = 1
    Overlaps = "none"
    Repoints = "none"
CHECK_DEADLOCK FALSE
SYMMETRY Symmetry
INVARIANT SettingsSound
 
PROPERTY TrackedKept
PROPERTY ImplementsProfileStore
