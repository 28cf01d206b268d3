SPECIFICATION Spec
CONSTANTS
    Proc = {p1, p2}
    Client = {k1}
    File = {f1, f2}
    Blob = {b1, b2}
    Cp = {initial, c1, c2, s1}
    SafetyCp = {s1}
    Initial = initial
    None = None
    Orphan = Orphan
    Kinds = {"save", "restore"}
    MaxChanges = 2
    MaxRestores = 1
    MaxRetries = 0
    MaxFaults = 1
    MayStall = FALSE
    FreshNames = TRUE
SYMMETRY Symmetry
CHECK_DEADLOCK FALSE
INVARIANTS
    CheckpointIsSnapshot
    LiveTreeIsWhole
    CleanMeansUnchanged
