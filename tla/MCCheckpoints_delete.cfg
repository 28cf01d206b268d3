SPECIFICATION Spec
CONSTANTS
    Proc = {p1, p2}
    Client = {k1}
    File = {f1}
    Blob = {b1, b2}
    Cp = {initial, c1, s1}
    SafetyCp = {s1}
    Initial = initial
    None = None
    Orphan = Orphan
    Kinds = {"save", "restore", "deleteCp", "deleteWs"}
    MaxChanges = 1
    MaxRestores = 1
    MaxRetries = 1
    MaxFaults = 1
    MayStall = FALSE
    FreshNames = TRUE
SYMMETRY Symmetry
CHECK_DEADLOCK FALSE
INVARIANTS
    TypeOK
    ReplacedTreeKept
    DeletionIsFinal
    OneReplacement
    RefCountCovers
    CheckpointsInv
