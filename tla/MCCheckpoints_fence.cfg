SPECIFICATION FairSpec
CONSTANTS
    Proc = {p1, p2}
    Client = {k1}
    File = {f1}
    Blob = {b1, b2}
    Cp = {initial, s1, s2}
    SafetyCp = {s1, s2}
    Initial = initial
    None = None
    Orphan = Orphan
    Kinds = {"restore"}
    MaxChanges = 1
    MaxRestores = 2
    MaxRetries = 2
    MaxFaults = 1
    MayStall = TRUE
    FreshNames = TRUE
CHECK_DEADLOCK FALSE
PROPERTIES
    FenceEnds
