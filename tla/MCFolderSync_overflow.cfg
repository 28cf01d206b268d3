SPECIFICATION FairSpec
CONSTANTS
    MaxLocal = 0
    MaxPeer = 2
    Deletes = {}
    QueueCap = 1
    Busy = TRUE
    Faults = {}
    MaxFaults = 0
    SameSize = FALSE
    LateEdits = TRUE
    StageWrites = FALSE
    None = None
PROPERTIES
    PeerChangesArrive
CHECK_DEADLOCK FALSE
