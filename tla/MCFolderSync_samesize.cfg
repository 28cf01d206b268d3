SPECIFICATION Spec
CONSTANTS
    MaxLocal = 2
    MaxPeer = 1
    Deletes = {"app", "peer"}
    QueueCap = 1
    Busy = FALSE
    Faults = {}
    MaxFaults = 0
    SameSize = TRUE
    LateEdits = TRUE
    StageWrites = FALSE
    None = None
INVARIANTS
    PeerEditKept
CHECK_DEADLOCK FALSE
