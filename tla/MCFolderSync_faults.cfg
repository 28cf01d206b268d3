SPECIFICATION FairSpec
CONSTANTS
    MaxLocal = 1
    MaxPeer = 1
    Deletes = {"app", "peer"}
    QueueCap = 1
    Busy = FALSE
    Faults = {"upload", "download", "event", "sweep"}
    MaxFaults = 1
    SameSize = FALSE
    LateEdits = TRUE
    StageWrites = FALSE
    None = None
INVARIANTS
    LocalEditKept
    PeerEditKept
PROPERTIES
    SettlesDown
CHECK_DEADLOCK FALSE
