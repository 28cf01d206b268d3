SPECIFICATION Spec
CONSTANTS
    MaxLocal = 1
    MaxPeer = 1
    Deletes = {"app", "peer"}
    QueueCap = 1
    Busy = FALSE
    Faults = {"link", "crash"}
    MaxFaults = 1
    SameSize = FALSE
    LateEdits = FALSE
    StageWrites = FALSE
    None = None
INVARIANTS
    NothingLost
    SweepSettles
CHECK_DEADLOCK FALSE
