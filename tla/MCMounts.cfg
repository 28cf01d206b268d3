SPECIFICATION Spec
CONSTANTS
    c1 = c1
    c2 = c2
    c3 = c3
    None = None
    Command = {c1, c2, c3}
    Root <- MCRoot
    Nested <- MCNested
    Path = {f}
    Start <- MCStart
    MaxEvents = 2
CHECK_DEADLOCK FALSE
INVARIANTS
    ServedOnce
    KernelMountRegistered
PROPERTIES
    MountPreserves
    CheckpointHasEdits
