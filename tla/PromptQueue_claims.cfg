CONSTANTS
    MaxProcs = 2
    Drains = {d1, d2}
    None = None
    Orphan = Orphan
    MaxPrompts = 2
    MaxDirect = 0
    Faults = {"kill", "slow", "lifecycle", "refuse"}
SPECIFICATION Spec
SYMMETRY Symmetry
INVARIANTS
    NoStartInPurged
    NothingLost
    StartedAtMostOnce
    StartedInOrder
