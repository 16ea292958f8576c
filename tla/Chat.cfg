CONSTANTS
    MaxSteps = 2
    MaxChunks = 2
    MaxFaults = 4
    Attempts = 2
    MaxWaits = 1
    MaxQueued = 2
SPECIFICATION ChatSpec
INVARIANTS
    NothingLost
    TakenOnceInOrder
    ProgressGone
    DeliveredIsShown
    ChunksRead
    InputFollowsPanel
    InputStaysOver
    LedgerHolds
PROPERTIES
    ImplementsMailbox
