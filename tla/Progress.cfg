CONSTANTS
    Drains = {d1, d2}
    None = None
    Orphan = Orphan
    Callers = {c1, c2, c3}
SPECIFICATION ProgressSpec
INVARIANT
    MetaLockExcludes
PROPERTIES
    QueueMoves
    InterruptEnds
    Ends
    ReplyLands
