CONSTANTS
    Gen = {g1, g2}
    None = None
    LeaderTtl = 3
    GenTtl = 4
    HeartbeatPeriod = 1
    LockTimeout = 2
    LockStale = 5
    MaxStalls = 0
    Events = {"stop", "retire", "crash"}
    Gens = {h1, h2, h3}
    Nobody = nobody
    Ops = {o1, o2}
SPECIFICATION RolloutSpec
SYMMETRY Symmetry
INVARIANTS
    AtMostOnePoller
    PollerHoldsLease
    WriteOfWhatWasRead
    OneRunner
    RolloutIsTold
