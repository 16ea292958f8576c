SPECIFICATION FairSpec
CONSTANTS
    Gen = {g1, g2}
    None = None
    LeaderTtl = 2
    GenTtl = 3
    HeartbeatPeriod = 1
    LockTimeout = 1
    LockStale = 3
    MaxStalls = 1
    Events = {"retire", "crashInLock", "probeFails"}
PROPERTIES
    PollingGoesOn
    DeposedStopsPolling
