CONSTANTS
    Gens = {g1, g2}
    Nobody = nobody
    MaxUpdate = 3
    Status = {3}
    Menu = {2}
    Faults = {"crash", "timeout", "stuck", "refused", "rollout", "midbatch", "probe"}
SPECIFICATION FairSpec
INVARIANTS
    NothingSkipped
    HandledOnce
PROPERTIES
    Delivered
