CONSTANTS
    Steers = {s1}
    MaxRuns = 2
    SteerTries = 1
    CapacityTries = 1
    Faults = {"start", "steer", "recovery", "interrupt", "upstream", "window", "corrupt", "capacity", "resume"}
SPECIFICATION RunsSpec
INVARIANTS
    AnswerHeardSteers
    AttemptsBounded
    NothingDropped
    ResultIsTrue
    ProfileHolds
    KnownIsFound
