SPECIFICATION Spec
CONSTANTS
    MaxMessages = 2
    MaxCommands = 0
    MaxFaults = 1
    Kinds = {"short", "long"}
INVARIANT
    FailedIsRestored
CHECK_DEADLOCK FALSE
