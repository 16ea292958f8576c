CONSTANTS
    MaxTurn = 2
    Steers = {1}
    Retries = 1
    Repeats = 0
    Faults = {"timeout","death"}
SPECIFICATION Spec
INVARIANTS
    NothingForgotten
    TakenOnce
    CompletedIsOver
