CONSTANTS
    MaxTurn = 2
    Steers = {}
    Retries = 1
    Repeats = 0
    Faults = {}
SPECIFICATION Spec
INVARIANTS
    PromptTaken
