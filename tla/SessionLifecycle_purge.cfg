CONSTANTS
    MaxLives = 2
    MaxQueue = 1
SPECIFICATION Spec
INVARIANTS
    NothingSurvivesPurge
    RunIsMarked
PROPERTIES
    PurgeSparesRuns
