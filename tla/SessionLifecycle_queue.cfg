CONSTANTS
    MaxLives = 1
    MaxQueue = 1
SPECIFICATION Spec
PROPERTIES
    CompactingStartsNoRun
