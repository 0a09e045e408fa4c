SPECIFICATION ScoringSpec
CONSTANTS
    Event = {e1, e2}
    Version <- MCVersion
    Gone = Gone
    Malformed = Malformed
    BATCH_SIZE = 2
    MaxPersists = 2
    MaxStrays = 1
    MaxFaults = 1
INVARIANTS
    ScoreOfOneVersion
    OutdatedIsOwed
PROPERTIES
    LastVersionIsScored
CHECK_DEADLOCK FALSE
