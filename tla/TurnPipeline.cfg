SPECIFICATION FairSpec
CONSTANTS
    MaxTurns = 2
    MaxInFlight = 2
    MaxRounds = 2
    Phase1 = 1
    Phase2 = 2
    Validation = TRUE
    MaxFailures = 3
    MaxStops = 1
INVARIANTS NextTurnSees RecallHidden RowFaithful
PROPERTIES RowComplete EveryTurnEnds
CHECK_DEADLOCK FALSE
