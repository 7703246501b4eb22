SPECIFICATION FairSpec
CONSTANTS
    Statement <- Residences
    MaxTurn = 3
    MaxCandidates = 1
    MaxInFlight = 3
    SearchLimit = 8
    Confirmations = 10
    MaxFailures = 1
INVARIANTS NoDuplicates SupersessionSound PendingBounded
PROPERTIES RetiredForGood EveryTurnEnds
CHECK_DEADLOCK FALSE
