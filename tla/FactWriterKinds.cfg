SPECIFICATION Spec
CONSTANTS
    Statement <- Kinds
    MaxTurn = 2
    MaxCandidates = 2
    MaxInFlight = 2
    SearchLimit = 2
    Confirmations = 0
    MaxFailures = 0
PROPERTIES ImplementsLedger WellConfirmedKept
CHECK_DEADLOCK FALSE
