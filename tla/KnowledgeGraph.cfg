SPECIFICATION GraphSpec
CONSTANTS
    Person = {"amy", "bea"}
    Role = {"friend", "sister", "wife"}
    Other = {"neighbour"}
    MaxRank = 3
    Statement <- AboutAmy
    MaxTurn = 2
    MaxStatements = 2
    MaxInFlight = 2
    MaxFailures = 1
INVARIANTS OneRole StrongestKept OneEntityEach
CHECK_DEADLOCK FALSE
