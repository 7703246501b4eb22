SPECIFICATION Spec
CONSTANTS
    Requests <- MCRequests
    Contexts <- MCContexts
    TurnsToKeep <- MCTurns
    MessageSize = 1500
    FullTool = 1800
    LeanTool = 400
    MaxTools = 2
    Explicit = 8000
INVARIANTS
    QuestionSent
    FactsLast
    FitsOrBare
