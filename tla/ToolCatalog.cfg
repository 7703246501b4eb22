SPECIFICATION Spec
CONSTANTS
    Name = {"read", "web", "shell"}
    Definition = {"v1", "v2"}
    Lists <- AgentLists
    Mode = {"none", "moderate"}
    MaxTools = 2
    MaxRequest = 3
    MaxInFlight = 2
    MaxRestarts = 1
    MaxFailures = 1
INVARIANTS NeverEmptied UnanimousStay CatalogFollowsAgent LeanMatchesMode
CHECK_DEADLOCK FALSE
