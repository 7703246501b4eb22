SPECIFICATION RetrievalSpec
CONSTANTS
  Facts = {1, 2, 3, 4}
  Stored = {1, 2, 3}
  Entities = {"x", "y"}
  Queries = {"q", "a", "b"}
  Slots = {"job", "home"}
  MaxFacts = 3
  GraphReserve = 1
  PrePopK = 1
  ComplexK = 2
  SubK = 1
  EnoughFacts = 3
  MaxAsks = 1
  Worlds <- MCWorlds
  Asks <- MCAsks
INVARIANTS OnlyLive NewestOfEach BestKept EmptyOnlyIfCrowded
CHECK_DEADLOCK FALSE
