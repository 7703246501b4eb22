SPECIFICATION Spec
CONSTANTS
    Consumer = {c1, c2}
    BufferSize = 2
    MaxConnections = 3
    MaxEvents = 5
INVARIANTS NoSilentLoss InOrderOnce
CHECK_DEADLOCK FALSE
