CONSTANTS
    Runs = 2
    Hits = 2
    Faults = 2
SPECIFICATION Spec
INVARIANTS RolledBack ValidConfigKept NoServiceWithoutConfig
CHECK_DEADLOCK FALSE
