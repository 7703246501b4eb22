CONSTANTS
    Commands = {c1, c2}
    Ports = {p1, p2}
    Hits = 2
    Faults = 1
    Nobody = Nobody
SPECIFICATION Spec
INVARIANTS NothingLeft SparedOnceNamed MainStoreApart
CHECK_DEADLOCK FALSE
