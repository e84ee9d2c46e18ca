SPECIFICATION Spec
CONSTANTS
    Deliveries = {d1, d2}
    Entities = {e1}
    Clients = {c1}
    MaxBuf = 1
    Stalled = {}
    Deaf = {}
CHECK_DEADLOCK FALSE
SYMMETRY Symmetry
INVARIANTS
    DenyBlackholes
