SPECIFICATION Spec
CONSTANTS
    Requests = {r1, r2}
    Simulated = {}
    Clients = {c1, c2}
    Threshold = 1
    Recovery = 1
SYMMETRY Symmetry
CHECK_DEADLOCK FALSE
INVARIANTS
    RulesOnlyWhenDown
