SPECIFICATION Spec
CONSTANTS
    Sessions = {s1, s2}
    MaxSessions = 2
    MostTasks = 1
SYMMETRY Symmetry
INVARIANTS
    ReceivesItsOwn
