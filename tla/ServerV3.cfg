SPECIFICATION ServerSpec
CONSTANTS
    Requests = {r1, r2, r3, s1}
    Simulated = {s1}
    Clients = {c1, c2}
    Threshold = 2
    Recovery = 0
    Callers = {y1, y2, y3, y4}
    Keys = {a1, f1}
    Addressed = {a1}
    Rule <- SmallRule
    DenyAbove <- SmallDeny
    Capacity = 2
    EnrolTicks = 1
    Lifetime = 2
    StatsTicks = 4
    MostChanges = 3
    Counts = {1, 2}
    None = None
SYMMETRY Symmetry
CHECK_DEADLOCK FALSE
INVARIANTS
    TypesOK
    OnlyOverruledCountTwice
    EnrolmentsAreJudged
    Admission
    StatsAreFresh
PROPERTIES
    ReturnsAreTrue
