SPECIFICATION PlaneSpec
CONSTANTS
    Sessions = {s1, s2}
    MaxSessions = 1
    MostTasks = 2
    Buckets = {b1}
    Sids = {z1, z2}
    MaxUdp = 2
    MaxSyn = 1
    Window = 2
    FilterTicks = 4
    Cpus = {p1, p2}
    Sources = {a1}
    Threshold = 2
    Modulus = 4
    MostPackets = 7
    Entities = {e1, e2}
    Calls = {w1}
    Lifetimes = {0, 1}
    PermitTicks = 2
    None = None
    Room = 2
    Batch = 2
    Arrivals = 6
SYMMETRY Symmetry
CHECK_DEADLOCK FALSE
INVARIANTS
    TypesOK
    EstablishedWasAccepted
    LimitHolds
    FloodIsBounded
    StatsReconcile
PROPERTIES
    SweepsAreExact
