SPECIFICATION LiveSpec
CONSTANTS
    Deliveries = {d1, d2}
    Entities = {e1}
    Clients = {c1, c2}
    MaxBuf = 1
    Stalled = {d2}
    Deaf = {c2}
    Commands = {x1, x2, x3, x4}
    HighMark = 1
    LowMark = 0
    ErrCap = 2
    Senders = {u1, u2}
    Readers = {v1}
    Room = 1
    MostSends = 2
    MostArrivals = 2
CHECK_DEADLOCK FALSE
INVARIANTS
    TypesOK
    AgentsAreReached
    PayloadsInOrder
PROPERTIES
    DeliveriesEnd
    DrainReturns
    PayloadsAreSent
