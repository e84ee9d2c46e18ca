SPECIFICATION Spec
CONSTANTS
    Addresses = {a1, a2}
    Limit = 2
    Window = 3
    LimiterTicks = 6
    Calls = 4
    Keys = {k1}
    Kinds = {"enroll", "connect", "auth"}
    Rule <- RuleV4
    Ports = {q1, q2}
    ScanThresholds = {1, 2}
    SentinelTicks = 4
    Analyses = 4
    Entities = {e1, e2}
    Tests = {t1, t2}
    Editors = {x1, x2}
    Emails = {m1, m2}
    Orgs = {o1, o2, o3}
    Lifetime = 1
    AccountTicks = 2
    Servers = {v1, v2}
    Tables = {g1, g2}
    Altered = {g1}
    Columns = {l1, l2}
    None = None
SYMMETRY Symmetry
CHECK_DEADLOCK FALSE
INVARIANTS
    TypeOK
    ReportsAreExact
    CountsMatchSessions
    QuarantineHolds
    QuarantineCutsOff
    OneOrganisation
    SchemaComplete
PROPERTIES
    LimitIsExact
    DeletedForGood
