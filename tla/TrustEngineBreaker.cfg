SPECIFICATION Spec
CONSTANTS
    r1 = r1  r2 = r2  r3 = r3  r4 = r4  v1 = v1  v2 = v2
    Requests = {r1, r2, r3, r4}
    Verifiers = {}
    Models = {"gemma"}
    DefaultModel = "gemma"
    TestCtx <- Test
    Sessions <- BreakerSessions
    RawAnswers <- BreakerAnswers
    NonDict = NonDict
    Malformed = Malformed
    None = None
    Hung = {}
    Threshold = 2
    Recovery = 1
    CacheLimit = 1
SYMMETRY Symmetry
INVARIANTS
    BreakerCoherent
    CacheBounded
PROPERTIES
    ProbeOutcomeDecides
    OpenCircuitRests
