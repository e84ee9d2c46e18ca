SPECIFICATION FairSpec
CONSTANTS
    r1 = r1  r2 = r2  r3 = r3  r4 = r4  v1 = v1  v2 = v2
    Requests = {r1, r2}
    Verifiers = {v1}
    Models = {"gemma", "qwen"}
    DefaultModel = "gemma"
    TestCtx <- Test
    Sessions <- AllSessions
    RawAnswers <- ParserAnswers
    NonDict = NonDict
    Malformed = Malformed
    None = None
    Hung = {r2}
    Threshold = 1
    Recovery = 0
    CacheLimit = 500
INVARIANTS
    TypeOK
    NoErrorVerdict
    CountsAgree
    ModelRestored

    
