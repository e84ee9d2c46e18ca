SPECIFICATION Spec
CONSTANTS
    Sids = {s1}
    Handlers = {h1, h2}
    Ttl = 1
    Purging = FALSE
SYMMETRY Symmetry
INVARIANTS
    PermitMeansToken
