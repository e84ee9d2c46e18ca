SPECIFICATION Spec
CONSTANTS
    Sids = {s1, s2}
    Handlers = {h1, h2, h3, h4}
    Ttl = 1
    Purging = TRUE
SYMMETRY Symmetry
INVARIANTS
    TypeOK
    JudgedOnce
    CommandsAgree
PROPERTIES
    ImplementsLifecycle
