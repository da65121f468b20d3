CONSTANTS
    Threads = {t1, t2}
    Handles = {h1, h2, h3}
    Instances = {i1, i2}
    Dbs = {d1, d2}
    Paths = {p, q}
    Files = {f1, f2, f3}
    Basedirs = {}
    None = None
    MaxFileChanges = 2
    RacingReplacement = TRUE
SPECIFICATION RacedSpec
SYMMETRY Symmetry
INVARIANTS
    TypeOK
    NoUseAfterFree
    RegisteredWhileUsed
    OneInstanceUnlessRaced
