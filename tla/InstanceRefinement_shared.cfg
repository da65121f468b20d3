CONSTANTS
    Threads = {t1, t2}
    Handles = {h1, h2, h3}
    Instances = {i1, i2}
    Dbs = {d1, d2}
    Paths = {p}
    Files = {f1, f2}
    Basedirs = {b1, b2}
    None = None
    MaxFileChanges = 0
    RacingReplacement = FALSE
SPECIFICATION Spec
SYMMETRY Symmetry
INVARIANTS
    SqlIsContained
    SqlRunsSealed
PROPERTIES
    ContainmentLasts
    ImplementsSharedDatabase
