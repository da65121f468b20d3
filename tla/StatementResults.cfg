CONSTANTS
    None = None
    Statements = {s1, s2}
    Addresses = {a1, a2, a3}
    Shapes <- Sizes
    Engines = {"1.5", "2.0"}
    MaxRuns = 3
SYMMETRY Symmetry
SPECIFICATION Spec
CHECK_DEADLOCK FALSE
INVARIANTS
    CachesAreCurrent
    ChunksAreOwned
    EveryRowOnce
    NothingIsPinned
