CONSTANTS
    Threads = {t1, t2}
    Handles = {h1, h2}
    Instances = {i1}
    Dbs = {d1}
    Paths = {p}
    Files = {f1}
    Basedirs = {b1}
    None = None
    MaxFileChanges = 1
    RacingReplacement = FALSE
SPECIFICATION FairSpec
PROPERTY EveryCallReturns
