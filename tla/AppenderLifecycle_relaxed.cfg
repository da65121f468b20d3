CONSTANTS
    Appenders = {a1, a2}
    Pdos = {w1, w2}
    Rows = {r1, r2}
    None = None
    Kinds = {"persistent"}
    Relaxable = {"persistent"}
    FlushEvery = 2
SPECIFICATION Spec
INVARIANT NoInvisibleTransaction
