CONSTANTS
    Appenders = {a1, a2}
    Pdos = {w1, w2}
    Rows = {r1, r2, r3}
    None = None
    Kinds = {"ordinary", "persistent"}
    Relaxable = {"ordinary"}
    FlushEvery = 2
SPECIFICATION FairSpec
CHECK_DEADLOCK FALSE
INVARIANTS
    AbandonedRowsStayOut
    RowsAccountedFor
    ReleasedBeforeDisconnect
    NoInvisibleTransaction
PROPERTY CloserFinishes
