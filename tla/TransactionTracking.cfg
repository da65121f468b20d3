CONSTANTS
    None = None
    Engines = {"1.5", "2.0"}
    Batches <- Plain
SPECIFICATION Spec
CHECK_DEADLOCK FALSE
INVARIANTS
    FlagCoversTransaction
    PhantomOnlyAfterLostCommit
