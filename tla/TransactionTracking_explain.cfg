CONSTANTS
    None = None
    Engines = {"1.5"}
    Batches <- Parenthesised
SPECIFICATION Spec
CHECK_DEADLOCK FALSE
INVARIANTS
    FlagCoversTransaction
