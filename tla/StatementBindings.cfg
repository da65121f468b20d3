CONSTANTS
    None = None
    Params = {p1, p2}
    Extra = {x}
    MaxDepth = 2
    MaxCalls = 3
SPECIFICATION Spec
CHECK_DEADLOCK FALSE
INVARIANTS
    ValuesOfOneCall
    ResultOfLastCall
    CompleteCallsRun
