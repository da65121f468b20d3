CONSTANTS
    Members = {m1, m2}
    Inspector = inspect
    Paths = {inner, outer}
    Inside = {inner}
    Servers = {q1, q2}
    MaxRetries = 1
    None = None
SPECIFICATION LiveSpec
CHECK_DEADLOCK FALSE
INVARIANTS
    Sealed
    NeverHalfApplied
    OneFailureSparesNoSink
    RefusalStopsListeners
PROPERTY TransitionEnds
