CONSTANTS
    None = None
    Owners = {o1, o2}
    Paths = {p1, p2}
    Files = {f1, f2, f3}
    MaxQueries = 2
    MaxChanges = 2
SYMMETRY Symmetry
SPECIFICATION Spec
CHECK_DEADLOCK FALSE
INVARIANTS
    TypeOK
    OneNamePerFile
    AttachedIsKnown
