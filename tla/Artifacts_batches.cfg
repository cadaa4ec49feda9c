CONSTANTS
    Pass = {p1, p2}
    Name = {a, b}
    MaxRevisions = 3
    MaxFaults = 2
SPECIFICATION Spec
SYMMETRY Symmetry
INVARIANT NothingIsLost
INVARIANT AuditPasses
PROPERTY BatchesAreAtomic
CHECK_DEADLOCK FALSE
