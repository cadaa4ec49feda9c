CONSTANTS
    Client = {a, b}
    Recoverer = {v}
    Worker = w
    Session = {s1, s2}
    Key = {k1}
    None = None
    MaxEpoch = 2
SYMMETRY Symmetry
SPECIFICATION Spec
INVARIANT VisibleHasCreation
CHECK_DEADLOCK FALSE
