CONSTANTS
    Client = {a, b}
    Recoverer = {v}
    Worker = w
    Session = {s1, s2}
    Key = {k1}
    None = None
    MaxEpoch = 2
SYMMETRY Symmetry
SPECIFICATION Spec
INVARIANT OneRunPerKey
INVARIANT ReceiptsConverge
INVARIANT HandleIsCurrent
PROPERTY PublishesAtomically
CHECK_DEADLOCK FALSE
