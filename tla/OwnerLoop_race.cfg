CONSTANTS
    Worker = {p1, p2}
    Input = {c1}
    Initial = initial
    Cancel = {}
    Pause = {}
    Resume = {c1}
    StepInput = {c1}
    None = None
    ClaimTTL = 1
    MaxClock = 1
    MaxSends <- InitialTwice
    MaxCrashes = 1
SPECIFICATION Spec
INVARIANT TypeOK
INVARIANT ExecutedAtMostOnce
INVARIANT TurnClosedOnce
INVARIANT AppliedExactlyOnce
PROPERTY SettledIsFinal
SYMMETRY Symmetry
CHECK_DEADLOCK FALSE
