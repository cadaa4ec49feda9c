CONSTANTS
    Worker = {p1}
    Input = {c1}
    Initial = initial
    Cancel = {c1}
    Pause = {}
    Resume = {}
    StepInput = {c1}
    None = None
    ClaimTTL = 1
    MaxClock = 2
    MaxSends <- Once
    MaxCrashes = 0
SPECIFICATION LiveSpec
PROPERTY EveryNotificationConcludes
PROPERTY AcceptedControlsAnswered
CHECK_DEADLOCK FALSE
