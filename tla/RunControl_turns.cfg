CONSTANTS
    Thread = {s, a}
    Submitter = s
    Review = {r1, r2, r3}
    None = None
    Request = {"approve", "reject", "resume", "answer"}
    MaxReopens = 1
    Patient = TRUE
SPECIFICATION LiveSpec
INVARIANT RejectionHolds
INVARIANT LostOnlyInTwoWays
PROPERTY EveryRunSettles
CHECK_DEADLOCK FALSE
