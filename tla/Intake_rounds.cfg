CONSTANTS
    Fields = 3
    MaxQuestions = 4
    MaxPerField = 2
    Thread = {s, a}
    Submitter = s
    Patient = TRUE
    MaxFaults = 2
SPECIFICATION LiveSpec
INVARIANT NobodyIsStuck
PROPERTY ClassifiedOnGrounds
PROPERTY IntakeEnds
CHECK_DEADLOCK FALSE
