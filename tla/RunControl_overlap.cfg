CONSTANTS
    Thread = {s, a}
    Submitter = s
    Review = {r1, r2}
    None = None
    Request = {"reject", "resume", "answer", "plan", "cancel"}
    MaxReopens = 0
    Patient = FALSE
SPECIFICATION Spec
INVARIANT TypeOK
INVARIANT FactsAgree
INVARIANT ThyAuthorised
PROPERTY HistoryReplays
PROPERTY CompletionAuthorised
SYMMETRY Symmetry
CHECK_DEADLOCK FALSE
