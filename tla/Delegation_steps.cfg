CONSTANTS
    Thread = {t1, t2}
    Plan = 2
    Needs <- Chain
    Tunes = {1}
    Patient = TRUE
    MaxInvocations = 4
    MaxReviews = 2
    MaxFaults = 1
SPECIFICATION FairSpec
INVARIANT SettledOnce
INVARIANT AuditAccepts
INVARIANT NoParkIsLost
PROPERTY EveryRunEnds
CHECK_DEADLOCK FALSE
