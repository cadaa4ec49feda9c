CONSTANTS
    root = root
    delegate = delegate
    Caller <- Agents
    Depth <- OfDelegation
    Ticket = {t1}
    Surface <- Surfaces
    FirstSurface = "guarded"
    Verdict <- Engine
    Overlap = FALSE
    TTL = 0
    None = None
    MaxCalls = 3
    MaxTrouble = 3
SPECIFICATION Spec
INVARIANT OneYesOneRun
INVARIANT RejectionIsFinal
INVARIANT StartsPassTheAuditPerDepth
INVARIANT DenialsPassTheAudit
INVARIANT FreshYesBuys
INVARIANT OneRecordPerCall
CHECK_DEADLOCK FALSE
