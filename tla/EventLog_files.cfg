CONSTANTS
    Thread = {w1, w2}
    Call = {k1, k2}
    None = None
    AnyVersion = AnyVersion
    MaxReads = 2
    MaxFaults = 2
SPECIFICATION Spec
SYMMETRY Symmetry
INVARIANT ChainNeverForks
INVARIANT OnlyCutsBreak
INVARIANT CacheIsTransparent
INVARIANT ReadsSeeWhatWasTold
PROPERTY KeepsItsPromises
CHECK_DEADLOCK FALSE
