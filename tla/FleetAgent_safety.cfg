SPECIFICATION ASpec
CONSTANTS
    Endpoint = {e1, e2}
    Task = {t1, t2}
    Thread = {w1, w2}
    None = None
    NoThread = NoThread
    NoWork = NoWork
    MaxAttempts = 2
    MaxQueued = 2
    Batch = 2
    MaxLosses = 1
SYMMETRY Symmetry
CONSTRAINT TwoClaims
INVARIANTS ATypeOK ClosedIsExplained ResultIsEvidence BatchWasHandedOut
PROPERTIES FinalUnlessInFlight RevokedGetsNoWork
CHECK_DEADLOCK FALSE
