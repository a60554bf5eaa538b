SPECIFICATION ASpec
CONSTANTS
    Endpoint = {e1}
    Task = {t1}
    Thread = {w1, w2}
    None = None
    NoThread = NoThread
    NoWork = NoWork
    MaxAttempts = 2
    MaxQueued = 1
    Batch = 1
    MaxLosses = 0
SYMMETRY Symmetry
CONSTRAINT FewAttempts
PROPERTIES EvidenceHolds
CHECK_DEADLOCK FALSE
