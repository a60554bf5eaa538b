SPECIFICATION Spec
CONSTANTS
    Endpoint = {e1}
    Task = {t1, t2}
    Thread = {w1, w2}
    None = None
    MaxAttempts = 2
    MaxQueued = 1
    Batch = 1
SYMMETRY Symmetry
CONSTRAINT FewAttempts
PROPERTIES BoundsUnlessOvertaken
CHECK_DEADLOCK FALSE
