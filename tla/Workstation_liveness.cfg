SPECIFICATION FairSpec
CONSTANTS
    Case = {c1, c2}
    NoCase = NoCase
    Steps = 1
    Baseline <- MCBaseline
    QueueCap = 1
    MaxStarts = 2
    MaxFaults = 1
    Clearing = FALSE
INVARIANTS CollectorNeverFailsCollection
PROPERTIES SubmittedEnds RestartSettles ImplementsLifecycle
CHECK_DEADLOCK FALSE
