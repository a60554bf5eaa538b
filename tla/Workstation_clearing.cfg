SPECIFICATION Spec
CONSTANTS
    Case = {c1, c2}
    NoCase = NoCase
    Steps = 2
    Baseline <- MCBaseline
    QueueCap = 1
    MaxStarts = 1
    MaxFaults = 0
    Clearing = TRUE
INVARIANTS CollectorNeverFailsCollection
CHECK_DEADLOCK FALSE
